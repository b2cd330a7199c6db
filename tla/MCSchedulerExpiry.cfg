CONSTANTS
    c1 = c1
    t1 = t1
    t2 = t2
    t3 = t3
    t4 = t4
    t5 = t5
    t6 = t6
    Campaigns = {c1}
    Tasks = {t1, t2, t3}
    MaxCalls = 1
    UsdBudget <- MCUsdBudget
    TaskSpec <- MCTaskSpec
    ClassLimits <- MCClassLimits
    ExplorationFloor <- MCExplorationFloor
    NoParent = NoParent
SPECIFICATION Spec
CHECK_DEADLOCK FALSE
PROPERTIES
    NoCommitAfterExpiry
