CONSTANTS
    c1 = c1
    t1 = t1
    t2 = t2
    t3 = t3
    t4 = t4
    t5 = t5
    t6 = t6
    Campaigns = {c1}
    Tasks = {t1, t2, t3, t4}
    MaxCalls = 1
    UsdBudget <- MCUsdBudget
    TaskSpec <- MCTaskSpec
    ClassLimits <- MCClassLimits
    ExplorationFloor <- MCExplorationFloor
    NoParent = NoParent
SPECIFICATION FairSpec
CHECK_DEADLOCK FALSE
INVARIANTS
    TypeOK
    LeaseOwnsTask
    RetriesBounded
    DependenciesRespected
    BudgetConserved
    DependencyDAG
PROPERTIES
    SettledForGood
    TasksSettle
