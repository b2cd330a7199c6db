CONSTANTS
    Workers = {w1}
    Routes <- MCRoutes
    Inputs <- MCInputs
    Usages = {2, Unknown}
    Estimate = 1
    Reasons = {"recovered"}
    Invoices = {1}
    MaxTotal = 3
    MaxCall = Unknown
    Retries = 1
    Threshold = 2
    MaxRuns = 2
    Unknown = Unknown
    None = None
SPECIFICATION Spec
SYMMETRY Symmetry
CHECK_DEADLOCK FALSE
INVARIANT FailuresHibernate
