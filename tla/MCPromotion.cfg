CONSTANTS
    Incidents = {i1}
    Relevant = {i1}
    Declared = {"OPEN"}
    Times = {1, 2}
    WindowLength = 2
    Target = 6000
    BreachThreshold = 2
    Proposals = {p1}
    Versions = {1, 2}
    Floor <- MCFloor
    RequiredReviews <- MCRequiredReviews
    RequiredAdversarial <- MCRequiredAdversarial
    ReviewKinds <- MCReviewKinds
    Drafts <- MCDrafts
    LifecyclePackages <- MCLifecyclePackages
    Syntheses = {"own", "disclosed"}
    ChangeSets = {"none", "other"}
    MaxDay = 3
    MaxReviews = 2
    Strategies = {1, 2, 3}
    Plan <- MCPlan
    Content <- MCContent
    Families = {"f1", "f2"}
    Configs = {"c1"}
    Allowed = {"f1", "f2"}
    Budget = 2
    Snapshots <- MCSnapshots
    Manifest <- MCManifest
    MaxGate = 5
    MaxVersion = 8
    Models = {m1}
    Principals = {dev, val}
    Developers = {dev}
    Evidence = {"e1", "e2"}
    Entries <- MCEntries
    MaxValidations = 1
    None = None
SPECIFICATION MCSpec
CONSTRAINT Bound
CHECK_DEADLOCK FALSE
INVARIANTS
    TypeOK
    PromotionsEarned
    PassesEarned
    IndependentEvidence
PROPERTY
    MaterialIncidentsBlock
