CONSTANTS
    c1 = c1
    c2 = c2
    a1 = a1
    a2 = a2
    k1 = k1
    k2 = k2
    k3 = k3
    x1 = x1
    Clients = {c1, c2}
    Auditors = {u1}
    Aggregates = {a1, a2}
    Keys = {k1, k2}
    Artifacts = {x1}
    RoleOf <- MCRoleOf
    CapabilityOf <- MCCapabilityOf
    TopicKeys <- MCTopicKeys
    Cites <- MCCites
    MaxWrites = 2
    NoClient = NoClient
    NoRequest = NoRequest
    ContentHash <- MCContentHash
SPECIFICATION FairSpec
INVARIANTS
    TypeOK
    AuditVerifies
    NoLostUpdate
    AppliedOnce
    AckedDurable
    CommittedTogether
PROPERTIES
    LogAppendOnly
    ImplementsHistory
    LockIsReleased
