SPECIFICATION FairSpec
CONSTANTS
    w1 = w1
    w2 = w2
    A = A
    B = B
    G = G
    none = none
    Sessions = {w1, w2}
    Identities = {A, B, G}
    NoIdentity = none
    Snapshots <- MCSnapshots
    QueueSize = 1
    MaxReads = 3
    MaxFaults = 1
INVARIANTS
    IngestTypeOK
    DeadlocksNeedContradiction
PROPERTIES
    ImplementsStore
    AcceptedHandled
    RunReturns
CHECK_DEADLOCK FALSE
