\* Lost connections at any point, two batches and a single upsert.
SPECIFICATION FairSpec
CONSTANTS
    b1 = b1
    b2 = b2
    u1 = u1
    Requests = {b1, b2, u1}
    Singles = {u1}
    Workloads <- MCWorkloads
    Missing = Missing
    MaxRetries = 1
    Faults = {"connection lost"}
INVARIANTS
    TypeOK
    NoLockCycle
    ReplayFindsNothing
    AnswersAreTrue
PROPERTIES
    StoreImplemented
    EveryCallReturns
\* Every call returns in the end.
CHECK_DEADLOCK FALSE
