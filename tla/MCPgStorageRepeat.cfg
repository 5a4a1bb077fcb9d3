\* One single update of a counter, whose answer may be lost.
SPECIFICATION Spec
CONSTANTS
    b1 = b1
    b2 = b2
    u1 = u1
    Requests = {u1}
    Singles = {u1}
    Workloads <- OneCounter
    Missing = Missing
    MaxRetries = 1
    Faults = {"connection lost"}
INVARIANT AppliedOnce
CHECK_DEADLOCK FALSE
