\* Two requests against the metrics in memory.
\* Both are over in the end, and nothing happens any more.
SPECIFICATION ServiceSpec
CONSTANTS
    r1 = r1
    r2 = r2
    Requests = {r1, r2}
    Readers = {z1, z2}
    Writers = {w1, w2}
    Buffers = {b1, b2}
    None = None
    Missing = Missing
    NaN = NaN
    Calls <- MCCalls
    Outcomes <- MCOutcomes
    Asks <- MCAsks
    Scenarios <- MCScenarios
INVARIANTS
    ServiceTypeOK
    OwnInput
    NothingKept
    AnswersIntact
    ReadsAreCurrent
    RejectedLeavesNoTrace
    StatusIsTrue
PROPERTIES
    PoolsKept
    MemImplementsStore
    EveryRequestAnswered
CHECK_DEADLOCK FALSE
