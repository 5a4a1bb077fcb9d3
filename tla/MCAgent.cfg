\* Two workers, two polls, one repetition: every interleaving of the pool.
SPECIFICATION Spec
CONSTANTS
    Workers = {w1, w2}
    BatchSize = 1
    MaxRetries = 1
    RuntimeGauges = {"Alloc"}
    HostGauges = {}
    CpuCounts = {}
    Faults = {"commit of unknown outcome", "transport failure"}
    MaxPolls = 2
SYMMETRY Symmetry
INVARIANTS
    TypeOK
    PollsConserved
    NothingStranded
    ConfirmedIsCounted
    DoubleCountNeedsDoubt
PROPERTY LedgerImplemented
