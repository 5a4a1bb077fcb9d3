\* Liveness, without symmetry; one poll is enough to follow it to the server.
SPECIFICATION FairSpec
CONSTANTS
    Workers = {w1, w2}
    BatchSize = 2
    MaxRetries = 1
    RuntimeGauges = {"Alloc"}
    HostGauges = {}
    CpuCounts = {0, 2}
    Faults = {}
    MaxPolls = 1
INVARIANT CpuGaugesCurrent
PROPERTIES
    RunReturns
    EveryPollReported
