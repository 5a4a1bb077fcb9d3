\* Only the commit of unknown outcome: is it replayed by anyone?
SPECIFICATION Spec
CONSTANTS
    Workers = {w1}
    BatchSize = 2
    MaxRetries = 1
    RuntimeGauges = {"Alloc"}
    HostGauges = {}
    CpuCounts = {0}
    Faults = {"commit of unknown outcome"}
    MaxPolls = 1
INVARIANT CommitNeverReplayed
