\* Both modes, failing file operations, a crash or a power loss at any step,
\* and handlers that outlive shutdownGrace.
SPECIFICATION Spec
CONSTANTS
    Requests = {r1, r2}
    Unencodable = {}
    Modes = {TRUE, FALSE}
    MaxRetries = 1
    Faults = {"file operation fails", "power loss", "handler outlives shutdownGrace"}
    MaxCrashes = 1
    Ticker = Ticker
    Main = Main
SYMMETRY Symmetry
INVARIANTS
    TypeOK
    FileNeverTorn
    BatchesWhole
    CompletedSavesSurvive
    ShutdownMissesNothing
