\* Without crashes, and with a disk that fails: requests and shutdown end.
SPECIFICATION FairSpec
CONSTANTS
    Requests = {r1, r2}
    Unencodable = {}
    Modes = {TRUE, FALSE}
    MaxRetries = 1
    Faults = {"file operation fails"}
    MaxCrashes = 0
    Ticker = Ticker
    Main = Main
PROPERTIES
    EveryRequestEnds
    ShutdownEnds
