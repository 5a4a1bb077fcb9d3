\* A periodic save is under way when the signal arrives, and nothing fails.
SPECIFICATION Spec
CONSTANTS
    Requests = {r1}
    Unencodable = {}
    Modes = {FALSE}
    MaxRetries = 0
    Faults = {}
    MaxCrashes = 0
    Ticker = Ticker
    Main = Main
INVARIANT SavedBeforeExit
