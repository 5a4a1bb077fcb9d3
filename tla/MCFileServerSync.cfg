\* Two requests in the sync mode, and nothing fails.
SPECIFICATION Spec
CONSTANTS
    Requests = {r1, r2}
    Unencodable = {}
    Modes = {TRUE}
    MaxRetries = 0
    Faults = {}
    MaxCrashes = 0
    Ticker = Ticker
    Main = Main
INVARIANT AnsweredIsPersisted
