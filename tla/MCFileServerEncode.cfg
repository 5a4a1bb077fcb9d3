\* One gauge is NaN, and nothing fails.
SPECIFICATION Spec
CONSTANTS
    Requests = {r1, r2}
    Unencodable = {r1}
    Modes = {TRUE}
    MaxRetries = 1
    Faults = {}
    MaxCrashes = 0
    Ticker = Ticker
    Main = Main
INVARIANT NextWriteCarries
