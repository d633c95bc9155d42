SPECIFICATION Spec
CONSTANTS
    d1 = d1
    d2 = d2
    NoDevice = NoDevice
    Devices = {d1, d2}
    Preferred = NoDevice
    WatcherStarts = {TRUE, FALSE}
    Signals = {"TERM", "USR1", "USR2"}
    SignalShapes = {TRUE, FALSE}
    ScrapeMayFail = TRUE
    MaxChanges = 2
    MaxOps = 1
    MaxRetry = 1
INVARIANTS SocketMatchesState LinkedMeansAccepted
PROPERTIES RetryIsPaced OnlyOwnReportsDropLink
CHECK_DEADLOCK FALSE
