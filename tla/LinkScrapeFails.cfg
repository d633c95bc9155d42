SPECIFICATION FairSpec
CONSTANTS
    d1 = d1
    d2 = d2
    NoDevice = NoDevice
    Devices = {d1}
    Preferred = d1
    WatcherStarts = {TRUE}
    Signals = {}
    SignalShapes = {TRUE}
    ScrapeMayFail = TRUE
    MaxChanges = 2
    MaxOps = 0
    MaxRetry = 1
PROPERTIES EventuallyConnects
