SPECIFICATION FairSpec
CONSTANTS
    d1 = d1
    d2 = d2
    NoDevice = NoDevice
    Devices = {d1}
    Preferred = NoDevice
    WatcherStarts = {TRUE}
    Signals = {}
    SignalShapes = {TRUE}
    ScrapeMayFail = FALSE
    MaxChanges = 1
    MaxOps = 0
    MaxRetry = 1
PROPERTIES EventuallyConnects
