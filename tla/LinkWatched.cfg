SPECIFICATION FairSpec
CONSTANTS
    d1 = d1
    d2 = d2
    NoDevice = NoDevice
    Devices = {d1}
    Preferred = d1
    WatcherStarts = {TRUE, FALSE}
    Signals = {}
    SignalShapes = {TRUE}
    ScrapeMayFail = FALSE
    MaxChanges = 3
    MaxOps = 1
    MaxRetry = 1
INVARIANTS PublishedMatchesLink NoLostWakeup
PROPERTIES RfcommOnlyOnLiveLink EventuallyConnects NudgesGoOn ConnectingEnds OutageIsPublished
