SPECIFICATION Spec
CONSTANTS
    low = low
    high = high
    Values = {low, high}
    Blank = Blank
    None = None
    maxOutstanding = 2
    maxBackoff = 2
    MaxInputs = 3
    MaxFaults = 1
INVARIANTS AcksInStep NeverStranded WaitsEnd ExitCodesTell
PROPERTIES WidgetSettles
CHECK_DEADLOCK FALSE
