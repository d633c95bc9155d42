SPECIFICATION Spec
CONSTANTS
    p1 = p1
    p2 = p2
    Pids = {p1, p2}
    Absent = Absent
    Part = Part
    MaxRuns = 2
    MaxChanges = 2
    MaxStops = 2
INVARIANTS OnlyWholeStatuses FileIsCurrent NoStrayTemp
PROPERTIES ImplementsRegister
CHECK_DEADLOCK FALSE
