SPECIFICATION Spec
CONSTANTS
    p1 = p1
    p2 = p2
    a = a
    b = b
    m = m
    git = git
    old = old
    new = new
    Procs = {p1, p2}
    Given = {a, b}
    Matching = {m}
    Rest = {git}
    Git = git
    Texts = {old, new}
    MaxStarts = 2
    MaxMeddles = 1
    MaxFaults = 1
SYMMETRY Pids
INVARIANTS OnlyWholeFiles ExitZeroIsTrue StrayTempsAreFew
PROPERTIES LeavesTheRest
CHECK_DEADLOCK FALSE
