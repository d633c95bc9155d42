SPECIFICATION Spec
CONSTANTS
    Commands <- MCCommands
    Touches <- MCTouches
    Others <- MCOthers
    Ports = {9}
    Unset = Unset
    MaxSent = 2
    MaxAsked = 1
INVARIANTS MessagesAsSent PublishedAsAsked
CHECK_DEADLOCK FALSE
