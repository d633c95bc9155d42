SPECIFICATION FairSpec
CONSTANTS
    Clients = {c1, c2}
    Values = {off}
    Unlinked = off
    NoValue = NoValue
    NoClient = NoClient
    Verbs <- AllVerbs
    Activated = TRUE
    SameSecond = FALSE
    HalfClosers = {c2}
    Pipe = 1
    MaxOut = 1
    MaxOps = 2
    MaxChanges = 2
INVARIANTS SubscribersCurrent AcksAccountedFor PushesBounded
PROPERTIES ClosedForCause NeverBackwards ImplementsFeed AcksArrive SubscribersConverge
