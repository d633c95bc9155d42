SPECIFICATION FairSpec
CONSTANTS
    Fields = {"battery", "eq", "prompts"}
    Cells = {"battery", "bass", "treble", "enabled", "language"}
    Asked = {"bass", "treble", "enabled"}
    Values = {v1, v2}
    Starts = {v1}
    NoValue = NoValue
    Silent = {"prompts"}
    Peeked = {"prompts"}
    Cuts = {FALSE, TRUE}
    MaxWrites = 2
    MaxOdd = 2
    FieldOf <- MCFieldOf
    PutOrder <- MCPutOrder
    Polled <- Battery
    SyncOrder <- AllThree
INVARIANTS FramesIntact SettingsTrueAtRest ConfirmedByOwnAnswers
PROPERTIES KeepsTheRest Converges HandlersReturn
