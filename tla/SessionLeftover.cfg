SPECIFICATION Spec
CONSTANTS
    Fields = {"sidetone"}
    Cells = {"sidetone"}
    Asked = {"sidetone"}
    Values = {v1, v2}
    Starts = {v1}
    NoValue = NoValue
    Silent = {}
    Peeked = {}
    Cuts = {FALSE}
    MaxWrites = 0
    MaxOdd = 3
    FieldOf <- MCFieldOf
    PutOrder <- MCPutOrder
    Polled <- Unpolled
    SyncOrder <- Sidetone
INVARIANTS StatusOfThisSession
