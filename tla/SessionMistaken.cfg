SPECIFICATION Spec
CONSTANTS
    Fields = {"cnc"}
    Cells = {"cnc"}
    Asked = {"cnc"}
    Values = {v1, v2}
    Starts = {v1}
    NoValue = NoValue
    Silent = {"cnc"}
    Peeked = {}
    Cuts = {FALSE}
    MaxWrites = 1
    MaxOdd = 4
    FieldOf <- MCFieldOf
    PutOrder <- MCPutOrder
    Polled <- Cnc
    SyncOrder <- Cnc
INVARIANTS ConfirmedWrite
