SPECIFICATION Spec
CONSTANTS
    o1 = o1  o2 = o2  o3 = o3
    Bytes <- MCBytes
    Objects <- MCObjects
    Payload <- MCPayload
    MaxPayload = 2
    HeaderLen = 2
    Undecodable <- MCBad
    MayLose = TRUE
    None = None
INVARIANTS
    NeverGarbled
    ReturnsInOrder
CHECK_DEADLOCK FALSE
