SPECIFICATION Spec
CONSTANTS
    b1 = b1
    b2 = b2
    Bodies <- MCBodies
    Lens <- MCLens
    SeqModulus = 4
    MaxMessages <- MCMax
    MaxPos = 20
INVARIANTS
    TypeOK
    KeystreamNeverReused
    GenuineNextOpens
PROPERTIES
    DesyncIsForever
    RepliesInOrder
    RequestsInOrder
CHECK_DEADLOCK FALSE
