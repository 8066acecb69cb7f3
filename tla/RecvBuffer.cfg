SPECIFICATION Spec
CONSTANTS
    BufferSize = 4
    BufferCount = 3
    HeaderSize = 2
    PacketSizes = {2, 3}
    MaxBytes = 22
INVARIANTS
    RoomToRecv
    CleanDisjoint
    WindowIntact
    NothingLeftUnparsed
PROPERTIES
    DeliveredWhole
