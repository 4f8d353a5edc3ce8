SPECIFICATION Spec
CONSTANTS
    b1 = b1
    b2 = b2
    Capacity = 3
    Bytes <- MCBytes
    Blank = b1
    Writes <- MCWrites
    PopBeyond = 0
    MaxPushed = 6
INVARIANTS
    TypeOK
    NothingLostOrReordered
PROPERTIES
    PushFillsRoom
    ImplementsFifo
