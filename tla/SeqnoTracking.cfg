SPECIFICATION NumbersSpec
CONSTANTS
    Half = 8
    MaxJump = 7
    MaxSeqno = 40
INVARIANTS
    NumberIsRecovered
    UnwrapIsClosest
