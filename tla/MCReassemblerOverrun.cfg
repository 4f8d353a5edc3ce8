SPECIFICATION Spec
CONSTANTS
    Capacity = 4
    StreamLen = 6
    MaxSize = 3
    FinHabits <- MCHonestHabits
    OverrunNow = 2
    OverrunPending = 2
INVARIANT OutputIsStreamPrefix
