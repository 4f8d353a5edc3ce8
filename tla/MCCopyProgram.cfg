SPECIFICATION Spec
CONSTANTS
    CopyCapacity = 2
    StreamCapacity = 2
    PipeCapacity = 2
    FlightLimit = 1
    Loads <- MCLoads
    FaultBudget = 1
INVARIANTS
    TypeOK
    StoppedOnlyByFault
PROPERTIES
    ImplementsRelay
    ProgramEnds
