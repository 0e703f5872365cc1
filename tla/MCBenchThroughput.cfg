CONSTANTS
    CapacitiesUntimed = {}
    CapacitiesTimed = {1, 3, 4}
    MaxFailures = 2
    MaxInterrupts = 2
    ChunkBytes = 2
    Chunks = 3
\* Both threads return: Terminates asks for that.
CHECK_DEADLOCK FALSE
SPECIFICATION Spec
INVARIANTS CountsAgree ReportIsTrue
PROPERTY Terminates
