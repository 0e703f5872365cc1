CONSTANTS
    CapacitiesUntimed = {}
    CapacitiesTimed = {2}
    MaxFailures = 1
    MaxInterrupts = 1
    MaxBytes = 3
    MaxBuffer = 2
SPECIFICATION Spec
INVARIANT NeverInterrupted
PROPERTY ImplementsByteStream
