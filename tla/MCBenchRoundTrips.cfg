\* Connections that hold a message, without timeouts, and some that hold less.
CONSTANTS
    CapacitiesUntimed = {3, 4}
    CapacitiesTimed = {1, 2}
    MaxFailures = 2
    MaxInterrupts = 2
    MessageBytes = 3
    Rounds = 3
\* Both threads return: Terminates asks for that.
CHECK_DEADLOCK FALSE
SPECIFICATION Spec
INVARIANTS EchoIntact ReportIsTrue
PROPERTY Terminates
