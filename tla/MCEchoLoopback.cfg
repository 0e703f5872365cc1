\* The request exactly fits, or more than fits, in what the system buffers; the server's buffer is
\* smaller than the request.
CONSTANTS
    CapacitiesUntimed = {6, 8}
    CapacitiesTimed = {}
    MaxFailures = 1
    MaxInterrupts = 2
    MessageSize = 6
    BufferSize = 4
\* main returns.
CHECK_DEADLOCK FALSE
SPECIFICATION LoopbackSpec
INVARIANT EchoIsRequest
PROPERTY Terminates
