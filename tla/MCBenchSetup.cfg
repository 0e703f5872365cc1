\* Just enough descriptors for a pair and its listener, unless the rest of the
\* process holds some, so that one that is lost is missed by the second
\* measurement; two failures, one in each.
CONSTANTS
    Sockets = {"client", "server", "accepted", "resultClient", "resultServer", "pairClient", "pairServer"}
    Listeners = {"listener"}
    Threads = {"main"}
    Ports = {"any"}
    Natives = {n1, n2, n3}
    InvalidHandle = InvalidHandle
    None = None
    Backlog = 1
    SetsNoSigPipe = FALSE
    MaxInterrupts = 1
    MaxFailures = 2
SPECIFICATION BenchSpec
INVARIANTS PairOrNothing MeasuredHasTimeouts
PROPERTY Exit
