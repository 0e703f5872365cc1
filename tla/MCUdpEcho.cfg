\* Two ports and a third of another program; one datagram of theirs, one
\* duplicate and one failure.
CONSTANTS
    Sockets = {server, client}
    Server = server
    Client = client
    Natives = {n1, n2}
    Threads = {main}
    Main = main
    Ports = {p1, p2}
    Others = {stranger}
    InvalidHandle = InvalidHandle
    None = None
    MaxTransferLength = 2
    QueueLimit = 2
    MaxSends = 4
    MaxStrays = 1
    MaxDuplicates = 1
    MaxInterrupts = 1
    MaxFailures = 1
\* main returns.
CHECK_DEADLOCK FALSE
SPECIFICATION EchoSpec
INVARIANTS SuccessIsAnExchange OutcomeIsTrue NothingLeaks
PROPERTY Returns
