\* Blocking receives on every thread wait for ever once no more is sent.
CONSTANTS
    Sockets = {s1, s2}
    Natives = {n1, n2}
    Threads = {t1, t2}
    Ports = {p1, p2}
    Others = {o1}
    InvalidHandle = InvalidHandle
    None = None
    MaxTransferLength = 1
    QueueLimit = 1
    MaxSends = 2
    MaxStrays = 1
    MaxDuplicates = 1
    MaxInterrupts = 1
    MaxFailures = 1
CHECK_DEADLOCK FALSE
SPECIFICATION Spec
SYMMETRY Symmetry
INVARIANTS SocketsOwned OneDatagramPerSend ReceivedAsSent
