CONSTANTS
    Sockets = {s1, s2}
    Listeners = {l1, l2}
    Natives = {n1, n2, n3}
    Threads = {t1, t2}
    Ports = {p1}
    InvalidHandle = InvalidHandle
    None = None
    Backlog = 1
    SetsNoSigPipe = TRUE
    MaxInterrupts = 1
    MaxFailures = 1
SPECIFICATION Spec
SYMMETRY Symmetry
INVARIANTS DescriptorsOwned ValidMeansReady ErrorIsTheCause
