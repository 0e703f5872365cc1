\* Results: a chain of moves, a result assigned over another one and a
\* valueless one. Winsock: up to three nested objects in each thread. Timers:
\* two for each thread, nested or one after the other.
\* Texts: two edits, so a number that overflows, a bracket or colon missing or
\* doubled, a second scope id, a NUL after an address, text after a port.
\* Keys: lengths around sizeof(sockaddr_in) and sizeof(sockaddr_in6); a third
\* key is inserted between two.
CONSTANTS
    None = None
    Nullopt = Nullopt
    Results = {r1, r2, r3}
    Resources = {v1, v2}
    Errors = {e1, e2}
    NoError = NoError
    MovesMayThrow = TRUE
    Threads = {t1, t2}
    MaxDepth = 3
    MaxTimers = 2
    MaxTime = 2
    MaxEdits = 2
    MaxDigits = 4
    PortsUsed = {1, 2}
    ScopesUsed = {0, 3}
    LengthsUsed = {0, 15, 16, 27, 28}
    MaxKeys = 3
\* Timing, editing and inserting stop.
CHECK_DEADLOCK FALSE
SPECIFICATION MCSpec
INVARIANTS ConditionDecides ResultsOwnOnce WinsockIsUp TimersReport
INVARIANTS EndpointTexts EndpointKeySet NearKeysDoNotCollide
PROPERTY ValueSurvivesThrow
