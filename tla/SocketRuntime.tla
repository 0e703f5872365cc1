--------------------------- MODULE SocketRuntime ---------------------------
(***************************************************************************)
(* net::SocketRuntime (include/net/socket_runtime.hpp) on Windows: objects *)
(* of automatic storage in nested scopes of several threads start and clean *)
(* up Winsock, which counts both for the whole process and takes every     *)
(* socket away at the last cleanup. Elsewhere the constructor only sets    *)
(* m_initialized and the destructor does nothing.                          *)
(***************************************************************************)
EXTENDS Naturals, Sequences, FiniteSets

CONSTANTS
    Threads,
    MaxDepth   \* bound: objects in scope at once in a thread

VARIABLES
    scopes,        \* the objects in scope in each thread, the innermost last
    constructing,  \* threads between WSAStartup and the version check
    started        \* Winsock's count of startups less cleanups

vars == <<scopes, constructing, started>>

\* A runtime with m_initialized and m_error, or a socket object.
Runtime(initialized, error) == [kind |-> "runtime", initialized |-> initialized, state |-> error]
Socket(state) == [kind |-> "socket", initialized |-> FALSE, state |-> state]

Init ==
    /\ scopes = [t \in Threads |-> <<>>]
    /\ constructing = {}
    /\ started = 0

\* What WSACleanup does to the objects of every thread: the last one
\* deallocates the sockets that are still open.
Surviving(objects) ==
    IF started > 1 THEN objects
    ELSE [t \in Threads |-> [i \in DOMAIN objects[t] |->
            IF objects[t][i] = Socket("open") THEN Socket("dead") ELSE objects[t][i]]]

\* ::WSACleanup with `objects` left; it fails when nothing is started.
WSACleanup(objects) ==
    /\ started' = IF started = 0 THEN 0 ELSE started - 1
    /\ scopes' = Surviving(objects)

With(t, object) == [scopes EXCEPT ![t] = Append(@, object)]

CanEnter(t) == t \notin constructing /\ Len(scopes[t]) < MaxDepth

\* SocketRuntime(), up to the check of WSAStartup's result.
Startup(t) ==
    /\ CanEnter(t)
    /\ \/ /\ started' = started + 1
          /\ constructing' = constructing \cup {t}
          /\ UNCHANGED scopes
       \/ /\ scopes' = With(t, Runtime(FALSE, "startupFailed"))
          /\ UNCHANGED <<constructing, started>>

\* Slip: a refused version is not cleaned up.
CheckVersionOnly(t) ==
    /\ t \in constructing
    /\ constructing' = constructing \ {t}
    /\ \E r \in {Runtime(TRUE, "none"), Runtime(FALSE, "versionNotSupported")} : scopes' = With(t, r)
    /\ UNCHANGED started

\* The version check, which undoes the startup when it fails.
CheckVersion(t) ==
    /\ t \in constructing
    /\ constructing' = constructing \ {t}
    /\ \/ scopes' = With(t, Runtime(TRUE, "none")) /\ UNCHANGED started
       \/ WSACleanup(With(t, Runtime(FALSE, "versionNotSupported")))

\* A socket object is declared.
Declare(t) ==
    /\ CanEnter(t)
    /\ scopes' = With(t, Socket("invalid"))
    /\ UNCHANGED <<constructing, started>>

\* It gets a descriptor, unless Winsock is not started.
Open(t, i) ==
    /\ t \notin constructing
    /\ scopes[t][i] \in {Socket("invalid"), Socket("refused")}
    /\ scopes' = [scopes EXCEPT ![t][i] = Socket(IF started > 0 THEN "open" ELSE "refused")]
    /\ UNCHANGED <<constructing, started>>

\* Slip: the destructor cleans up also if the constructor failed.
LeaveAlwaysCleans(t) ==
    LET last == Len(scopes[t])
        rest == [scopes EXCEPT ![t] = SubSeq(@, 1, last - 1)] IN
    /\ t \notin constructing /\ last > 0
    /\ \/ scopes[t][last].kind = "runtime" /\ WSACleanup(rest)
       \/ scopes[t][last].kind = "socket" /\ scopes' = rest /\ UNCHANGED started
    /\ UNCHANGED constructing

\* The innermost object goes out of scope: ~SocketRuntime, or a close.
Leave(t) ==
    LET last == Len(scopes[t])
        rest == [scopes EXCEPT ![t] = SubSeq(@, 1, last - 1)] IN
    /\ t \notin constructing /\ last > 0
    /\ \/ scopes[t][last].initialized /\ WSACleanup(rest)
       \/ ~scopes[t][last].initialized /\ scopes' = rest /\ UNCHANGED started
    /\ UNCHANGED constructing

Next ==
    \E t \in Threads :
        \/ Startup(t) \/ CheckVersion(t) \/ Declare(t) \/ Leave(t)
        \/ \E i \in DOMAIN scopes[t] : Open(t, i)

Spec == Init /\ [][Next]_vars

-----------------------------------------------------------------------------
Initialized(t) == {i \in DOMAIN scopes[t] : scopes[t][i].initialized}

\* The type of the state; a runtime that is not initialized says why
\* (socket_runtime.hpp:19-31).
TypeOK ==
    /\ constructing \subseteq Threads
    /\ started \in Nat
    /\ \A t \in Threads : \A i \in DOMAIN scopes[t] :
          \/ scopes[t][i] \in {Runtime(TRUE, "none"), Runtime(FALSE, "startupFailed"),
                               Runtime(FALSE, "versionNotSupported")}
          \/ scopes[t][i] \in {Socket(s) : s \in {"invalid", "open", "refused", "dead"}}

\* "Every successful WSAStartup must be balanced" (test_socket_runtime.cpp:60):
\* whatever constructors fail and in which order threads leave their scopes,
\* Winsock counts exactly the initialized runtimes and those still deciding,
\* so it is down when no runtime is alive (socket_runtime.hpp:17-31, 40-43).
Balanced ==
    started = Cardinality(constructing)
              + Cardinality({place \in Threads \X (1..MaxDepth) : place[2] \in Initialized(place[1])})

\* A socket declared inside an initialized runtime works until its own
\* destructor: no destructor or failed constructor of another runtime, nested
\* or on another thread, takes Winsock away from it
\* (test_socket_runtime.cpp:26, example_tcp_loopback.cpp:49, 143).
NestedSocketsWork ==
    \A t \in Threads : \A i \in DOMAIN scopes[t] :
        (\E outer \in Initialized(t) : outer < i) =>
            scopes[t][i] \notin {Socket("refused"), Socket("dead")}
=============================================================================
