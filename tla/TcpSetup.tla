------------------------------ MODULE TcpSetup ------------------------------
(***************************************************************************)
(* How TcpSocket and TcpListener come to own a descriptor and lose it:     *)
(* TcpSocket::Connect, TcpListener::Bind, Listen and Accept, moves and     *)
(* Close (include/net/tcp_socket.hpp, tcp_listener.hpp, detail/), called by *)
(* several threads on different objects. Every native call is a step of    *)
(* its own, so any of them can fail, be interrupted, or fall between two   *)
(* steps of another thread; a descriptor that is not yet in an object      *)
(* lives in a local SocketHandle of the call.                              *)
(*                                                                         *)
(* The last error is the operating system's per-thread errno: the native   *)
(* close in a SocketHandle destructor may overwrite it.                    *)
(***************************************************************************)
EXTENDS Naturals

CONSTANTS
    Sockets,          \* TcpSocket objects
    Listeners,        \* TcpListener objects
    Natives,          \* descriptor numbers
    Threads,
    Ports,
    InvalidHandle,
    None,             \* no object, no port
    Backlog,          \* connections the system queues for a listening socket
    SetsNoSigPipe,    \* ConfigureTcpSocket sets SO_NOSIGPIPE (BSD, macOS)
    MaxInterrupts,    \* bound: native calls interrupted by a signal
    MaxFailures       \* bound: native calls failing for other reasons

ASSUME SetupAssumption ==
    /\ InvalidHandle \notin Natives
    /\ None \notin Sockets \cup Listeners \cup Ports
    /\ Sockets \cap Listeners = {}
    /\ Backlog \in Nat \ {0}
    /\ SetsNoSigPipe \in BOOLEAN
    /\ MaxInterrupts \in Nat /\ MaxFailures \in Nat

VARIABLES
    m_handle,    \* the handle of every object
    kernel,      \* the system's state of every descriptor
    port,        \* the local port of bound and listening descriptors
    queue,       \* connections waiting to be accepted on each descriptor
    errno,       \* the last error of each thread
    call,        \* the call each thread is in
    interrupts,  \* interruptions so far
    failures     \* failures so far

system == <<kernel, port, queue>>
budgets == <<interrupts, failures>>
vars == <<m_handle, system, errno, call, budgets>>

Objects == Sockets \cup Listeners

\* A call: what it works on, its local SocketHandle, the error it will return,
\* and (history) the error of the native call that made it give up.
Idle == [kind |-> "none", step |-> "idle", object |-> None, into |-> None, port |-> None,
         handle |-> InvalidHandle, error |-> "none", cause |-> "none"]

At(t, step) == call[t].step = step

\* A thread is inside a call on o, or will store the accepted socket in o.
Busy(o) == \E t \in Threads : o \in {call[t].object, call[t].into}

IsValid(o) == m_handle[o] # InvalidHandle

Free == {n \in Natives : kernel[n] = "free"}

\* The descriptors the program has open.
InUse == {n \in Natives : kernel[n] \notin {"free", "elsewhere"}}

Listening(p) == {n \in Natives : kernel[n] = "listening" /\ port[n] = p}

\* The rest of the process may hold any of the descriptors.
Init ==
    /\ m_handle = [o \in Objects |-> InvalidHandle]
    /\ kernel \in [Natives -> {"free", "elsewhere"}]
    /\ port = [n \in Natives |-> None]
    /\ queue = [n \in Natives |-> 0]
    /\ errno = [t \in Threads |-> "none"]
    /\ call = [t \in Threads |-> Idle]
    /\ interrupts = 0
    /\ failures = 0

-----------------------------------------------------------------------------
\* The call of thread t returns; its locals are gone.
Return(t) == call' = [call EXCEPT ![t] = Idle]

\* A native call of thread t failed with e and the method gives up.
Fails(t, e) ==
    /\ errno' = [errno EXCEPT ![t] = e]
    /\ call' = [call EXCEPT ![t].step = "failed", ![t].cause = e]
    /\ UNCHANGED <<m_handle, system>>

\* ... for a reason of the system's own, or because a signal arrived.
Disturbance(e) ==
    \/ /\ e = "failed" /\ failures < MaxFailures
       /\ failures' = failures + 1
       /\ UNCHANGED interrupts
    \/ /\ e = "interrupted" /\ interrupts < MaxInterrupts
       /\ interrupts' = interrupts + 1
       /\ UNCHANGED failures

\* A native call of thread t succeeded; the method goes on with `handle`.
Proceeds(t, handle, step) ==
    /\ call' = [call EXCEPT ![t].handle = handle, ![t].step = step]
    /\ UNCHANGED <<m_handle, errno, budgets>>

Begins(t, kind, o, into, p, step) ==
    /\ call' = [call EXCEPT ![t] = [Idle EXCEPT !.kind = kind, !.object = o, !.into = into,
                                                !.port = p, !.step = step]]
    /\ UNCHANGED <<m_handle, system, errno, budgets>>

-----------------------------------------------------------------------------
\* TcpSocket::Connect and TcpListener::Bind to port p; a valid object is
\* refused (already_connected, invalid_argument) and nothing happens.
Open(t, o, p) ==
    /\ At(t, "idle") /\ ~Busy(o) /\ ~IsValid(o)
    /\ Begins(t, IF o \in Sockets THEN "connect" ELSE "bind", o, None, p, "create")

\* ::socket in CreateSocket.
Create(t) ==
    /\ At(t, "create")
    /\ \/ \E n \in Free :
          /\ kernel' = [kernel EXCEPT ![n] = "fresh"]
          /\ Proceeds(t, n, "configure")
          /\ UNCHANGED <<port, queue>>
       \/ Free = {} /\ Fails(t, "no_descriptor") /\ UNCHANGED budgets
       \/ Disturbance("failed") /\ Fails(t, "failed")

\* ConfigureTcpSocket, on a created or an accepted socket.
Configure(t) ==
    /\ At(t, "configure")
    /\ \/ /\ Proceeds(t, call[t].handle, IF call[t].kind = "accept" THEN "adopt" ELSE "native")
          /\ UNCHANGED system
       \/ SetsNoSigPipe /\ Disturbance("failed") /\ Fails(t, "failed")

\* ::connect: completes when a listening socket queues it and times out when
\* all their queues stay full; an interrupted connect is not retried.
NativeConnect(t) ==
    /\ At(t, "native") /\ call[t].kind = "connect"
    /\ \/ \E n \in Listening(call[t].port) :
          /\ queue[n] < Backlog
          /\ queue' = [queue EXCEPT ![n] = @ + 1]
          /\ kernel' = [kernel EXCEPT ![call[t].handle] = "connected"]
          /\ Proceeds(t, call[t].handle, "adopt")
          /\ UNCHANGED port
       \/ Listening(call[t].port) = {} /\ Fails(t, "refused") /\ UNCHANGED budgets
       \/ /\ \A n \in Listening(call[t].port) : queue[n] = Backlog
          /\ Listening(call[t].port) # {}
          /\ Fails(t, "timed_out")
          /\ UNCHANGED budgets
       \/ \E e \in {"failed", "interrupted"} : Disturbance(e) /\ Fails(t, e)

\* Slip: the new handle is stored before ::bind has succeeded.
StoreEarly(t) ==
    /\ At(t, "native") /\ call[t].kind = "bind"
    /\ m_handle' = [m_handle EXCEPT ![call[t].object] = call[t].handle]
    /\ Return(t)
    /\ UNCHANGED <<system, errno, budgets>>

\* ::bind.
NativeBind(t) ==
    LET taken == \E n \in Natives : port[n] = call[t].port IN
    /\ At(t, "native") /\ call[t].kind = "bind"
    /\ \/ /\ ~taken
          /\ kernel' = [kernel EXCEPT ![call[t].handle] = "bound"]
          /\ port' = [port EXCEPT ![call[t].handle] = call[t].port]
          /\ Proceeds(t, call[t].handle, "adopt")
          /\ UNCHANGED queue
       \/ taken /\ Fails(t, "in_use") /\ UNCHANGED budgets
       \/ Disturbance("failed") /\ Fails(t, "failed")

\* TcpListener::Listen on a valid listener with a positive backlog; it is
\* refused otherwise, and has nothing to undo when ::listen fails.
Listen(t, l) ==
    /\ At(t, "idle") /\ ~Busy(l) /\ IsValid(l)
    /\ kernel' = [kernel EXCEPT ![m_handle[l]] = "listening"]
    /\ UNCHANGED <<m_handle, port, queue, errno, call, budgets>>

\* TcpListener::Accept; the accepted TcpSocket goes to an empty object s. An
\* invalid listener is refused.
Accept(t, l, s) ==
    /\ At(t, "idle") /\ ~Busy(l) /\ ~Busy(s) /\ ~IsValid(s) /\ IsValid(l)
    /\ Begins(t, "accept", l, s, None, "native")

\* Slip: Accept retries whatever the error.
RetriesEverything(e) == TRUE

\* The test in Accept's loop.
Retries(e) == e = "interrupted"

\* ::accept fails with e: the loop goes round again, or Accept gives up.
AcceptFails(t, e) ==
    \/ ~Retries(e) /\ Fails(t, e)
    \/ /\ Retries(e)
       /\ errno' = [errno EXCEPT ![t] = e]
       /\ UNCHANGED <<m_handle, system, call>>

\* ::accept: needs a free descriptor even before a connection is there.
NativeAccept(t) ==
    LET h == m_handle[call[t].object] IN
    /\ At(t, "native") /\ call[t].kind = "accept"
    /\ \/ \E n \in Free :
          /\ queue[h] > 0
          /\ queue' = [queue EXCEPT ![h] = @ - 1]
          /\ kernel' = [kernel EXCEPT ![n] = "connected"]
          /\ Proceeds(t, n, "configure")
          /\ UNCHANGED port
       \/ Free = {} /\ AcceptFails(t, "no_descriptor") /\ UNCHANGED budgets
       \/ kernel[h] = "bound" /\ AcceptFails(t, "invalid") /\ UNCHANGED budgets
       \/ \E e \in {"failed", "interrupted"} : Disturbance(e) /\ AcceptFails(t, e)

\* Slip: Accept returns a copy of the local handle and closes it.
AdoptCopy(t) ==
    /\ At(t, "adopt")
    /\ m_handle' = [m_handle EXCEPT
           ![IF call[t].kind = "accept" THEN call[t].into ELSE call[t].object] = call[t].handle]
    /\ call' = [call EXCEPT ![t].step = "discard"]
    /\ UNCHANGED <<system, errno, budgets>>

\* m_handle = std::move(handle), or the move into Accept's result.
Adopt(t) ==
    /\ At(t, "adopt")
    /\ m_handle' = [m_handle EXCEPT
           ![IF call[t].kind = "accept" THEN call[t].into ELSE call[t].object] = call[t].handle]
    /\ Return(t)
    /\ UNCHANGED <<system, errno, budgets>>

\* The system takes a descriptor back.
Freed(n) ==
    /\ kernel' = [kernel EXCEPT ![n] = "free"]
    /\ port' = [port EXCEPT ![n] = None]
    /\ queue' = [queue EXCEPT ![n] = 0]

\* ::close may fail, and then it overwrites errno.
CloseErrno(t) == errno' \in {errno, [errno EXCEPT ![t] = "close_failed"]}

\* Slip: the failed socket is closed before its error is read.
DiscardBeforeCapture(t) ==
    /\ At(t, "failed")
    /\ IF call[t].handle = InvalidHandle
       THEN UNCHANGED <<system, errno>>
       ELSE Freed(call[t].handle) /\ CloseErrno(t)
    /\ call' = [call EXCEPT ![t].error = errno'[t], ![t].handle = InvalidHandle,
                            ![t].step = "discard"]
    /\ UNCHANGED <<m_handle, budgets>>

\* Failure(SocketError::Last()), built before the locals are destroyed.
Capture(t) ==
    /\ At(t, "failed")
    /\ call' = [call EXCEPT ![t].error = errno[t], ![t].step = "discard"]
    /\ UNCHANGED <<m_handle, system, errno, budgets>>

\* The destructor of the local SocketHandle of a failed call.
Discard(t) ==
    /\ At(t, "discard")
    /\ IF call[t].handle = InvalidHandle
       THEN UNCHANGED <<system, errno>>
       ELSE Freed(call[t].handle) /\ CloseErrno(t)
    /\ Return(t)
    /\ UNCHANGED <<m_handle, budgets>>

\* Close() or the destructor of a TcpSocket or TcpListener.
Close(t, o) ==
    /\ At(t, "idle") /\ ~Busy(o) /\ IsValid(o)
    /\ m_handle' = [m_handle EXCEPT ![o] = InvalidHandle]
    /\ Freed(m_handle[o])
    /\ CloseErrno(t)
    /\ UNCHANGED <<call, budgets>>

\* The moves of TcpSocket and of TcpListener; the target's descriptor is closed.
Move(t, d, s) ==
    /\ At(t, "idle") /\ ~Busy(d) /\ ~Busy(s) /\ d # s
    /\ {d, s} \subseteq Sockets \/ {d, s} \subseteq Listeners
    /\ m_handle' = [m_handle EXCEPT ![d] = m_handle[s], ![s] = InvalidHandle]
    /\ IF IsValid(d) THEN Freed(m_handle[d]) /\ CloseErrno(t) ELSE UNCHANGED <<system, errno>>
    /\ UNCHANGED <<call, budgets>>

Step(t) ==
    \/ Create(t) \/ Configure(t) \/ NativeConnect(t) \/ NativeBind(t) \/ NativeAccept(t)
    \/ Adopt(t) \/ Capture(t) \/ Discard(t)

Next ==
    \E t \in Threads :
        \/ \E o \in Objects, p \in Ports : Open(t, o, p)
        \/ \E l \in Listeners : Listen(t, l)
        \/ \E l \in Listeners, s \in Sockets : Accept(t, l, s)
        \/ \E o \in Objects : Close(t, o)
        \/ \E d, s \in Objects : Move(t, d, s)
        \/ Step(t)

Spec == Init /\ [][Next]_vars

-----------------------------------------------------------------------------
\* Who holds descriptor n: an object, or the local handle of a call.
ObjectHolds(o, n) == m_handle[o] = n
CallHolds(t, n) == call[t].handle = n

Errors == {"none", "failed", "interrupted", "no_descriptor", "refused", "in_use", "invalid",
           "timed_out", "close_failed"}

\* The type of the state (tcp_socket.hpp:177, tcp_listener.hpp:100).
TypeOK ==
    /\ m_handle \in [Objects -> Natives \cup {InvalidHandle}]
    /\ kernel \in [Natives -> {"free", "elsewhere", "fresh", "bound", "listening", "connected"}]
    /\ port \in [Natives -> Ports \cup {None}]
    /\ queue \in [Natives -> 0..Backlog]
    /\ errno \in [Threads -> Errors]
    /\ call \in [Threads ->
          [kind: {"none", "connect", "bind", "accept"},
           step: {"idle", "create", "configure", "native", "adopt", "failed", "discard"},
           object: Objects \cup {None}, into: Sockets \cup {None}, port: Ports \cup {None},
           handle: Natives \cup {InvalidHandle}, error: Errors, cause: Errors]]
    /\ interrupts \in 0..MaxInterrupts
    /\ failures \in 0..MaxFailures

\* Every descriptor in use has exactly one owner, an object or a call: no
\* failure between ::socket or ::accept and the return leaks the descriptor
\* or leaves it in two places (tcp_socket.hpp:49-61, tcp_listener.hpp:31-43,
\* 73-88, socket_helpers.hpp:26-31, tcp_helpers.hpp:24-35).
OwnedOnce ==
    \A n \in Natives :
        /\ n \in InUse <=>
              (\E o \in Objects : ObjectHolds(o, n)) \/ (\E t \in Threads : CallHolds(t, n))
        /\ \A o1, o2 \in Objects : ObjectHolds(o1, n) /\ ObjectHolds(o2, n) => o1 = o2
        /\ \A t1, t2 \in Threads : CallHolds(t1, n) /\ CallHolds(t2, n) => t1 = t2
        /\ \A o \in Objects, t \in Threads : ~(ObjectHolds(o, n) /\ CallHolds(t, n))

\* Ownership in a well-typed state: the part of the invariant every native call
\* of every method depends on (tcp_socket.hpp:49-61, tcp_listener.hpp:31-88).
DescriptorsOwned == TypeOK /\ OwnedOnce

\* A valid TcpSocket is connected and a valid TcpListener is bound: a failed
\* Connect or Bind leaves the object invalid, and nothing half set up is ever
\* visible in an object (tcp_socket.hpp:39-41, tcp_listener.hpp:18, 24).
ValidMeansReady ==
    /\ \A s \in Sockets : IsValid(s) => kernel[m_handle[s]] = "connected"
    /\ \A l \in Listeners : IsValid(l) => kernel[m_handle[l]] \in {"bound", "listening"}

\* The error a call is about to return is the error of the native call that
\* made it fail, although the destructor that runs before the return closes a
\* descriptor and may overwrite errno (tcp_socket.hpp:58, tcp_listener.hpp:40, 76-86).
ErrorIsTheCause ==
    \A t \in Threads : At(t, "discard") => call[t].error = call[t].cause
=============================================================================
