--------------------------- MODULE TcpSetupProofs ---------------------------
(***************************************************************************)
(* Proofs about TcpSetup for any sets of sockets, listeners, descriptors,  *)
(* threads and ports, any backlog and any number of failures and           *)
(* interruptions. OwnedOnce is not inductive alone: which object a call    *)
(* will store its descriptor in, that this object is empty, and that no    *)
(* other call has the same plan, must be known at every step (CallShape,   *)
(* CallsApart), or the last step could store it over another one.          *)
(*                                                                         *)
(* The theorems about BenchSetup, one program over these calls, come last; *)
(* those about Spec do not use its assumption about the objects.           *)
(***************************************************************************)
EXTENDS BenchSetup, TLAPS

\* What a call works on: an empty socket, an empty listener, or a valid
\* listener and an empty socket (tcp_socket.hpp:44, tcp_listener.hpp:26, 67).
Plan(c) ==
    \/ c.kind = "connect" /\ c.object \in Sockets /\ c.into = None /\ ~IsValid(c.object)
    \/ c.kind = "bind" /\ c.object \in Listeners /\ c.into = None /\ ~IsValid(c.object)
    \/ /\ c.kind = "accept" /\ c.object \in Listeners /\ IsValid(c.object)
       /\ c.into \in Sockets /\ ~IsValid(c.into)

\* How far its descriptor is. Accept has none before ::accept, which returns a
\* connected one.
Stage(c) ==
    \/ c.step = "create" /\ c.handle = InvalidHandle /\ c.kind # "accept"
    \/ c.step = "native" /\ c.handle = InvalidHandle /\ c.kind = "accept"
    \/ c.step = "native" /\ c.handle \in Natives /\ c.kind # "accept"
    \/ /\ c.step = "configure" /\ c.handle \in Natives
       /\ c.kind = "accept" => kernel[c.handle] = "connected"
    \/ /\ c.step = "adopt" /\ c.handle \in Natives
       /\ kernel[c.handle] = IF c.kind = "bind" THEN "bound" ELSE "connected"
    \/ c.step \in {"failed", "discard"}

\* The state of every thread's call; errno is untouched between the native call
\* that failed and SocketError::Last() (tcp_socket.hpp:58, tcp_listener.hpp:40, 76).
CallShape ==
    \A t \in Threads :
        \/ call[t] = Idle
        \/ /\ Plan(call[t]) /\ Stage(call[t])
           /\ At(t, "failed") => call[t].cause = errno[t]
           /\ At(t, "discard") => call[t].error = call[t].cause

\* Two calls never work on the same object.
CallsApart ==
    \A t1, t2 \in Threads : t1 # t2 =>
        {call[t1].object, call[t1].into} \cap {call[t2].object, call[t2].into} \subseteq {None}

Inv == TypeOK /\ OwnedOnce /\ ValidMeansReady /\ CallShape /\ CallsApart

-----------------------------------------------------------------------------
\* The type of one call.
Calls ==
    [kind: {"none", "connect", "bind", "accept"},
     step: {"idle", "create", "configure", "native", "adopt", "failed", "discard"},
     object: Objects \cup {None}, into: Sockets \cup {None}, port: Ports \cup {None},
     handle: Natives \cup {InvalidHandle}, error: Errors, cause: Errors]

LEMMA IdleType == Idle \in Calls
BY DEF Idle, Calls, Errors

\* TypeOK in terms of Calls.
LEMMA CallType == TypeOK => call \in [Threads -> Calls]
BY DEF TypeOK, Calls

\* A native call that fails, in any method, keeps the types.
LEMMA FailsType ==
    ASSUME TypeOK, NEW t \in Threads, NEW e \in Errors, Fails(t, e), UNCHANGED budgets \/ Disturbance(e)
    PROVE  TypeOK'
<1> call[t] \in Calls
    BY CallType
<1>1. [call[t] EXCEPT !.step = "failed", !.cause = e] \in Calls
    BY DEF Calls
<1>2. call' \in [Threads -> Calls]
    BY <1>1, CallType DEF Fails
<1>3. interrupts' \in 0..MaxInterrupts /\ failures' \in 0..MaxFailures
    BY SetupAssumption DEF TypeOK, Disturbance, budgets
<1> QED BY <1>2, <1>3 DEF TypeOK, Calls, Fails, system

\* One that succeeds keeps those of the calls and the objects.
LEMMA ProceedsType ==
    ASSUME TypeOK, NEW t \in Threads, NEW h \in Natives \cup {InvalidHandle},
           NEW step \in {"configure", "native", "adopt"}, Proceeds(t, h, step),
           kernel' \in [Natives -> {"free", "elsewhere", "fresh", "bound", "listening", "connected"}],
           port' \in [Natives -> Ports \cup {None}],
           queue' \in [Natives -> 0..Backlog]
    PROVE  TypeOK'
<1> call[t] \in Calls
    BY CallType
<1>1. [call[t] EXCEPT !.handle = h, !.step = step] \in Calls
    BY DEF Calls
<1>2. call' \in [Threads -> Calls]
    BY <1>1, CallType DEF Proceeds
<1> QED BY <1>2 DEF TypeOK, Calls, Proceeds, budgets

\* Giving a descriptor back keeps those of the system.
LEMMA FreedType ==
    ASSUME TypeOK, NEW n, Freed(n)
    PROVE  /\ kernel' \in [Natives -> {"free", "elsewhere", "fresh", "bound", "listening", "connected"}]
           /\ port' \in [Natives -> Ports \cup {None}]
           /\ queue' \in [Natives -> 0..Backlog]
<1>1. 0 \in 0..Backlog
    BY SetupAssumption
<1> QED BY <1>1 DEF TypeOK, Freed

LEMMA CloseErrnoType ==
    ASSUME TypeOK, NEW t \in Threads, CloseErrno(t)
    PROVE  errno' \in [Threads -> Errors]
BY DEF TypeOK, CloseErrno, Errors

\* Every step of every method keeps the types.
LEMMA TypeStep == TypeOK /\ [Next]_vars => TypeOK'
<1> SUFFICES ASSUME TypeOK, [Next]_vars PROVE TypeOK'
    OBVIOUS
<1> USE SetupAssumption
<1>1. ASSUME NEW t \in Threads, NEW o \in Objects, NEW p \in Ports, Open(t, o, p) PROVE TypeOK'
    BY <1>1, IdleType DEF TypeOK, Open, Begins, Calls, system, budgets, Idle
<1>2. ASSUME NEW t \in Threads, NEW l \in Listeners, Listen(t, l) PROVE TypeOK'
    BY <1>2 DEF TypeOK, Listen, Objects, budgets
<1>3. ASSUME NEW t \in Threads, NEW l \in Listeners, NEW s \in Sockets, Accept(t, l, s) PROVE TypeOK'
    BY <1>3, IdleType DEF TypeOK, Accept, Begins, Calls, system, budgets, Idle, Objects
<1>4. ASSUME NEW t \in Threads, NEW o \in Objects, Close(t, o) PROVE TypeOK'
    BY <1>4, FreedType, CloseErrnoType DEF TypeOK, Close, budgets
<1>5. ASSUME NEW t \in Threads, NEW d \in Objects, NEW s \in Objects, Move(t, d, s) PROVE TypeOK'
    BY <1>5, FreedType, CloseErrnoType DEF TypeOK, Move, budgets, system
<1>6. ASSUME NEW t \in Threads, Create(t) PROVE TypeOK'
    BY <1>6, FailsType, ProceedsType DEF TypeOK, Create, Free, Errors
<1>7. ASSUME NEW t \in Threads, Configure(t) PROVE TypeOK'
    BY <1>7, FailsType, ProceedsType DEF TypeOK, Configure, system, Errors
<1>8. ASSUME NEW t \in Threads, NativeConnect(t) PROVE TypeOK'
    <2>1. CASE \E e \in Errors : Fails(t, e) /\ (UNCHANGED budgets \/ Disturbance(e))
        BY <2>1, FailsType
    <2>2. ASSUME NEW n \in Listening(call[t].port), queue[n] < Backlog,
                 queue' = [queue EXCEPT ![n] = @ + 1],
                 kernel' = [kernel EXCEPT ![call[t].handle] = "connected"],
                 Proceeds(t, call[t].handle, "adopt"), UNCHANGED port
          PROVE  TypeOK'
        <3>1. call[t].handle \in Natives \cup {InvalidHandle} /\ n \in Natives
            BY CallType DEF Calls, Listening
        <3>2. queue[n] + 1 \in 0..Backlog
            BY <2>2, <3>1 DEF TypeOK
        <3>3. queue' \in [Natives -> 0..Backlog] /\ port' \in [Natives -> Ports \cup {None}]
            BY <2>2, <3>2 DEF TypeOK
        <3>4. kernel' \in [Natives -> {"free", "elsewhere", "fresh", "bound", "listening", "connected"}]
            BY <2>2 DEF TypeOK
        <3> QED BY <2>2, <3>1, <3>3, <3>4, ProceedsType
    <2> QED BY <1>8, <2>1, <2>2 DEF NativeConnect, Errors
<1>9. ASSUME NEW t \in Threads, NativeBind(t) PROVE TypeOK'
    <2>1. CASE \E e \in Errors : Fails(t, e) /\ (UNCHANGED budgets \/ Disturbance(e))
        BY <2>1, FailsType
    <2>2. CASE /\ kernel' = [kernel EXCEPT ![call[t].handle] = "bound"]
               /\ port' = [port EXCEPT ![call[t].handle] = call[t].port]
               /\ Proceeds(t, call[t].handle, "adopt")
               /\ UNCHANGED queue
        BY <2>2, ProceedsType, CallType DEF TypeOK, Calls
    <2> QED BY <1>9, <2>1, <2>2 DEF NativeBind, Errors
<1>10. ASSUME NEW t \in Threads, NativeAccept(t) PROVE TypeOK'
    <2> DEFINE h == m_handle[call[t].object]
    <2>1. ASSUME NEW n \in Free, queue[h] > 0, queue' = [queue EXCEPT ![h] = @ - 1],
                 kernel' = [kernel EXCEPT ![n] = "connected"],
                 Proceeds(t, n, "configure"), UNCHANGED port
          PROVE  TypeOK'
        <3>1. CASE h \in Natives
            <4>1. queue[h] - 1 \in 0..Backlog
                BY <2>1, <3>1 DEF TypeOK
            <4> QED BY <2>1, <4>1, ProceedsType DEF TypeOK, Free
        <3>2. CASE h \notin Natives
            BY <2>1, <3>2, ProceedsType DEF TypeOK, Free
        <3> QED BY <3>1, <3>2
    <2>2. ASSUME NEW e \in Errors, AcceptFails(t, e), UNCHANGED budgets \/ Disturbance(e)
          PROVE  TypeOK'
        <3>1. CASE Fails(t, e)
            BY <2>2, <3>1, FailsType
        <3>2. CASE errno' = [errno EXCEPT ![t] = e] /\ UNCHANGED <<m_handle, system, call>>
            BY <2>2, <3>2 DEF TypeOK, Disturbance, budgets, system
        <3> QED BY <2>2, <3>1, <3>2 DEF AcceptFails
    <2> QED BY <1>10, <2>1, <2>2 DEF NativeAccept, Errors
<1>11. ASSUME NEW t \in Threads, Adopt(t) PROVE TypeOK'
    <2>1. call' \in [Threads -> Calls]
        BY <1>11, IdleType, CallType DEF Adopt, Return
    <2>2. call[t].handle \in Natives \cup {InvalidHandle}
        BY CallType DEF Calls
    <2>3. m_handle' \in [Objects -> Natives \cup {InvalidHandle}]
        BY <1>11, <2>2 DEF Adopt, TypeOK
    <2>4. UNCHANGED <<kernel, port, queue, errno, interrupts, failures>>
        BY <1>11 DEF Adopt, system, budgets
    <2> QED BY <2>1, <2>3, <2>4 DEF TypeOK, Calls
<1>12. ASSUME NEW t \in Threads, Capture(t) PROVE TypeOK'
    <2>a. call[t] \in Calls
        BY CallType
    <2>b. errno[t] \in Errors
        BY DEF TypeOK
    <2>1. [call[t] EXCEPT !.error = errno[t], !.step = "discard"] \in Calls
        BY <2>a, <2>b DEF Calls
    <2>2. call' \in [Threads -> Calls]
        BY <1>12, <2>1, CallType DEF Capture
    <2> QED BY <1>12, <2>2 DEF TypeOK, Calls, Capture, system, budgets
<1>13. ASSUME NEW t \in Threads, Discard(t) PROVE TypeOK'
    BY <1>13, IdleType, FreedType, CloseErrnoType DEF TypeOK, Discard, Return, Calls, system, budgets
<1>14. CASE UNCHANGED vars
    BY <1>14 DEF TypeOK, vars, system, budgets
<1> QED BY <1>1, <1>2, <1>3, <1>4, <1>5, <1>6, <1>7, <1>8, <1>9, <1>10, <1>11, <1>12, <1>13, <1>14
        DEF Next, Step

\* Type correctness of every reachable state (tcp_socket.hpp, tcp_listener.hpp).
THEOREM TypeCorrect == Spec => []TypeOK
<1>1. Init => TypeOK
    BY SetupAssumption, IdleType DEF Init, TypeOK, Calls, Errors
<1> QED BY <1>1, TypeStep, PTL DEF Spec

-----------------------------------------------------------------------------
Ownership == OwnedOnce /\ ValidMeansReady /\ CallShape /\ CallsApart

\* What a call keeps while it goes on: its plan.
SamePlan(t) ==
    /\ \A u \in Threads \ {t} : call'[u] = call[u]
    /\ call'[t].kind = call[t].kind /\ call'[t].object = call[t].object
    /\ call'[t].into = call[t].into /\ call'[t].port = call[t].port

LEMMA ProceedsPlan ==
    ASSUME TypeOK, NEW t \in Threads, NEW h, NEW step, Proceeds(t, h, step)
    PROVE  /\ SamePlan(t)
           /\ call'[t].handle = h /\ call'[t].step = step
           /\ UNCHANGED <<m_handle, errno>>
BY CallType DEF Calls, Proceeds, SamePlan

LEMMA FailsPlan ==
    ASSUME TypeOK, NEW t \in Threads, NEW e, Fails(t, e)
    PROVE  /\ SamePlan(t)
           /\ call'[t].handle = call[t].handle /\ call'[t].step = "failed" /\ call'[t].cause = e
           /\ errno'[t] = e /\ \A u \in Threads \ {t} : errno'[u] = errno[u]
           /\ UNCHANGED <<m_handle, kernel, port, queue>>
BY CallType DEF TypeOK, Calls, Fails, SamePlan, system

LEMMA CapturePlan ==
    ASSUME TypeOK, NEW t \in Threads, Capture(t)
    PROVE  /\ SamePlan(t)
           /\ call'[t].handle = call[t].handle /\ call'[t].step = "discard"
           /\ call'[t].error = errno[t] /\ call'[t].cause = call[t].cause
           /\ UNCHANGED <<m_handle, kernel, port, queue, errno>>
BY CallType DEF Calls, Capture, SamePlan, system

\* A native call that fails preserves ownership: nothing moves.
LEMMA FailsOwnership ==
    ASSUME Inv, NEW t \in Threads, NEW e, Fails(t, e), call[t] # Idle
    PROVE  Ownership'
<1>1. /\ SamePlan(t)
      /\ call'[t].handle = call[t].handle /\ call'[t].step = "failed" /\ call'[t].cause = e
      /\ errno'[t] = e /\ \A u \in Threads \ {t} : errno'[u] = errno[u]
      /\ UNCHANGED <<m_handle, kernel, port, queue>>
    BY FailsPlan DEF Inv
<1>2. OwnedOnce'
    BY <1>1 DEF Inv, OwnedOnce, InUse, ObjectHolds, CallHolds, SamePlan
<1>3. ValidMeansReady'
    BY <1>1 DEF Inv, ValidMeansReady, IsValid
<1>4. CallShape'
    BY <1>1 DEF Inv, CallShape, Plan, Stage, IsValid, At, SamePlan
<1>5. CallsApart'
    BY <1>1 DEF Inv, CallsApart, SamePlan
<1> QED BY <1>2, <1>3, <1>4, <1>5 DEF Ownership

\* The last native call of Connect or Bind makes the descriptor ready, and only
\* the call holds it, so no other object or call sees a change.
LEMMA NativeOwnership ==
    ASSUME Inv, NEW t \in Threads, At(t, "native"), call[t] # Idle, call[t].kind # "accept",
           Proceeds(t, call[t].handle, "adopt"),
           kernel' = [kernel EXCEPT ![call[t].handle] =
                          IF call[t].kind = "bind" THEN "bound" ELSE "connected"]
    PROVE  Ownership'
<1> DEFINE n == call[t].handle
<1>1. /\ SamePlan(t)
      /\ call'[t].handle = n /\ call'[t].step = "adopt"
      /\ UNCHANGED <<m_handle, errno>>
    BY ProceedsPlan DEF Inv
<1>2. n \in Natives
    BY DEF Inv, CallShape, Stage, At
<1>3. /\ kernel'[n] = IF call[t].kind = "bind" THEN "bound" ELSE "connected"
      /\ \A m \in Natives \ {n} : kernel'[m] = kernel[m]
    BY <1>2 DEF Inv, TypeOK
<1>4. n \in InUse
    BY <1>2 DEF Inv, OwnedOnce, InUse, CallHolds
<1>5. CallHolds(t, n)
    BY DEF CallHolds
<1> HIDE DEF n
<1>6. OwnedOnce'
    BY <1>1, <1>2, <1>3, <1>4, <1>5 DEF Inv, OwnedOnce, InUse, ObjectHolds, CallHolds, SamePlan
<1>7. ValidMeansReady'
    BY <1>1, <1>2, <1>3, <1>5 DEF Inv, ValidMeansReady, IsValid, OwnedOnce, InUse, ObjectHolds, TypeOK, Objects
<1>8. CallShape'
    BY <1>1, <1>2, <1>3, <1>5 DEF Inv, CallShape, Plan, Stage, IsValid, At, SamePlan, OwnedOnce, InUse, CallHolds
<1>9. CallsApart'
    BY <1>1 DEF Inv, CallsApart, SamePlan
<1> QED BY <1>6, <1>7, <1>8, <1>9 DEF Ownership

\* Ownership is preserved by every step of every method: the local SocketHandle
\* of a call owns a new descriptor from the native call that returned it until
\* it is moved into the object or closed (tcp_socket.hpp:49-61,
\* tcp_listener.hpp:31-43, 73-88, socket_helpers.hpp:26-31).
LEMMA OwnershipStep == Inv /\ [Next]_vars => Ownership'
<1> SUFFICES ASSUME Inv, [Next]_vars PROVE Ownership'
    OBVIOUS
<1> USE SetupAssumption DEF Inv
<1>1. ASSUME NEW t \in Threads, NEW o \in Objects, NEW p \in Ports, Open(t, o, p) PROVE Ownership'
    <2>1. /\ UNCHANGED <<m_handle, kernel, port, queue, errno>>
          /\ \A u \in Threads \ {t} : call'[u] = call[u]
          /\ call'[t].object = o /\ call'[t].into = None /\ call'[t].handle = InvalidHandle
          /\ call'[t].kind = IF o \in Sockets THEN "connect" ELSE "bind"
          /\ call'[t].step = "create"
          /\ call[t] = Idle /\ ~Busy(o) /\ ~IsValid(o)
        BY <1>1, CallType DEF Open, Begins, Idle, system, TypeOK, Calls, CallShape, Stage, At
    <2>2. OwnedOnce'
        BY <2>1 DEF OwnedOnce, InUse, ObjectHolds, CallHolds, Idle
    <2>3. ValidMeansReady'
        BY <2>1 DEF ValidMeansReady, IsValid
    <2>4. CallShape'
        BY <2>1 DEF CallShape, Plan, Stage, IsValid, At, Objects
    <2>5. CallsApart'
        BY <2>1 DEF CallsApart, Busy
    <2> QED BY <2>2, <2>3, <2>4, <2>5 DEF Ownership
<1>2. ASSUME NEW t \in Threads, NEW l \in Listeners, Listen(t, l) PROVE Ownership'
    <2>1. OwnedOnce'
        BY <1>2 DEF Listen, OwnedOnce, InUse, ObjectHolds, CallHolds, TypeOK, Objects, IsValid
    <2>2. ValidMeansReady'
        BY <1>2 DEF Listen, ValidMeansReady, IsValid, OwnedOnce, InUse, ObjectHolds, TypeOK, Objects
    <2>3. CallShape'
        BY <1>2 DEF Listen, CallShape, Plan, Stage, IsValid, At, OwnedOnce, InUse, ObjectHolds, CallHolds, TypeOK, Objects
    <2>4. CallsApart'
        BY <1>2 DEF Listen, CallsApart
    <2> QED BY <2>1, <2>2, <2>3, <2>4 DEF Ownership
<1>3. ASSUME NEW t \in Threads, NEW l \in Listeners, NEW s \in Sockets, Accept(t, l, s) PROVE Ownership'
    <2>1. /\ UNCHANGED <<m_handle, kernel, port, queue, errno>>
          /\ \A u \in Threads \ {t} : call'[u] = call[u]
          /\ call'[t].object = l /\ call'[t].into = s /\ call'[t].handle = InvalidHandle
          /\ call'[t].kind = "accept" /\ call'[t].step = "native"
          /\ call[t] = Idle /\ ~Busy(l) /\ ~Busy(s) /\ IsValid(l) /\ ~IsValid(s)
        BY <1>3, CallType DEF Accept, Begins, Idle, system, TypeOK, Calls, CallShape, Stage, At
    <2>2. OwnedOnce'
        BY <2>1 DEF OwnedOnce, InUse, ObjectHolds, CallHolds, Idle
    <2>3. ValidMeansReady'
        BY <2>1 DEF ValidMeansReady, IsValid
    <2>4. CallShape'
        BY <2>1 DEF CallShape, Plan, Stage, IsValid, At
    <2>5. CallsApart'
        BY <2>1 DEF CallsApart, Busy
    <2> QED BY <2>2, <2>3, <2>4, <2>5 DEF Ownership
<1>4. ASSUME NEW t \in Threads, NEW o \in Objects, Close(t, o) PROVE Ownership'
    <2>1. m_handle[o] \in Natives /\ call[t] = Idle
        BY <1>4 DEF Close, IsValid, TypeOK, CallShape, Stage, At
    <2>2. OwnedOnce'
        BY <1>4, <2>1 DEF Close, Freed, OwnedOnce, InUse, ObjectHolds, CallHolds, TypeOK
    <2>3. ValidMeansReady'
        BY <1>4, <2>1 DEF Close, Freed, ValidMeansReady, IsValid, OwnedOnce, InUse, ObjectHolds, TypeOK, Objects
    <2>4. CallShape'
        BY <1>4, <2>1 DEF Close, Freed, CloseErrno, CallShape, Plan, Stage, IsValid, At, OwnedOnce, InUse, ObjectHolds,
                          CallHolds, TypeOK, Objects, Busy, Idle
    <2>5. CallsApart'
        BY <1>4 DEF Close, CallsApart
    <2> QED BY <2>2, <2>3, <2>4, <2>5 DEF Ownership
<1>5. ASSUME NEW t \in Threads, NEW d \in Objects, NEW s \in Objects, Move(t, d, s) PROVE Ownership'
    <2>1. call[t] = Idle
        BY <1>5 DEF Move, CallShape, Stage, At
    <2>2. /\ \A o \in Objects : m_handle'[o] = IF o = s THEN InvalidHandle
                                              ELSE IF o = d THEN m_handle[s] ELSE m_handle[o]
          /\ \A n \in Natives : kernel'[n] = IF n = m_handle[d] THEN "free" ELSE kernel[n]
          /\ call' = call
          /\ d # s /\ ({d, s} \subseteq Sockets \/ {d, s} \subseteq Listeners)
        BY <1>5 DEF Move, Freed, TypeOK, IsValid, system
    <2>3. OwnedOnce'
        <3> SUFFICES ASSUME NEW n \in Natives
                     PROVE  /\ kernel'[n] \notin {"free", "elsewhere"} <=>
                                  (\E o \in Objects : m_handle'[o] = n) \/ (\E u \in Threads : call'[u].handle = n)
                            /\ \A o1, o2 \in Objects : m_handle'[o1] = n /\ m_handle'[o2] = n => o1 = o2
                            /\ \A t1, t2 \in Threads : call'[t1].handle = n /\ call'[t2].handle = n => t1 = t2
                            /\ \A o \in Objects, u \in Threads : ~(m_handle'[o] = n /\ call'[u].handle = n)
            BY DEF OwnedOnce, InUse, ObjectHolds, CallHolds
        <3>1. CASE n = m_handle[d]
            BY <2>2, <3>1 DEF OwnedOnce, InUse, ObjectHolds, CallHolds
        <3>2. CASE n # m_handle[d]
            BY <2>2, <3>2 DEF OwnedOnce, InUse, ObjectHolds, CallHolds
        <3> QED BY <3>1, <3>2
    <2>4. ValidMeansReady'
        <3>1. ASSUME NEW o \in Objects, m_handle'[o] # InvalidHandle
              PROVE  \E x \in Objects : /\ m_handle'[o] = m_handle[x] /\ x # d
                                        /\ x \in Sockets <=> o \in Sockets
            BY <2>2, <3>1, SetupAssumption DEF Objects
        <3>2. ASSUME NEW x \in Objects, x # d, m_handle[x] # InvalidHandle
              PROVE  kernel'[m_handle[x]] = kernel[m_handle[x]]
            BY <2>2, <3>2 DEF OwnedOnce, InUse, ObjectHolds, TypeOK
        <3> QED BY <3>1, <3>2, SetupAssumption DEF ValidMeansReady, IsValid, Objects
    <2>5. CallShape'
        BY <1>5, <2>1 DEF Move, Freed, CloseErrno, CallShape, Plan, Stage, IsValid, At, OwnedOnce, InUse, ObjectHolds,
                          CallHolds, TypeOK, Objects, Busy, Idle, system
    <2>6. CallsApart'
        BY <1>5 DEF Move, CallsApart
    <2> QED BY <2>3, <2>4, <2>5, <2>6 DEF Ownership
<1>6. ASSUME NEW t \in Threads, Create(t) PROVE Ownership'
    <2>1. call[t] # Idle
        BY <1>6 DEF Create, At, Idle
    <2>2. ASSUME NEW e, Fails(t, e) PROVE Ownership'
        BY <2>1, <2>2, FailsOwnership
    <2>3. ASSUME NEW n \in Free, kernel' = [kernel EXCEPT ![n] = "fresh"],
                 Proceeds(t, n, "configure"), UNCHANGED <<port, queue>>
          PROVE  Ownership'
        <3>1. /\ SamePlan(t)
              /\ call'[t].handle = n /\ call'[t].step = "configure"
              /\ UNCHANGED <<m_handle, errno>>
            BY <2>3, ProceedsPlan
        <3>2. n \in Natives /\ kernel[n] = "free" /\ kernel'[n] = "fresh"
            BY <2>3 DEF Free, TypeOK
        <3>3. \A m \in Natives \ {n} : kernel'[m] = kernel[m]
            BY <2>3 DEF TypeOK
        <3>4. call[t].handle = InvalidHandle /\ call[t].kind # "accept"
            BY <1>6, <2>1 DEF Create, CallShape, Stage, At
        <3>5. OwnedOnce'
            BY <3>1, <3>2, <3>3, <3>4 DEF OwnedOnce, InUse, ObjectHolds, CallHolds, SamePlan
        <3>6. ValidMeansReady'
            BY <3>1, <3>2, <3>3 DEF ValidMeansReady, IsValid, OwnedOnce, InUse, ObjectHolds, TypeOK, Objects
        <3>7. CallShape'
            BY <2>1, <3>1, <3>2, <3>3, <3>4 DEF CallShape, Plan, Stage, IsValid, At, SamePlan, Idle
        <3>8. CallsApart'
            BY <3>1 DEF CallsApart, SamePlan
        <3> QED BY <3>5, <3>6, <3>7, <3>8 DEF Ownership
    <2> QED BY <1>6, <2>2, <2>3 DEF Create
<1>7. ASSUME NEW t \in Threads, Configure(t) PROVE Ownership'
    <2>1. call[t] # Idle
        BY <1>7 DEF Configure, At, Idle
    <2>2. ASSUME NEW e, Fails(t, e) PROVE Ownership'
        BY <2>1, <2>2, FailsOwnership
    <2>3. ASSUME Proceeds(t, call[t].handle, IF call[t].kind = "accept" THEN "adopt" ELSE "native"),
                 UNCHANGED system
          PROVE  Ownership'
        <3>1. /\ SamePlan(t)
              /\ call'[t].handle = call[t].handle
              /\ call'[t].step = IF call[t].kind = "accept" THEN "adopt" ELSE "native"
              /\ UNCHANGED <<m_handle, kernel, errno>>
            BY <2>3, ProceedsPlan DEF system
        <3>2. /\ call[t].handle \in Natives
              /\ call[t].kind = "accept" => kernel[call[t].handle] = "connected"
            BY <1>7, <2>1 DEF Configure, CallShape, Stage, At
        <3>3. OwnedOnce'
            BY <3>1 DEF OwnedOnce, InUse, ObjectHolds, CallHolds, SamePlan
        <3>4. ValidMeansReady'
            BY <3>1 DEF ValidMeansReady, IsValid
        <3>5. CallShape'
            BY <2>1, <3>1, <3>2 DEF CallShape, Plan, Stage, IsValid, At, SamePlan, Idle
        <3>6. CallsApart'
            BY <3>1 DEF CallsApart, SamePlan
        <3> QED BY <3>3, <3>4, <3>5, <3>6 DEF Ownership
    <2> QED BY <1>7, <2>2, <2>3 DEF Configure
<1>8. ASSUME NEW t \in Threads, NativeConnect(t) PROVE Ownership'
    <2>1. call[t] # Idle
        BY <1>8 DEF NativeConnect, At, Idle
    <2>2. ASSUME NEW e, Fails(t, e) PROVE Ownership'
        BY <2>1, <2>2, FailsOwnership
    <2>3. ASSUME kernel' = [kernel EXCEPT ![call[t].handle] = "connected"],
                 Proceeds(t, call[t].handle, "adopt")
          PROVE  Ownership'
        BY <1>8, <2>1, <2>3, NativeOwnership DEF NativeConnect
    <2> QED BY <1>8, <2>2, <2>3 DEF NativeConnect
<1>9. ASSUME NEW t \in Threads, NativeBind(t) PROVE Ownership'
    <2>1. call[t] # Idle
        BY <1>9 DEF NativeBind, At, Idle
    <2>2. ASSUME NEW e, Fails(t, e) PROVE Ownership'
        BY <2>1, <2>2, FailsOwnership
    <2>3. ASSUME kernel' = [kernel EXCEPT ![call[t].handle] = "bound"],
                 Proceeds(t, call[t].handle, "adopt")
          PROVE  Ownership'
        BY <1>9, <2>1, <2>3, NativeOwnership DEF NativeBind
    <2> QED BY <1>9, <2>2, <2>3 DEF NativeBind
<1>10. ASSUME NEW t \in Threads, NativeAccept(t) PROVE Ownership'
    <2>1. call[t] # Idle
        BY <1>10 DEF NativeAccept, At, Idle
    <2>2. ASSUME NEW e, Fails(t, e) PROVE Ownership'
        BY <2>1, <2>2, FailsOwnership
    <2>3. call[t].handle = InvalidHandle /\ call[t].kind = "accept"
        BY <1>10, <2>1 DEF NativeAccept, CallShape, Stage, At
    <2>4. ASSUME NEW e, errno' = [errno EXCEPT ![t] = e], UNCHANGED <<m_handle, system, call>>
          PROVE  Ownership'
        <3>1. OwnedOnce' /\ ValidMeansReady' /\ CallsApart'
            BY <2>4 DEF OwnedOnce, InUse, ObjectHolds, CallHolds, ValidMeansReady, IsValid, CallsApart, system
        <3>2. CallShape'
            BY <1>10, <2>4 DEF NativeAccept, CallShape, Plan, Stage, IsValid, At, TypeOK, system
        <3> QED BY <3>1, <3>2 DEF Ownership
    <2>5. ASSUME NEW n \in Free, kernel' = [kernel EXCEPT ![n] = "connected"],
                 Proceeds(t, n, "configure"), UNCHANGED port
          PROVE  Ownership'
        <3>1. /\ SamePlan(t)
              /\ call'[t].handle = n /\ call'[t].step = "configure"
              /\ UNCHANGED <<m_handle, errno>>
            BY <2>5, ProceedsPlan
        <3>2. n \in Natives /\ kernel[n] = "free" /\ kernel'[n] = "connected"
            BY <2>5 DEF Free, TypeOK
        <3>3. \A m \in Natives \ {n} : kernel'[m] = kernel[m]
            BY <2>5 DEF TypeOK
        <3>4. OwnedOnce'
            BY <2>3, <3>1, <3>2, <3>3 DEF OwnedOnce, InUse, ObjectHolds, CallHolds, SamePlan
        <3>5. ValidMeansReady'
            BY <3>1, <3>2, <3>3 DEF ValidMeansReady, IsValid, OwnedOnce, InUse, ObjectHolds, TypeOK, Objects
        <3>6. CallShape'
            BY <2>1, <2>3, <3>1, <3>2, <3>3 DEF CallShape, Plan, Stage, IsValid, At, SamePlan, Idle
        <3>7. CallsApart'
            BY <3>1 DEF CallsApart, SamePlan
        <3> QED BY <3>4, <3>5, <3>6, <3>7 DEF Ownership
    <2> QED BY <1>10, <2>2, <2>4, <2>5 DEF NativeAccept, AcceptFails
<1>11. ASSUME NEW t \in Threads, Adopt(t) PROVE Ownership'
    <2> DEFINE target == IF call[t].kind = "accept" THEN call[t].into ELSE call[t].object
               n == call[t].handle
    <2>1. /\ n \in Natives /\ Plan(call[t]) /\ target \in Objects /\ ~IsValid(target)
          /\ kernel[n] = IF call[t].kind = "bind" THEN "bound" ELSE "connected"
        BY <1>11 DEF Adopt, At, CallShape, Plan, Stage, Idle, Objects
    <2>2. /\ m_handle' = [m_handle EXCEPT ![target] = n]
          /\ call'[t] = Idle /\ \A u \in Threads \ {t} : call'[u] = call[u]
          /\ UNCHANGED <<kernel, port, queue, errno>>
        BY <1>11, CallType DEF Adopt, Return, system
    <2>3. /\ m_handle'[target] = n
          /\ \A o \in Objects \ {target} : m_handle'[o] = m_handle[o]
        BY <2>1, <2>2 DEF TypeOK
    <2> HIDE DEF target, n
    <2>4. OwnedOnce'
        BY <2>1, <2>2, <2>3 DEF OwnedOnce, InUse, ObjectHolds, CallHolds, Idle, IsValid, n
    <2>5. ValidMeansReady'
        BY <2>1, <2>2, <2>3 DEF ValidMeansReady, IsValid, Plan, Objects, target
    <2>6. \A u \in Threads \ {t} : target \notin {call[u].object, call[u].into}
        BY <2>1 DEF CallsApart, target, Objects
    <2>7. CallShape'
        BY <2>1, <2>2, <2>3, <2>6 DEF CallShape, Plan, Stage, IsValid, At, Objects
    <2>8. CallsApart'
        BY <2>2 DEF CallsApart, Idle
    <2> QED BY <2>4, <2>5, <2>7, <2>8 DEF Ownership
<1>12. ASSUME NEW t \in Threads, Capture(t) PROVE Ownership'
    <2>1. /\ SamePlan(t)
          /\ call'[t].handle = call[t].handle /\ call'[t].step = "discard"
          /\ call'[t].error = errno[t] /\ call'[t].cause = call[t].cause
          /\ UNCHANGED <<m_handle, kernel, port, queue, errno>>
        BY <1>12, CapturePlan
    <2>2. call[t] # Idle /\ At(t, "failed")
        BY <1>12 DEF Capture, At, Idle
    <2>3. OwnedOnce'
        BY <2>1 DEF OwnedOnce, InUse, ObjectHolds, CallHolds, SamePlan
    <2>4. ValidMeansReady'
        BY <2>1 DEF ValidMeansReady, IsValid
    <2>5. CallShape'
        BY <2>1, <2>2 DEF CallShape, Plan, Stage, IsValid, At, SamePlan
    <2>6. CallsApart'
        BY <2>1 DEF CallsApart, SamePlan
    <2> QED BY <2>3, <2>4, <2>5, <2>6 DEF Ownership
<1>13. ASSUME NEW t \in Threads, Discard(t) PROVE Ownership'
    <2> DEFINE n == call[t].handle
    <2>1. /\ call'[t] = Idle /\ \A u \in Threads \ {t} : call'[u] = call[u] /\ errno'[u] = errno[u]
          /\ UNCHANGED m_handle
          /\ \A m \in Natives : kernel'[m] = IF m = n THEN "free" ELSE kernel[m]
        BY <1>13, CallType DEF Discard, Return, Freed, CloseErrno, system, TypeOK
    <2>2. n \in Natives \cup {InvalidHandle}
        BY CallType DEF Calls
    <2> HIDE DEF n
    <2>3. OwnedOnce'
        BY <2>1, <2>2 DEF OwnedOnce, InUse, ObjectHolds, CallHolds, Idle, n
    <2>4. ValidMeansReady'
        BY <2>1, <2>2 DEF ValidMeansReady, IsValid, OwnedOnce, InUse, ObjectHolds, CallHolds, TypeOK, Objects, n
    <2>5. CallShape'
        BY <2>1, <2>2 DEF CallShape, Plan, Stage, IsValid, At, OwnedOnce, InUse, CallHolds, n
    <2>6. CallsApart'
        BY <2>1 DEF CallsApart, Idle
    <2> QED BY <2>3, <2>4, <2>5, <2>6 DEF Ownership
<1>14. CASE UNCHANGED vars
    BY <1>14 DEF vars, system, Ownership, OwnedOnce, InUse, ObjectHolds, CallHolds, ValidMeansReady, IsValid, CallShape,
                 Plan, Stage, At, CallsApart
<1> QED BY <1>1, <1>2, <1>3, <1>4, <1>5, <1>6, <1>7, <1>8, <1>9, <1>10, <1>11, <1>12, <1>13, <1>14
        DEF Next, Step

LEMMA InitInv == Init => Inv
BY SetupAssumption, IdleType
   DEF Init, Inv, TypeOK, Calls, Errors, OwnedOnce, InUse, ObjectHolds, CallHolds, ValidMeansReady, IsValid,
       CallShape, CallsApart, Idle, Objects

\* The invariant of the setup calls, for every instance: no interleaving of
\* Connect, Bind, Accept, moves and Close disturbs another call's plan.
THEOREM Invariance == Spec => []Inv
<1>1. Inv /\ [Next]_vars => Inv'
    BY TypeStep, OwnershipStep DEF Inv, Ownership
<1> QED BY <1>1, InitInv, PTL DEF Spec

\* Every descriptor in use has exactly one owner, whatever fails between
\* ::socket or ::accept and the return (tcp_socket.hpp:49-61,
\* tcp_listener.hpp:31-43, 73-88).
THEOREM AlwaysOwned == Spec => []DescriptorsOwned
<1>1. Inv => DescriptorsOwned
    BY DEF Inv, DescriptorsOwned
<1> QED BY <1>1, Invariance, PTL

\* A valid TcpSocket is connected, a valid TcpListener bound
\* (tcp_socket.hpp:39-61, tcp_listener.hpp:18-43).
THEOREM AlwaysReady == Spec => []ValidMeansReady
<1>1. Inv => ValidMeansReady
    BY DEF Inv
<1> QED BY <1>1, Invariance, PTL

\* Failure(SocketError::Last()) reports the native call that failed, not the
\* close of the discarded descriptor (tcp_socket.hpp:58, tcp_listener.hpp:40, 76-86).
THEOREM CauseIsReported == Spec => []ErrorIsTheCause
<1>1. Inv => ErrorIsTheCause
    BY DEF Inv, ErrorIsTheCause, CallShape, At, Idle
<1> QED BY <1>1, Invariance, PTL

-----------------------------------------------------------------------------
(***************************************************************************)
(* main and ConnectPair of the benchmark (BenchSetup) over these calls.    *)
(***************************************************************************)
NoCall == call["main"] = Idle
Calling(kind, o, into) ==
    call["main"].kind = kind /\ call["main"].object = o /\ call["main"].into = into

\* What the destructors at the end of the scope have still to come to.
Pending == {leaving[i] : i \in DOMAIN leaving}

\* Exactly the objects in S hold a descriptor, beside some that are about to
\* be destroyed, and S is not among those.
Kept(S) ==
    /\ \A o \in S : IsValid(o) /\ o \notin Pending
    /\ \A o \in Objects : IsValid(o) => o \in S \cup Pending

\* The descriptors of the objects in S have timeouts.
Timed(S) == \A o \in S : m_handle[o] \in configured

\* The valid objects at each statement of main and ConnectPair, until main
\* leaves a scope (bench_tcp.cpp:65-101, 155, 212).
Working ==
    /\ leaving = <<>> /\ error = "none"
    /\ \/ pc \in {"arguments", "bind"} /\ NoCall /\ Kept({})
       \/ pc = "listen" /\ Calling("bind", "listener", None) /\ Kept({})
       \/ pc \in {"listen", "endpoint", "connect"} /\ NoCall /\ Kept({"listener"})
       \/ pc = "accept" /\ Calling("connect", "client", None) /\ Kept({"listener"})
       \/ pc = "accept" /\ NoCall /\ Kept({"listener", "client"})
       \/ pc = "take" /\ Calling("accept", "listener", "accepted") /\ Kept({"listener", "client"})
       \/ pc = "take" /\ NoCall /\ Kept({"listener", "client", "accepted"})
       \/ pc = "configureClient" /\ NoCall /\ Kept({"listener", "client", "server"})
       \/ /\ pc = "configureServer" /\ NoCall /\ Kept({"listener", "client", "server"})
          /\ Timed({"client"})
       \/ /\ pc = "returnClient" /\ NoCall /\ Kept({"listener", "client", "server"})
          /\ Timed({"client", "server"})
       \/ /\ pc = "returnServer" /\ NoCall /\ Kept({"listener", "resultClient", "server"})
          /\ Timed({"resultClient", "server"})
       \/ /\ pc = "takeClient" /\ NoCall /\ Kept({"resultClient", "resultServer"})
          /\ Timed({"resultClient", "resultServer"})
       \/ /\ pc = "takeServer" /\ NoCall /\ Kept({"pairClient", "resultServer"})
          /\ Timed({"pairClient", "resultServer"})
       \/ /\ pc = "measure" /\ NoCall /\ Kept({"pairClient", "pairServer"})
          /\ Timed({"pairClient", "pairServer"})

\* ... and while the destructors run and after them: ConnectPair keeps a
\* configured pair or nothing (bench_tcp.cpp:101-102, 305).
Leaving ==
    /\ NoCall
    /\ \/ pc = "leave" /\ error # "none" /\ Kept({})
       \/ /\ pc = "leave" /\ error = "none" /\ Kept({"resultClient", "resultServer"})
          /\ Timed({"resultClient", "resultServer"})
       \/ pc \in {"measured", "unmeasured"} /\ error = "none" /\ Kept({})
       \/ pc = "exited" /\ leaving = <<>> /\ Kept({})

\* A call that gives up has an error to report (tcp_listener.hpp:40, 58, 84).
Causes == \A t \in Threads : call[t].step \in {"failed", "discard"} => call[t].cause # "none"

BenchRest == leaving \in Seq(Objects) /\ Causes /\ (Working \/ Leaving)

BenchInv == Inv /\ BenchRest

-----------------------------------------------------------------------------
\* The benchmark only calls what TcpSetup has, or fails in a native call that
\* opens and closes nothing.
LEMMA BenchCalls ==
    ASSUME leaving \in Seq(Objects), BenchNext
    PROVE  [Next]_vars \/ (Idling /\ NativeFails)
<1> USE BenchAssumption DEF Objects
<1>1. ReadArguments \/ Returned \/ Measure \/ Measured \/ Done => UNCHANGED vars
    BY DEF ReadArguments, Returned, Measure, Measured, Done, all
<1>2. InCall => Next
    <2>1. InCall => Step("main")
        BY DEF InCall, ReturnsFailure, Step
    <2> QED BY <2>1 DEF Next
<1>3. BindCall \/ ConnectCall => Next
    BY DEF BindCall, ConnectCall, Next
<1>4. ListenCall => Next \/ NativeFails
    BY DEF ListenCall, Next
<1>5. LocalEndpoint => UNCHANGED vars \/ NativeFails
    BY DEF LocalEndpoint
<1>6. AcceptCall => Next
    BY DEF AcceptCall, Next
<1>7. Take \/ ReturnPair \/ TakePair => Next
    BY DEF Take, ReturnPair, TakePair, Next
<1>8. ConfigureBoth => UNCHANGED vars \/ NativeFails
    BY DEF ConfigureBoth, ConfigureCall
<1>9. Destroy => [Next]_vars
    <2>1. leaving # <<>> => Head(leaving) \in Objects
        OBVIOUS
    <2>2. Destroy => UNCHANGED vars \/ Close("main", Head(leaving))
        BY DEF Destroy
    <2>3. Destroy => leaving # <<>>
        BY DEF Destroy
    <2> QED BY <2>1, <2>2, <2>3 DEF Next
<1> QED BY <1>1, <1>2, <1>3, <1>4, <1>5, <1>6, <1>7, <1>8, <1>9 DEF BenchNext

LEMMA NativeFailsInv ==
    ASSUME BenchInv, Idling, NativeFails
    PROVE  Inv' /\ Causes'
<1> USE DEF BenchInv, Inv
<1>1. /\ UNCHANGED <<m_handle, kernel, port, queue, call, interrupts>>
      /\ failures < MaxFailures /\ failures' = failures + 1
      /\ errno' = [errno EXCEPT !["main"] = "failed"]
    BY DEF NativeFails
<1>a. failures' \in 0..MaxFailures
    BY <1>1, SetupAssumption DEF TypeOK
<1>b. errno' \in [Threads -> Errors]
    BY <1>1 DEF TypeOK, Errors
<1>2. TypeOK'
    BY <1>1, <1>a, <1>b DEF TypeOK
<1>3. OwnedOnce' /\ ValidMeansReady' /\ CallsApart'
    BY <1>1 DEF OwnedOnce, InUse, ObjectHolds, CallHolds, ValidMeansReady, IsValid, CallsApart
<1>4. call["main"] = Idle
    BY BenchAssumption DEF Idling, CallShape, Stage, At
<1>5. CallShape'
    BY <1>1, <1>4, BenchAssumption DEF CallShape
<1>6. Causes'
    BY <1>1 DEF BenchRest, Causes
<1> QED BY <1>2, <1>3, <1>5, <1>6

\* Every way to give up has a cause.
LEMMA FailsCauses ==
    ASSUME TypeOK, Causes, NEW t \in Threads, NEW e, Fails(t, e), e # "none"
    PROVE  Causes'
<1>1. /\ SamePlan(t) /\ call'[t].cause = e
    BY FailsPlan
<1> QED BY <1>1 DEF Causes, SamePlan

\* A step of a call that neither fails nor goes on from a failure.
LEMMA OtherCauses ==
    ASSUME Causes, NEW t \in Threads, \A u \in Threads \ {t} : call'[u] = call[u],
           call'[t].step \notin {"failed", "discard"}
    PROVE  Causes'
BY DEF Causes

LEMMA CausesStep ==
    ASSUME Inv, Causes, [Next]_vars
    PROVE  Causes'
<1> USE DEF Inv
<1>1. ASSUME NEW t \in Threads, NEW h, NEW step, Proceeds(t, h, step), step \notin {"failed", "discard"}
      PROVE  Causes'
    BY <1>1, ProceedsPlan, OtherCauses DEF SamePlan
<1>2. ASSUME NEW t \in Threads, Return(t) PROVE Causes'
    <2>1. call'[t] = Idle /\ \A u \in Threads \ {t} : call'[u] = call[u]
        BY <1>2, CallType DEF Return
    <2> QED BY <2>1, OtherCauses DEF Idle
<1>3. ASSUME UNCHANGED call PROVE Causes'
    BY <1>3 DEF Causes
<1>4. ASSUME NEW t \in Threads, NEW kind, NEW o, NEW into, NEW p, NEW step,
             Begins(t, kind, o, into, p, step), step \in {"create", "native"}
      PROVE  Causes'
    <2>1. call'[t].step = step /\ \A u \in Threads \ {t} : call'[u] = call[u]
        BY <1>4, CallType DEF Begins, Idle
    <2> QED BY <1>4, <2>1, OtherCauses
<1>5. ASSUME NEW t \in Threads, Step(t) PROVE Causes'
    <2>1. CASE Create(t)
        BY <1>1, <2>1, FailsCauses DEF Create
    <2>2. CASE Configure(t)
        BY <1>1, <2>2, FailsCauses DEF Configure
    <2>3. CASE NativeConnect(t)
        BY <1>1, <2>3, FailsCauses DEF NativeConnect
    <2>4. CASE NativeBind(t)
        BY <1>1, <2>4, FailsCauses DEF NativeBind
    <2>5. CASE NativeAccept(t)
        BY <1>1, <1>3, <2>5, FailsCauses DEF NativeAccept, AcceptFails
    <2>6. CASE Adopt(t)
        BY <1>2, <2>6 DEF Adopt
    <2>7. CASE Capture(t)
        <3>1. SamePlan(t) /\ call'[t].cause = call[t].cause /\ call[t].step = "failed"
            BY <2>7, CapturePlan DEF Capture, At
        <3> QED BY <3>1 DEF Causes, SamePlan
    <2>8. CASE Discard(t)
        BY <1>2, <2>8 DEF Discard
    <2> QED BY <1>5, <2>1, <2>2, <2>3, <2>4, <2>5, <2>6, <2>7, <2>8 DEF Step
<1>6. CASE UNCHANGED vars
    BY <1>3, <1>6 DEF vars
<1>7. CASE Next
    BY <1>3, <1>4, <1>5, <1>7 DEF Next, Open, Listen, Accept, Close, Move
<1> QED BY <1>6, <1>7

\* The invariant of the setup calls holds through the benchmark.
LEMMA BenchKeepsInv ==
    ASSUME BenchInv, [BenchNext]_all
    PROVE  Inv' /\ Causes'
<1>1. Inv /\ [Next]_vars => Inv'
    BY TypeStep, OwnershipStep DEF Inv, Ownership
<1>2. leaving \in Seq(Objects) /\ Causes /\ Inv
    BY DEF BenchInv, BenchRest
<1>3. [Next]_vars \/ (Idling /\ NativeFails)
    BY <1>2, BenchCalls DEF all
<1> QED BY <1>1, <1>2, <1>3, CausesStep, NativeFailsInv

-----------------------------------------------------------------------------
BenchPlace == leaving \in Seq(Objects) /\ (Working \/ Leaving)

\* A statement that changes no object and leaves no scope.
LEMMA Stays ==
    ASSUME UNCHANGED <<m_handle, leaving>>, configured \subseteq configured', NEW S
    PROVE  (Kept(S) => Kept(S)') /\ (Timed(S) => Timed(S)')
BY DEF Kept, Timed, IsValid, Pending

\* Connect, Bind or Accept stores a descriptor in an empty object o.
LEMMA Gets ==
    ASSUME TypeOK, NEW o \in Objects, NEW n \in Natives, m_handle' = [m_handle EXCEPT ![o] = n],
           leaving = <<>>, leaving' = <<>>, NEW S, Kept(S)
    PROVE  Kept(S \cup {o})'
<1>1. /\ m_handle'[o] = n /\ n # InvalidHandle
      /\ \A x \in Objects \ {o} : m_handle'[x] = m_handle[x]
      /\ \A x : x # o => m_handle'[x] = m_handle[x]
    BY SetupAssumption DEF TypeOK
<1> QED BY <1>1 DEF Kept, IsValid, Pending

\* A move from s to an empty d, and the timeouts go with it.
LEMMA Moves ==
    ASSUME Inv, NEW d \in Objects, NEW s \in Objects, Move("main", d, s),
           leaving = <<>>, leaving' = <<>>, configured' = configured,
           NEW S \in SUBSET Objects, Kept(S), s \in S, d \notin S,
           NEW U \in SUBSET S, Timed(U)
    PROVE  /\ Kept((S \ {s}) \cup {d})'
           /\ s \in U => Timed((U \ {s}) \cup {d})'
           /\ s \notin U => Timed(U)'
<1>1. /\ m_handle'[s] = InvalidHandle /\ m_handle'[d] = m_handle[s]
      /\ \A x \in Objects \ {s, d} : m_handle'[x] = m_handle[x]
    BY DEF Move, Inv, TypeOK
<1> QED BY <1>1 DEF Kept, IsValid, Pending, Timed

\* What main is between calls: no thread is inside one.
LEMMA IdleCall ==
    ASSUME BenchInv
    PROVE  /\ Idling <=> NoCall
           /\ \A o, into : \A kind \in {"connect", "bind", "accept"} : Calling(kind, o, into) => ~NoCall
BY BenchAssumption DEF BenchInv, Inv, CallShape, Stage, At, Idling, NoCall, Calling, Idle

\* The statements of ConnectPair that make a call or query the system
\* (bench_tcp.cpp:66-90).
LEMMA BenchOpens ==
    ASSUME BenchInv, Idling, BindCall \/ ConnectCall
    PROVE  BenchPlace'
<1>1. UNCHANGED <<m_handle, leaving, configured, error>>
    BY DEF BindCall, ConnectCall, Open, Begins, Goes, program
<1>2. NoCall /\ ~Leaving
    BY IdleCall DEF BindCall, ConnectCall, Leaving
<1>3. CASE BindCall
    <2>1. pc = "bind" /\ pc' = "listen" /\ Calling("bind", "listener", None)'
        BY <1>3, BenchAssumption, CallType DEF BindCall, Open, Begins, Goes, Calling, Idle, BenchInv, Inv
    <2>2. Kept({}) /\ leaving = <<>> /\ error = "none"
        BY <2>1, <1>2 DEF BenchInv, BenchRest, Working
    <2> QED BY <1>1, <2>1, <2>2, Stays DEF BenchPlace, Working, BenchInv, BenchRest
<1>4. CASE ConnectCall
    <2>1. pc = "connect" /\ pc' = "accept" /\ Calling("connect", "client", None)'
        BY <1>4, BenchAssumption, CallType DEF ConnectCall, Open, Begins, Goes, Calling, Idle, BenchInv, Inv
    <2>2. Kept({"listener"}) /\ leaving = <<>> /\ error = "none"
        BY <2>1, <1>2 DEF BenchInv, BenchRest, Working
    <2> QED BY <1>1, <2>1, <2>2, Stays DEF BenchPlace, Working, BenchInv, BenchRest
<1> QED BY <1>3, <1>4

\* return Failure(e): every object of ConnectPair is destroyed.
LEMMA Quits ==
    ASSUME UNCHANGED m_handle, leaving = <<>>, leaving' = Locals,
           NEW S \in SUBSET {"accepted", "server", "client", "listener"}, Kept(S)
    PROVE  Kept({})' /\ leaving' \in Seq(Objects)
<1>1. leaving' \in Seq(Objects) /\ Pending' = {"accepted", "server", "client", "listener"}
    BY BenchAssumption DEF Locals, Objects, Pending
<1>2. Pending = {}
    BY DEF Pending
<1> QED BY <1>1, <1>2 DEF Kept, IsValid

\* The statements at which nothing but the listener, the client and the server
\* of ConnectPair hold a descriptor.
LocalsOnly ==
    /\ NoCall /\ leaving = <<>>
    /\ \E S \in SUBSET {"accepted", "server", "client", "listener"} : Kept(S)

LEMMA NativeFailsQuits ==
    ASSUME BenchInv, Idling, LocalsOnly, NativeFails
    PROVE  BenchPlace'
<1>1. /\ UNCHANGED <<m_handle, call>> /\ leaving' = Locals /\ pc' = "leave"
      /\ error' = errno'["main"] /\ errno' = [errno EXCEPT !["main"] = "failed"]
    BY DEF NativeFails, Fail
<1>2. error' # "none"
    BY <1>1, BenchAssumption DEF BenchInv, Inv, TypeOK
<1>3. Kept({})' /\ leaving' \in Seq(Objects)
    BY <1>1, Quits DEF LocalsOnly
<1>4. NoCall'
    BY <1>1 DEF NoCall, LocalsOnly
<1> QED BY <1>1, <1>2, <1>3, <1>4 DEF BenchPlace, Leaving

LEMMA BenchQueries ==
    ASSUME BenchInv, Idling, ListenCall \/ LocalEndpoint
    PROVE  BenchPlace'
<1>1. pc \in {"listen", "endpoint"} /\ NoCall /\ ~Leaving
    BY IdleCall DEF ListenCall, LocalEndpoint, Leaving
<1>2. Kept({"listener"}) /\ leaving = <<>> /\ error = "none"
    BY <1>1, IdleCall DEF BenchInv, BenchRest, Working
<1>3. CASE NativeFails
    BY <1>1, <1>2, <1>3, NativeFailsQuits DEF LocalsOnly
<1>4. CASE UNCHANGED <<m_handle, call, program>> /\ pc' \in {"endpoint", "connect"}
    <2>1. Kept({"listener"})' /\ NoCall'
        BY <1>1, <1>2, <1>4, Stays DEF program, NoCall
    <2> QED BY <1>2, <1>4, <2>1 DEF BenchPlace, Working, program, BenchInv, BenchRest
<1> QED BY <1>3, <1>4 DEF ListenCall, LocalEndpoint, Listen, Goes, vars

LEMMA BenchAccepts ==
    ASSUME BenchInv, Idling, AcceptCall
    PROVE  BenchPlace'
<1>1. /\ pc = "accept" /\ pc' = "take" /\ Calling("accept", "listener", "accepted")'
      /\ UNCHANGED <<m_handle, leaving, configured, error>>
    BY BenchAssumption, CallType
       DEF AcceptCall, Accept, Begins, Goes, program, Calling, Idle, BenchInv, Inv
<1>2. NoCall /\ ~Leaving
    BY <1>1, IdleCall DEF Leaving
<1>3. Kept({"listener", "client"}) /\ leaving = <<>> /\ error = "none"
    BY <1>1, <1>2, IdleCall DEF BenchInv, BenchRest, Working
<1> QED BY <1>1, <1>3, Stays DEF BenchPlace, Working, BenchInv, BenchRest

\* pair.server = std::move(accepted).Value() (bench_tcp.cpp:92).
LEMMA BenchTakes ==
    ASSUME BenchInv, Idling, Take
    PROVE  BenchPlace'
<1>1. /\ pc = "take" /\ pc' = "configureClient" /\ Move("main", "server", "accepted")
      /\ UNCHANGED <<call, leaving, configured, error>>
    BY DEF Take, Goes, Move, program
<1>2. NoCall /\ ~Leaving
    BY <1>1, IdleCall DEF Leaving
<1>3. Kept({"listener", "client", "accepted"}) /\ leaving = <<>> /\ error = "none"
    BY <1>1, <1>2, IdleCall DEF BenchInv, BenchRest, Working
<1>4. Kept(({"listener", "client", "accepted"} \ {"accepted"}) \cup {"server"})'
    <2>1. /\ {"listener", "client", "accepted"} \in SUBSET Objects
          /\ {"accepted", "server"} \subseteq Objects
        BY BenchAssumption DEF Objects
    <2>2. Timed({}) /\ {} \in SUBSET {"listener", "client", "accepted"}
        BY DEF Timed
    <2> QED BY <1>1, <1>3, <2>1, <2>2, Moves DEF BenchInv
<1>5. ({"listener", "client", "accepted"} \ {"accepted"}) \cup {"server"} = {"listener", "client", "server"}
    OBVIOUS
<1>6. Kept({"listener", "client", "server"})' /\ NoCall'
    BY <1>1, <1>2, <1>4, <1>5 DEF NoCall
<1> QED BY <1>1, <1>3, <1>6 DEF BenchPlace, Working, BenchInv, BenchRest

\* Configure on both sockets (bench_tcp.cpp:93-100).
LEMMA BenchConfigures ==
    ASSUME BenchInv, Idling, ConfigureBoth
    PROVE  BenchPlace'
<1>1. pc \in {"configureClient", "configureServer"} /\ NoCall /\ ~Leaving
    BY IdleCall DEF ConfigureBoth, Leaving
<1>2. /\ Kept({"listener", "client", "server"}) /\ leaving = <<>> /\ error = "none"
      /\ pc = "configureServer" => Timed({"client"})
    BY <1>1, IdleCall DEF BenchInv, BenchRest, Working
<1>3. CASE NativeFails
    BY <1>1, <1>2, <1>3, NativeFailsQuits DEF LocalsOnly
<1>4. CASE pc = "configureClient" /\ ConfigureCall("client", "configureServer")
    <2>1. /\ UNCHANGED <<m_handle, call, leaving, error>> /\ pc' = "configureServer"
          /\ configured' = configured \cup {m_handle["client"]}
        BY <1>4 DEF ConfigureCall, vars
    <2>2. Kept({"listener", "client", "server"})' /\ Timed({"client"})' /\ NoCall'
        BY <1>1, <1>2, <2>1, Stays DEF NoCall, Timed
    <2> QED BY <1>2, <2>1, <2>2 DEF BenchPlace, Working, BenchInv, BenchRest
<1>5. CASE pc = "configureServer" /\ ConfigureCall("server", "returnClient")
    <2>1. /\ UNCHANGED <<m_handle, call, leaving, error>> /\ pc' = "returnClient"
          /\ configured' = configured \cup {m_handle["server"]}
        BY <1>5 DEF ConfigureCall, vars
    <2>2. Kept({"listener", "client", "server"})' /\ Timed({"client", "server"})' /\ NoCall'
        BY <1>1, <1>2, <1>5, <2>1, Stays DEF NoCall, Timed
    <2> QED BY <1>2, <2>1, <2>2 DEF BenchPlace, Working, BenchInv, BenchRest
<1> QED BY <1>3, <1>4, <1>5 DEF ConfigureBoth

\* Success(std::move(pair)), and the destructors begin (bench_tcp.cpp:101).
LEMMA BenchReturns ==
    ASSUME BenchInv, Idling, ReturnPair
    PROVE  BenchPlace'
<1>1. pc \in {"returnClient", "returnServer"} /\ NoCall /\ NoCall' /\ ~Leaving
    BY IdleCall DEF ReturnPair, Leaving, Move, NoCall
<1>2. CASE pc = "returnClient"
    <2> DEFINE S == {"listener", "client", "server"}  U == {"client", "server"}
    <2>1. /\ Move("main", "resultClient", "client") /\ pc' = "returnServer"
          /\ UNCHANGED <<leaving, configured, error>>
        BY <1>2 DEF ReturnPair, Goes, program
    <2>2. Kept(S) /\ Timed(U) /\ leaving = <<>> /\ error = "none"
        BY <1>1, <1>2, IdleCall DEF BenchInv, BenchRest, Working
    <2>3. /\ S \in SUBSET Objects /\ U \in SUBSET S /\ "client" \in U /\ "client" \in S
          /\ {"client", "resultClient"} \subseteq Objects /\ "resultClient" \notin S
        BY BenchAssumption DEF Objects
    <2>4. Kept((S \ {"client"}) \cup {"resultClient"})' /\ Timed((U \ {"client"}) \cup {"resultClient"})'
        <3> HIDE DEF S, U
        <3> QED BY <2>1, <2>2, <2>3, Moves DEF BenchInv
    <2>5. /\ (S \ {"client"}) \cup {"resultClient"} = {"listener", "resultClient", "server"}
          /\ (U \ {"client"}) \cup {"resultClient"} = {"resultClient", "server"}
        OBVIOUS
    <2>6. Kept({"listener", "resultClient", "server"})' /\ Timed({"resultClient", "server"})'
        BY <2>4, <2>5
    <2> QED BY <1>1, <2>1, <2>2, <2>6 DEF BenchPlace, Working, BenchInv, BenchRest
<1>3. CASE pc = "returnServer"
    <2>1. /\ Move("main", "resultServer", "server") /\ pc' = "leave"
          /\ leaving' = Locals /\ UNCHANGED <<configured, error>>
        BY <1>3 DEF ReturnPair
    <2>2. /\ Kept({"listener", "resultClient", "server"}) /\ Timed({"resultClient", "server"})
          /\ leaving = <<>> /\ error = "none"
        BY <1>1, <1>3, IdleCall DEF BenchInv, BenchRest, Working
    <2>3. /\ m_handle'["server"] = InvalidHandle /\ m_handle'["resultServer"] = m_handle["server"]
          /\ \A x \in Objects \ {"server", "resultServer"} : m_handle'[x] = m_handle[x]
        BY <2>1, BenchAssumption DEF Move, BenchInv, Inv, TypeOK, Objects
    <2>4. leaving' \in Seq(Objects) /\ Pending' = {"accepted", "server", "client", "listener"}
        BY <2>1, BenchAssumption DEF Locals, Objects, Pending
    <2>5. Pending = {}
        BY <2>2 DEF Pending
    <2>6. Kept({"resultClient", "resultServer"})'
        BY <2>2, <2>3, <2>4, <2>5, BenchAssumption DEF Kept, IsValid, Objects
    <2>7. Timed({"resultClient", "resultServer"})'
        BY <2>1, <2>2, <2>3, BenchAssumption DEF Timed, Objects
    <2> QED BY <1>1, <2>1, <2>2, <2>4, <2>6, <2>7 DEF BenchPlace, Leaving
<1> QED BY <1>1, <1>2, <1>3

\* The measurement takes the pair (bench_tcp.cpp:155, 212).
LEMMA BenchTakesPair ==
    ASSUME BenchInv, Idling, TakePair
    PROVE  BenchPlace'
<1>1. pc \in {"takeClient", "takeServer"} /\ NoCall /\ NoCall' /\ ~Leaving
    BY IdleCall DEF TakePair, Leaving, Move, NoCall
<1>2. CASE pc = "takeClient"
    <2> DEFINE S == {"resultClient", "resultServer"}
    <2>1. /\ Move("main", "pairClient", "resultClient") /\ pc' = "takeServer"
          /\ UNCHANGED <<leaving, configured, error>>
        BY <1>2 DEF TakePair, Goes, program
    <2>2. Kept(S) /\ Timed(S) /\ leaving = <<>> /\ error = "none"
        BY <1>1, <1>2, IdleCall DEF BenchInv, BenchRest, Working
    <2>3. /\ S \in SUBSET Objects /\ "resultClient" \in S
          /\ {"resultClient", "pairClient"} \subseteq Objects /\ "pairClient" \notin S
        BY BenchAssumption DEF Objects
    <2>4. Kept((S \ {"resultClient"}) \cup {"pairClient"})' /\ Timed((S \ {"resultClient"}) \cup {"pairClient"})'
        <3> HIDE DEF S
        <3> QED BY <2>1, <2>2, <2>3, Moves DEF BenchInv
    <2>5. (S \ {"resultClient"}) \cup {"pairClient"} = {"pairClient", "resultServer"}
        OBVIOUS
    <2>6. Kept({"pairClient", "resultServer"})' /\ Timed({"pairClient", "resultServer"})'
        BY <2>4, <2>5
    <2> QED BY <1>1, <2>1, <2>2, <2>6 DEF BenchPlace, Working, BenchInv, BenchRest
<1>3. CASE pc = "takeServer"
    <2> DEFINE S == {"pairClient", "resultServer"}
    <2>1. /\ Move("main", "pairServer", "resultServer") /\ pc' = "measure"
          /\ UNCHANGED <<leaving, configured, error>>
        BY <1>3 DEF TakePair, Goes, program
    <2>2. Kept(S) /\ Timed(S) /\ leaving = <<>> /\ error = "none"
        BY <1>1, <1>3, IdleCall DEF BenchInv, BenchRest, Working
    <2>3. /\ S \in SUBSET Objects /\ "resultServer" \in S
          /\ {"resultServer", "pairServer"} \subseteq Objects /\ "pairServer" \notin S
        BY BenchAssumption DEF Objects
    <2>4. Kept((S \ {"resultServer"}) \cup {"pairServer"})' /\ Timed((S \ {"resultServer"}) \cup {"pairServer"})'
        <3> HIDE DEF S
        <3> QED BY <2>1, <2>2, <2>3, Moves DEF BenchInv
    <2>5. (S \ {"resultServer"}) \cup {"pairServer"} = {"pairClient", "pairServer"}
        OBVIOUS
    <2>6. Kept({"pairClient", "pairServer"})' /\ Timed({"pairClient", "pairServer"})'
        BY <2>4, <2>5
    <2> QED BY <1>1, <2>1, <2>2, <2>6 DEF BenchPlace, Working, BenchInv, BenchRest
<1> QED BY <1>1, <1>2, <1>3

\* The destructor of the next object leaves the kept ones alone, and the number
\* it gives back is not one of theirs.
LEMMA DestroyKeeps ==
    ASSUME BenchInv, Inv', Idling, Destroy, NEW S \in SUBSET Objects, Kept(S)
    PROVE  /\ Kept(S)' /\ leaving' \in Seq(Objects)
           /\ Timed(S) => Timed(S)'
           /\ UNCHANGED <<pc, error, call>>
<1> DEFINE object == Head(leaving)
<1>1. /\ leaving # <<>> /\ leaving \in Seq(Objects) /\ leaving' = Tail(leaving)
      /\ configured' = {n \in configured : kernel'[n] # "free"}
      /\ UNCHANGED <<pc, error, call>>
    BY DEF Destroy, Close, vars, BenchInv, BenchRest
<1>2. object \in Objects /\ object \in Pending
    BY <1>1 DEF Pending
<1>3. leaving' \in Seq(Objects) /\ Pending' \subseteq Pending /\ Pending \subseteq Pending' \cup {object}
    <2>1. /\ Len(Tail(leaving)) = Len(leaving) - 1 /\ Len(leaving) \in Nat
          /\ \A i \in 1..(Len(leaving) - 1) : Tail(leaving)[i] = leaving[i + 1]
          /\ Tail(leaving) \in Seq(Objects) /\ DOMAIN Tail(leaving) = 1..(Len(leaving) - 1)
        BY <1>1
    <2>2. \A i \in 1..Len(leaving) : i = 1 \/ i - 1 \in 1..(Len(leaving) - 1)
        BY <2>1
    <2>3. Pending = {leaving[i] : i \in 1..Len(leaving)}
        BY <1>1 DEF Pending
    <2>4. Pending' = {Tail(leaving)[i] : i \in 1..(Len(leaving) - 1)}
        BY <1>1, <2>1 DEF Pending
    <2>5. \A i \in 1..(Len(leaving) - 1) : i + 1 \in 1..Len(leaving)
        BY <2>1
    <2>6. Pending' \subseteq Pending
        BY <2>1, <2>3, <2>4, <2>5
    <2>7. ASSUME NEW x \in Pending, x # object PROVE x \in Pending'
        <3>1. PICK i \in 1..Len(leaving) : x = leaving[i]
            BY <2>3
        <3>2. i # 1
            BY <1>1, <2>7, <3>1
        <3>3. i - 1 \in 1..(Len(leaving) - 1) /\ Tail(leaving)[i - 1] = leaving[(i - 1) + 1] /\ (i - 1) + 1 = i
            BY <2>1, <2>2, <3>2
        <3> QED BY <2>4, <3>1, <3>3
    <2> QED BY <1>1, <2>1, <2>6, <2>7
<1>4. /\ m_handle'[object] = InvalidHandle
      /\ \A x \in Objects \ {object} : m_handle'[x] = m_handle[x]
    <2>1. CASE IsValid(object)
        BY <1>2, <2>1 DEF Destroy, Close, IsValid, BenchInv, Inv, TypeOK
    <2>2. CASE ~IsValid(object)
        BY <2>2 DEF Destroy, IsValid, vars
    <2> QED BY <2>1, <2>2
<1>5. \A x \in S : m_handle'[x] = m_handle[x] /\ x # object
    BY <1>2, <1>4 DEF Kept
<1> HIDE DEF object
<1>6. Kept(S)'
    BY <1>3, <1>4, <1>5 DEF Kept, IsValid
<1>7. ASSUME Timed(S) PROVE Timed(S)'
    <2>1. ASSUME NEW x \in S PROVE kernel'[m_handle'[x]] # "free"
        <3>1. m_handle'[x] \in Natives
            BY <1>6 DEF Kept, IsValid, Inv, TypeOK
        <3>2. m_handle'[x] \in InUse'
            BY <3>1 DEF Inv, OwnedOnce, ObjectHolds
        <3> QED BY <3>2 DEF InUse
    <2> QED BY <1>1, <1>5, <1>7, <2>1 DEF Timed
<1> QED BY <1>1, <1>3, <1>6, <1>7

\* The end of a scope (bench_tcp.cpp:101-102, and of RoundTrips and Throughput).
LEMMA BenchDestroys ==
    ASSUME BenchInv, Inv', Idling, Destroy
    PROVE  BenchPlace'
<1>1. NoCall /\ Leaving /\ leaving # <<>>
    BY IdleCall DEF BenchInv, BenchRest, Working, Destroy
<1>2. {} \in SUBSET Objects /\ {"resultClient", "resultServer"} \in SUBSET Objects
    BY BenchAssumption DEF Objects
<1>3. CASE Kept({}) /\ \/ pc = "leave" /\ error # "none"
                       \/ pc \in {"measured", "unmeasured"} /\ error = "none"
    <2>1. Kept({})' /\ leaving' \in Seq(Objects) /\ UNCHANGED <<pc, error, call>>
        BY <1>2, <1>3, DestroyKeeps
    <2> QED BY <1>1, <1>3, <2>1 DEF BenchPlace, Leaving, NoCall
<1>4. CASE /\ pc = "leave" /\ error = "none" /\ Kept({"resultClient", "resultServer"})
           /\ Timed({"resultClient", "resultServer"})
    <2>1. /\ Kept({"resultClient", "resultServer"})' /\ leaving' \in Seq(Objects)
          /\ Timed({"resultClient", "resultServer"})' /\ UNCHANGED <<pc, error, call>>
        BY <1>2, <1>4, DestroyKeeps
    <2> QED BY <1>1, <1>4, <2>1 DEF BenchPlace, Leaving, NoCall
<1> QED BY <1>1, <1>3, <1>4 DEF Leaving

\* The statements between the scopes (bench_tcp.cpp:281-305).
LEMMA BenchGoesOn ==
    ASSUME BenchInv, Returned \/ Measure \/ Measured \/ ReadArguments \/ Done, Idling \/ ReadArguments \/ Done
    PROVE  BenchPlace'
<1>1. UNCHANGED <<m_handle, call, configured, error>>
    BY DEF Returned, Measure, Measured, ReadArguments, Done, all, vars, Goes, Exits, program
<1>2. NoCall => NoCall'
    BY <1>1 DEF NoCall
<1>3. leaving' = leaving => \A S : (Kept(S) => Kept(S)') /\ (Timed(S) => Timed(S)')
    BY <1>1, Stays
<1>4. leaving \in Seq(Objects)
    BY DEF BenchInv, BenchRest
<1>5. CASE ReadArguments
    <2>1. pc = "arguments" /\ UNCHANGED leaving /\ pc' \in {"bind", "exited"}
        BY <1>5 DEF ReadArguments, Goes, Exits, program
    <2>2. NoCall /\ Kept({}) /\ leaving = <<>> /\ error = "none"
        BY <2>1 DEF BenchInv, BenchRest, Working, Leaving
    <2> QED BY <1>1, <1>2, <1>3, <1>4, <2>1, <2>2 DEF BenchPlace, Working, Leaving
<1>6. CASE Idling /\ Returned
    <2>1. /\ pc = "leave" /\ leaving = <<>> /\ UNCHANGED leaving
          /\ pc' = IF error # "none" THEN "exited" ELSE "takeClient"
        BY <1>6 DEF Returned, Goes, Exits, program
    <2>2. Leaving /\ NoCall
        BY <1>6, <2>1, IdleCall DEF BenchInv, BenchRest, Working
    <2>3. CASE error # "none"
        BY <1>1, <1>2, <1>3, <1>4, <2>1, <2>2, <2>3 DEF BenchPlace, Leaving
    <2>4. CASE error = "none"
        <3>1. Kept({"resultClient", "resultServer"}) /\ Timed({"resultClient", "resultServer"})
            BY <2>1, <2>2, <2>4 DEF Leaving
        <3> QED BY <1>1, <1>2, <1>3, <1>4, <2>1, <2>2, <2>4, <3>1 DEF BenchPlace, Working
    <2> QED BY <2>3, <2>4
<1>7. CASE Idling /\ Measure
    <2>1. /\ pc = "measure" /\ pc' \in {"measured", "unmeasured"}
          /\ leaving' = <<"pairServer", "pairClient", "resultServer", "resultClient">>
        BY <1>7 DEF Measure
    <2>2. NoCall /\ Kept({"pairClient", "pairServer"}) /\ leaving = <<>> /\ error = "none"
        BY <1>7, <2>1, IdleCall DEF BenchInv, BenchRest, Working, Leaving
    <2>3. /\ leaving' \in Seq(Objects)
          /\ Pending' = {"pairServer", "pairClient", "resultServer", "resultClient"}
        BY <2>1, BenchAssumption DEF Objects, Pending
    <2>4. Kept({})'
        <3>1. Pending = {}
            BY <2>2 DEF Pending
        <3> QED BY <1>1, <2>2, <2>3, <3>1 DEF Kept, IsValid
    <2> QED BY <1>1, <1>2, <2>1, <2>2, <2>3, <2>4 DEF BenchPlace, Leaving
<1>8. CASE Idling /\ Measured
    <2>1. /\ pc \in {"measured", "unmeasured"} /\ leaving = <<>> /\ UNCHANGED leaving
          /\ pc' \in {"bind", "exited"}
        BY <1>8 DEF Measured, Exits
    <2>2. NoCall /\ Kept({}) /\ error = "none"
        BY <2>1 DEF BenchInv, BenchRest, Working, Leaving
    <2> QED BY <1>1, <1>2, <1>3, <1>4, <2>1, <2>2 DEF BenchPlace, Working, Leaving
<1>9. CASE Done
    <2>1. pc = "exited" /\ UNCHANGED <<pc, leaving>>
        BY <1>9 DEF Done, all, program
    <2>2. NoCall /\ Kept({}) /\ leaving = <<>>
        BY <2>1 DEF BenchInv, BenchRest, Working, Leaving
    <2> QED BY <1>2, <1>3, <1>4, <2>1, <2>2 DEF BenchPlace, Leaving
<1> QED BY <1>5, <1>6, <1>7, <1>8, <1>9

\* A step inside Bind, Connect or Accept that does not end it.
LEMMA CallGoesOn ==
    ASSUME Inv, \/ Create("main") \/ Configure("main") \/ NativeBind("main") \/ NativeConnect("main")
                \/ NativeAccept("main") \/ Capture("main")
    PROVE  UNCHANGED m_handle /\ \A kind, o, into : Calling(kind, o, into) => Calling(kind, o, into)'
<1> USE BenchAssumption DEF Inv
<1>1. ASSUME NEW h, NEW step, Proceeds("main", h, step) PROVE SamePlan("main") /\ UNCHANGED m_handle
    BY <1>1, ProceedsPlan
<1>2. ASSUME NEW e, Fails("main", e) PROVE SamePlan("main") /\ UNCHANGED m_handle
    BY <1>2, FailsPlan
<1>3. ASSUME Capture("main") PROVE SamePlan("main") /\ UNCHANGED m_handle
    BY <1>3, CapturePlan
<1>4. CASE SamePlan("main") /\ UNCHANGED m_handle
    BY <1>4 DEF SamePlan, Calling
<1>5. CASE UNCHANGED <<m_handle, system, call>>
    BY <1>5 DEF Calling
<1> QED BY <1>1, <1>2, <1>3, <1>4, <1>5
        DEF Create, Configure, NativeBind, NativeConnect, NativeAccept, AcceptFails

\* One that stores the descriptor.
LEMMA CallStores ==
    ASSUME Inv, Adopt("main")
    PROVE  /\ NoCall'
           /\ \E n \in Natives : m_handle' = [m_handle EXCEPT
                  ![IF call["main"].kind = "accept" THEN call["main"].into ELSE call["main"].object] = n]
<1>1. call["main"].handle \in Natives
    BY BenchAssumption DEF Inv, Adopt, At, CallShape, Stage, Idle
<1>2. NoCall'
    BY BenchAssumption, CallType DEF Inv, Adopt, Return, NoCall
<1> QED BY <1>1, <1>2 DEF Adopt

\* One that returns the error it found, and ConnectPair returns it too.
LEMMA CallReturnsFailure ==
    ASSUME BenchInv, ReturnsFailure
    PROVE  /\ NoCall' /\ UNCHANGED m_handle
           /\ pc' = "leave" /\ leaving' = Locals /\ error' # "none"
<1> USE BenchAssumption
<1>1. /\ call["main"].step = "discard" /\ call' = [call EXCEPT !["main"] = Idle] /\ UNCHANGED m_handle
      /\ error' = call["main"].error /\ leaving' = Locals /\ pc' = "leave"
    BY DEF ReturnsFailure, Discard, At, Return, Fail
<1>2. call["main"].error = call["main"].cause
    BY <1>1 DEF BenchInv, Inv, CallShape, At, Idle
<1>3. call["main"].cause # "none"
    BY <1>1 DEF BenchInv, BenchRest, Causes
<1>4. NoCall'
    BY <1>1, CallType DEF NoCall, BenchInv, Inv
<1> QED BY <1>1, <1>2, <1>3, <1>4

\* Bind, Connect and Accept inside ConnectPair (bench_tcp.cpp:66-91).
LEMMA BenchInCall ==
    ASSUME BenchInv, InCall
    PROVE  BenchPlace'
<1> DEFINE Now(kind, o, into, S) == Calling(kind, o, into) /\ Kept(S)
<1>1. ~Idling
    BY DEF InCall, ReturnsFailure, Create, Configure, NativeBind, NativeConnect, NativeAccept, Adopt, Capture,
           Discard, At, Idling
<1>2. ~NoCall
    BY <1>1, IdleCall
<1>3. /\ leaving = <<>> /\ error = "none" /\ leaving \in Seq(Objects)
      /\ \/ pc = "listen" /\ Now("bind", "listener", None, {})
         \/ pc = "accept" /\ Now("connect", "client", None, {"listener"})
         \/ pc = "take" /\ Now("accept", "listener", "accepted", {"listener", "client"})
    BY <1>2 DEF BenchInv, BenchRest, Working, Leaving
<1>4. CASE /\ \/ Create("main") \/ Configure("main") \/ NativeBind("main") \/ NativeConnect("main")
              \/ NativeAccept("main") \/ Capture("main")
           /\ UNCHANGED <<pc, program>>
    <2>1. UNCHANGED <<pc, leaving, configured, error>>
        BY <1>4 DEF program
    <2>2. UNCHANGED m_handle /\ \A kind, o, into : Calling(kind, o, into) => Calling(kind, o, into)'
        BY <1>4, CallGoesOn DEF BenchInv
    <2>3. \A S : Kept(S) => Kept(S)'
        BY <2>1, <2>2, Stays
    <2> QED BY <1>3, <2>1, <2>2, <2>3 DEF BenchPlace, Working
<1>5. CASE Adopt("main") /\ UNCHANGED <<pc, program>>
    <2>1. UNCHANGED <<pc, leaving, configured, error>> /\ NoCall'
        BY <1>5, CallStores DEF program, BenchInv
    <2>2. PICK n \in Natives : m_handle' = [m_handle EXCEPT
              ![IF call["main"].kind = "accept" THEN call["main"].into ELSE call["main"].object] = n]
        BY <1>5, CallStores DEF BenchInv
    <2>3. ASSUME NEW o \in Objects, NEW S, Kept(S), m_handle' = [m_handle EXCEPT ![o] = n]
          PROVE  Kept(S \cup {o})'
        BY <1>3, <2>1, <2>3, Gets DEF BenchInv, Inv
    <2>4. {"listener", "client", "accepted"} \subseteq Objects
        BY BenchAssumption DEF Objects
    <2>5. CASE pc = "listen" /\ Now("bind", "listener", None, {})
        <3>1. Kept({} \cup {"listener"})'
            BY <2>2, <2>3, <2>4, <2>5 DEF Calling
        <3>2. {} \cup {"listener"} = {"listener"}
            OBVIOUS
        <3>3. Kept({"listener"})'
            BY <3>1, <3>2
        <3> QED BY <1>3, <2>1, <2>5, <3>3 DEF BenchPlace, Working
    <2>6. CASE pc = "accept" /\ Now("connect", "client", None, {"listener"})
        <3>1. Kept({"listener"} \cup {"client"})'
            BY <2>2, <2>3, <2>4, <2>6 DEF Calling
        <3>2. {"listener"} \cup {"client"} = {"listener", "client"}
            OBVIOUS
        <3>3. Kept({"listener", "client"})'
            BY <3>1, <3>2
        <3> QED BY <1>3, <2>1, <2>6, <3>3 DEF BenchPlace, Working
    <2>7. CASE pc = "take" /\ Now("accept", "listener", "accepted", {"listener", "client"})
        <3>1. Kept({"listener", "client"} \cup {"accepted"})'
            BY <2>2, <2>3, <2>4, <2>7 DEF Calling
        <3>2. {"listener", "client"} \cup {"accepted"} = {"listener", "client", "accepted"}
            OBVIOUS
        <3>3. Kept({"listener", "client", "accepted"})'
            BY <3>1, <3>2
        <3> QED BY <1>3, <2>1, <2>7, <3>3 DEF BenchPlace, Working
    <2> QED BY <1>3, <2>5, <2>6, <2>7
<1>6. CASE ReturnsFailure
    <2>1. /\ NoCall' /\ UNCHANGED m_handle
          /\ pc' = "leave" /\ leaving' = Locals /\ error' # "none"
        BY <1>6, CallReturnsFailure
    <2>2. \E S \in SUBSET {"accepted", "server", "client", "listener"} : Kept(S)
        BY <1>3
    <2>3. Kept({})' /\ leaving' \in Seq(Objects)
        BY <1>3, <2>1, <2>2, Quits
    <2> QED BY <2>1, <2>3 DEF BenchPlace, Leaving
<1> QED BY <1>4, <1>5, <1>6 DEF InCall

-----------------------------------------------------------------------------
LEMMA BenchStep == BenchInv /\ [BenchNext]_all => BenchInv'
<1> SUFFICES ASSUME BenchInv, [BenchNext]_all PROVE BenchInv'
    OBVIOUS
<1>1. Inv' /\ Causes'
    BY BenchKeepsInv
<1>2. BenchPlace'
    <2>1. CASE UNCHANGED all
        <3>1. /\ UNCHANGED <<m_handle, call, pc, leaving, configured, error>>
            BY <2>1 DEF all, vars, program
        <3>2. \A S : (Kept(S) => Kept(S)') /\ (Timed(S) => Timed(S)')
            BY <3>1, Stays
        <3>3. (NoCall => NoCall') /\ \A kind, o, into : Calling(kind, o, into) => Calling(kind, o, into)'
            BY <3>1 DEF NoCall, Calling
        <3>4. Working => Working'
            BY <3>1, <3>2, <3>3 DEF Working
        <3>5. Leaving => Leaving'
            BY <3>1, <3>2, <3>3 DEF Leaving
        <3> QED BY <3>1, <3>4, <3>5 DEF BenchPlace, BenchInv, BenchRest
    <2>2. CASE BenchNext
        BY <1>1, <2>2, BenchInCall, BenchOpens, BenchQueries, BenchAccepts, BenchTakes, BenchConfigures,
           BenchReturns, BenchTakesPair, BenchDestroys, BenchGoesOn DEF BenchNext
    <2> QED BY <2>1, <2>2
<1> QED BY <1>1, <1>2 DEF BenchInv, BenchRest, BenchPlace

\* At every statement of main and ConnectPair exactly the objects that should
\* hold a descriptor do, whatever has failed before (bench_tcp.cpp:63-102,
\* 280-306).
THEOREM BenchInvariance == BenchSpec => []BenchInv
<1>1. BenchInit => BenchInv
    <2> SUFFICES ASSUME BenchInit PROVE BenchInv
        OBVIOUS
    <2>1. Inv
        BY InitInv DEF BenchInit
    <2>2. leaving = <<>> /\ leaving \in Seq(Objects) /\ pc = "arguments" /\ error = "none"
        BY DEF BenchInit
    <2>3. Causes /\ NoCall
        BY BenchAssumption DEF BenchInit, Init, Causes, Idle, NoCall
    <2>4. Kept({})
        BY DEF BenchInit, Init, Kept, IsValid
    <2> QED BY <2>1, <2>2, <2>3, <2>4 DEF BenchInv, BenchRest, Working
<1> QED BY <1>1, BenchStep, PTL DEF BenchSpec

\* ConnectPair returns two connected sockets and nothing else, or an error and
\* nothing; main leaves nothing (bench_tcp.cpp:63-102, 280-306).
THEOREM PairIsComplete == BenchSpec => []PairOrNothing
<1>1. BenchInv => PairOrNothing
    <2> SUFFICES ASSUME BenchInv PROVE PairOrNothing
        OBVIOUS
    <2>1. ASSUME NEW S \in SUBSET Objects, NoCall, leaving = <<>>, Kept(S)
          PROVE  InUse = {m_handle[o] : o \in S}
        <3>1. \A n \in Natives : n \in InUse <=> \E o \in Objects : m_handle[o] = n
            BY <2>1, SetupAssumption, BenchAssumption
               DEF BenchInv, Inv, OwnedOnce, ObjectHolds, CallHolds, NoCall, Idle
        <3>2. \A o \in Objects : m_handle[o] \in Natives <=> o \in S
            BY <2>1, SetupAssumption DEF Kept, IsValid, Pending, BenchInv, Inv, TypeOK
        <3>3. InUse \subseteq Natives
            BY DEF InUse
        <3> QED BY <3>1, <3>2, <3>3
    <2>2. CASE pc = "leave" /\ leaving = <<>>
        <3>1. Leaving /\ NoCall
            BY <2>2 DEF BenchInv, BenchRest, Working, Leaving, Calling, NoCall, Idle
        <3>2. CASE error # "none"
            <4>1. Kept({})
                BY <2>2, <3>1, <3>2 DEF Leaving
            <4>2. InUse = {m_handle[o] : o \in {}}
                BY <2>1, <2>2, <3>1, <4>1
            <4> QED BY <2>2, <3>2, <4>2 DEF PairOrNothing
        <3>3. CASE error = "none"
            <4> DEFINE S == {"resultClient", "resultServer"}
            <4>1. Kept(S) /\ S \in SUBSET Objects /\ S \in SUBSET Sockets
                BY <2>2, <3>1, <3>3, BenchAssumption DEF Leaving, Objects
            <4>2. InUse = {m_handle[o] : o \in S}
                <5> HIDE DEF S
                <5> QED BY <2>1, <2>2, <3>1, <4>1
            <4>3. \A o \in S : m_handle[o] \in Natives /\ kernel[m_handle[o]] = "connected"
                BY <4>1 DEF Kept, IsValid, BenchInv, Inv, TypeOK, ValidMeansReady
            <4>4. m_handle["resultClient"] # m_handle["resultServer"]
                BY <4>1, <4>3 DEF BenchInv, Inv, OwnedOnce, ObjectHolds
            <4> QED BY <2>2, <3>3, <4>2, <4>3, <4>4 DEF PairOrNothing
        <3> QED BY <3>2, <3>3
    <2>3. CASE pc = "exited"
        <3>1. Kept({}) /\ leaving = <<>> /\ NoCall
            BY <2>3 DEF BenchInv, BenchRest, Working, Leaving
        <3>2. InUse = {m_handle[o] : o \in {}}
            BY <2>1, <3>1
        <3> QED BY <2>3, <3>2 DEF PairOrNothing
    <2> QED BY <2>2, <2>3 DEF PairOrNothing
<1> QED BY <1>1, BenchInvariance, PTL

\* What is measured on has the timeouts that end its waits (bench_tcp.cpp:35-61,
\* 92-99).
THEOREM MeasuredAreConfigured == BenchSpec => []MeasuredHasTimeouts
<1>1. BenchInv => MeasuredHasTimeouts
    BY DEF BenchInv, BenchRest, Working, Leaving, Timed, MeasuredHasTimeouts
<1> QED BY <1>1, BenchInvariance, PTL
=============================================================================
