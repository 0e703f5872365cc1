----------------------------- MODULE UdpSocket -----------------------------
(***************************************************************************)
(* net::UdpSocket (include/net/udp_socket.hpp): Bind, SendTo, ReceiveFrom, *)
(* moves and Close, called by several threads on different objects, over a *)
(* network that loses, duplicates and reorders datagrams. A first SendTo   *)
(* on an invalid object works on a local `pending` handle that the system  *)
(* binds to a port of its choice and that becomes the object's only when   *)
(* the send succeeds.                                                      *)
(*                                                                         *)
(* A datagram is its length: what could go wrong is that it is cut, split, *)
(* sent twice or attributed to somebody else. Every SendTo gets a number,  *)
(* and `sends` records what became of it (history).                        *)
(***************************************************************************)
EXTENDS Naturals, Sequences, FiniteSets

CONSTANTS
    Sockets,            \* UdpSocket objects
    Natives,            \* descriptor numbers
    Threads,
    Ports,
    Others,             \* the ports of other programs
    InvalidHandle,
    None,               \* no object, no port
    MaxTransferLength,  \* MaxTransferLength(), INT_MAX in the code
    QueueLimit,         \* datagrams the system buffers per descriptor
    MaxSends,           \* bound: datagrams, sent or to be sent
    MaxStrays,          \* bound: datagrams that other programs send
    MaxDuplicates,      \* bound: datagrams the network duplicates
    MaxInterrupts,      \* bound: native calls interrupted by a signal
    MaxFailures         \* bound: native calls failing or falling short

ASSUME UdpAssumption ==
    /\ InvalidHandle \notin Natives
    /\ None \notin Sockets \cup Ports \cup Others
    /\ Ports \cap Others = {}
    /\ MaxTransferLength \in Nat
    /\ QueueLimit \in Nat \ {0}
    /\ {MaxSends, MaxStrays, MaxDuplicates, MaxInterrupts, MaxFailures} \subseteq Nat

VARIABLES
    m_handle,    \* the handle of every object
    inUse,       \* descriptors the system has given out
    port,        \* the local port of every descriptor that has one
    wire,        \* datagrams in the network
    queue,       \* datagrams waiting at each descriptor
    call,        \* the call each thread is in
    sends,       \* history: every SendTo
    got,         \* history: what ReceiveFrom returned as received
    duplicates,  \* budgets used so far
    interrupts,
    failures

system == <<inUse, port, wire, queue>>
history == <<sends, got>>
budgets == <<duplicates, interrupts, failures>>
vars == <<m_handle, system, call, history, budgets>>

\* Buffer lengths the client passes; one is longer than a transfer may be.
Lengths == 0..(MaxTransferLength + 1)

Endpoints == Ports \cup Others

\* A call: its object, its local SocketHandle, the port of Bind, the number
\* of a SendTo, the buffer length of a ReceiveFrom.
Idle == [step |-> "idle", object |-> None, pending |-> InvalidHandle,
         port |-> None, id |-> 0, length |-> 0]

At(t, step) == call[t].step = step
Busy(o) == \E t \in Threads : call[t].object = o
IsValid(o) == m_handle[o] # InvalidHandle
Free == Natives \ inUse

\* const auto handle = IsValid() ? m_handle.Get() : pending.Get();
Handle(t) == IF IsValid(call[t].object) THEN m_handle[call[t].object] ELSE call[t].pending

Init ==
    /\ m_handle = [o \in Sockets |-> InvalidHandle]
    /\ inUse = {}
    /\ port = [n \in Natives |-> None]
    /\ wire = {}
    /\ queue = [n \in Natives |-> <<>>]
    /\ call = [t \in Threads |-> Idle]
    /\ sends = <<>> /\ got = {}
    /\ duplicates = 0 /\ interrupts = 0 /\ failures = 0

-----------------------------------------------------------------------------
(***************************************************************************)
(* The network and the operating system (external).                        *)
(***************************************************************************)
\* A datagram reaches a descriptor bound to its port; it may come once more.
Deliver(d, n) ==
    /\ n \in inUse /\ port[n] = d.to
    /\ Len(queue[n]) < QueueLimit
    /\ queue' = [queue EXCEPT ![n] = Append(@, d)]
    /\ \/ wire' = wire \ {d} /\ UNCHANGED duplicates
       \/ /\ duplicates < MaxDuplicates
          /\ duplicates' = duplicates + 1
          /\ UNCHANGED wire
    /\ UNCHANGED <<m_handle, inUse, port, call, history, interrupts, failures>>

Lose(d) ==
    /\ wire' = wire \ {d}
    /\ UNCHANGED <<m_handle, inUse, port, queue, call, history, budgets>>

\* Another program sends something to one of the ports.
Stray(q, p, length) ==
    LET id == Len(sends) + 1 IN
    /\ Len(sends) < MaxSends
    /\ Cardinality({i \in DOMAIN sends : sends[i].from \in Others}) < MaxStrays
    /\ sends' = Append(sends, [to |-> p, from |-> q, length |-> length, handed |-> <<length>>,
                               told |-> "nothing", closed |-> TRUE])
    /\ wire' = wire \cup {[id |-> id, from |-> q, to |-> p, size |-> length]}
    /\ UNCHANGED <<m_handle, inUse, port, queue, call, got, budgets>>

Interrupted ==
    /\ interrupts < MaxInterrupts
    /\ interrupts' = interrupts + 1
    /\ UNCHANGED <<duplicates, failures>>

Disturbed ==
    /\ failures < MaxFailures
    /\ failures' = failures + 1
    /\ UNCHANGED <<duplicates, interrupts>>

\* A native call fails because it must, or for a reason of the system's own.
FailsIf(condition) == (condition /\ UNCHANGED budgets) \/ Disturbed

Unbound == {p \in Ports : \A n \in Natives : port[n] # p}

\* ::sendto hands over `count` bytes of datagram id; a descriptor without a
\* port gets one first.
Hand(n, id, count) ==
    \E p \in IF port[n] = None THEN Unbound ELSE {port[n]} :
        /\ port' = [port EXCEPT ![n] = p]
        /\ wire' = wire \cup {[id |-> id, from |-> p, to |-> sends[id].to, size |-> count]}
        /\ sends' = [sends EXCEPT ![id].from = p, ![id].handed = Append(@, count)]
        /\ UNCHANGED <<inUse, queue>>

\* The system takes descriptor n back.
Freed(n) ==
    /\ inUse' = inUse \ {n}
    /\ port' = [port EXCEPT ![n] = None]
    /\ queue' = [queue EXCEPT ![n] = <<>>]
    /\ UNCHANGED wire

-----------------------------------------------------------------------------
Goes(t, step) == call' = [call EXCEPT ![t].step = step]

Return(t) == call' = [call EXCEPT ![t] = Idle]

\* What a SendTo reports to its caller (history).
Told(t, answer) ==
    IF call[t].id = 0 THEN sends ELSE [sends EXCEPT ![call[t].id].told = answer]

Begins(t, start) ==
    /\ call' = [call EXCEPT ![t] = start]
    /\ UNCHANGED <<m_handle, system, got, budgets>>

\* Bind(endpoint) on an invalid object; a valid one is refused.
Bind(t, o, p) ==
    /\ At(t, "idle") /\ ~Busy(o) /\ ~IsValid(o)
    /\ Begins(t, [Idle EXCEPT !.step = "create", !.object = o, !.port = p])
    /\ UNCHANGED sends

\* The test of both transfers: an int must hold the length.
Transferable(length) == length <= MaxTransferLength

\* Slip: every SendTo works on a socket of its own.
SendToAlwaysCreates(t, o, p, length) ==
    /\ At(t, "idle") /\ ~Busy(o)
    /\ Len(sends) < MaxSends
    /\ Transferable(length)
    /\ Begins(t, [Idle EXCEPT !.step = "create", !.object = o, !.id = Len(sends) + 1])
    /\ sends' = Append(sends, [to |-> p, from |-> None, length |-> length, handed |-> <<>>,
                               told |-> "nothing", closed |-> FALSE])

\* SendTo(buffer, destination): a too long buffer is refused, an invalid
\* object needs a socket first.
SendTo(t, o, p, length) ==
    /\ At(t, "idle") /\ ~Busy(o)
    /\ Len(sends) < MaxSends
    /\ Transferable(length)
    /\ Begins(t, [Idle EXCEPT !.step = IF IsValid(o) THEN "send" ELSE "create",
                              !.object = o, !.id = Len(sends) + 1])
    /\ sends' = Append(sends, [to |-> p, from |-> None, length |-> length, handed |-> <<>>,
                               told |-> "nothing", closed |-> FALSE])

\* ReceiveFrom(buffer): an invalid object and a too long buffer are refused.
ReceiveFrom(t, o, length) ==
    /\ At(t, "idle") /\ ~Busy(o) /\ IsValid(o)
    /\ Transferable(length)
    /\ Begins(t, [Idle EXCEPT !.step = "receive", !.object = o, !.length = length])
    /\ UNCHANGED sends

\* detail::CreateSocket, for Bind and for a first SendTo.
Create(t) ==
    /\ At(t, "create")
    /\ \/ \E n \in Free :
          /\ inUse' = inUse \cup {n}
          /\ call' = [call EXCEPT ![t].pending = n,
                          ![t].step = IF call[t].id = 0 THEN "bind" ELSE "send"]
          /\ UNCHANGED budgets
       \/ Goes(t, "failed") /\ UNCHANGED inUse /\ FailsIf(Free = {})
    /\ UNCHANGED <<m_handle, port, wire, queue, history>>

\* ::bind.
NativeBind(t) ==
    /\ At(t, "bind")
    /\ \/ /\ call[t].port \in Unbound
          /\ port' = [port EXCEPT ![call[t].pending] = call[t].port]
          /\ Goes(t, "adopt")
          /\ UNCHANGED budgets
       \/ /\ Goes(t, "failed")
          /\ FailsIf(call[t].port \notin Unbound)
          /\ UNCHANGED port
    /\ UNCHANGED <<m_handle, inUse, wire, queue, history>>

\* Slip: a short count goes round the loop again with the rest.
SendsTheRest(t) ==
    /\ At(t, "send")
    /\ \/ /\ Hand(Handle(t), call[t].id, sends[call[t].id].length)
          /\ Goes(t, "adopt")
          /\ UNCHANGED budgets
       \/ \E count \in 0..(sends[call[t].id].length - 1) :
          /\ Hand(Handle(t), call[t].id, count)
          /\ Disturbed
          /\ UNCHANGED call
    /\ UNCHANGED <<m_handle, got>>

\* ::sendto: the whole datagram, part of it, nothing, or an interruption
\* that the loop answers by trying again.
NativeSendTo(t) ==
    LET id == call[t].id
        length == sends[id].length IN
    /\ At(t, "send")
    /\ \/ /\ Hand(Handle(t), id, length)
          /\ Goes(t, "adopt")
          /\ UNCHANGED budgets
       \/ \E count \in 0..(length - 1) :
          /\ Hand(Handle(t), id, count)
          /\ Goes(t, "failed")
          /\ Disturbed
       \/ /\ Goes(t, "failed")
          /\ FailsIf(port[Handle(t)] = None /\ Unbound = {})
          /\ UNCHANGED <<system, sends>>
       \/ Interrupted /\ UNCHANGED <<call, system, sends>>
    /\ UNCHANGED <<m_handle, got>>

\* m_handle = std::move(handle) in Bind, and in SendTo if there is a pending
\* one; the move assignment closes what the object held. Then Success.
Adopt(t) ==
    LET o == call[t].object IN
    /\ At(t, "adopt")
    /\ m_handle' = IF call[t].pending = InvalidHandle THEN m_handle
                   ELSE [m_handle EXCEPT ![o] = call[t].pending]
    /\ IF call[t].pending # InvalidHandle /\ IsValid(o)
       THEN Freed(m_handle[o]) ELSE UNCHANGED system
    /\ sends' = Told(t, "success")
    /\ Return(t)
    /\ UNCHANGED <<got, budgets>>

\* Slip: the local handle is released instead of destroyed.
DiscardLeaks(t) ==
    /\ At(t, "failed")
    /\ Return(t)
    /\ UNCHANGED <<m_handle, system, history, budgets>>

\* Failure: the destructor of the local handle closes it.
Discard(t) ==
    /\ At(t, "failed")
    /\ IF call[t].pending = InvalidHandle THEN UNCHANGED system ELSE Freed(call[t].pending)
    /\ sends' = Told(t, "failure")
    /\ Return(t)
    /\ UNCHANGED <<m_handle, got, budgets>>

Received(d) == got' = got \cup {[id |-> d.id, size |-> d.size, sender |-> d.from]}

\* Slip: the datagram is reported as received although MSG_TRUNC is set.
IgnoresTruncation(t, d) ==
    /\ got' = got \cup {[id |-> d.id, sender |-> d.from,
                         size |-> IF d.size > call[t].length THEN call[t].length ELSE d.size]}
    /\ Return(t)

\* What ReceiveFrom makes of datagram d, which is gone from the queue: too
\* long for the buffer (MSG_TRUNC) is a failure, anything else is received.
Report(t, d) ==
    /\ \/ d.size <= call[t].length /\ Received(d)
       \/ d.size > call[t].length /\ UNCHANGED got
    /\ Return(t)

\* ::recvmsg: blocks while nothing is there; an interruption is retried.
NativeReceive(t) ==
    LET n == m_handle[call[t].object] IN
    /\ At(t, "receive")
    /\ \/ /\ queue[n] # <<>>
          /\ queue' = [queue EXCEPT ![n] = Tail(@)]
          /\ Report(t, Head(queue[n]))
          /\ UNCHANGED budgets
       \/ Disturbed /\ Return(t) /\ UNCHANGED <<queue, got>>
       \/ Interrupted /\ UNCHANGED <<queue, call, got>>
    /\ UNCHANGED <<m_handle, inUse, port, wire, sends>>

\* The sends made from object o lose their socket (history).
Orphaned(o) ==
    [id \in DOMAIN sends |->
        [sends[id] EXCEPT !.closed = @ \/ (IsValid(o) /\ sends[id].from = port[m_handle[o]])]]

\* Close() and the destructor.
Close(t, o) ==
    /\ At(t, "idle") /\ ~Busy(o) /\ IsValid(o)
    /\ m_handle' = [m_handle EXCEPT ![o] = InvalidHandle]
    /\ Freed(m_handle[o])
    /\ sends' = Orphaned(o)
    /\ UNCHANGED <<call, got, budgets>>

\* UdpSocket(UdpSocket&&) and operator=(UdpSocket&&).
Move(t, d, s) ==
    /\ At(t, "idle") /\ ~Busy(d) /\ ~Busy(s) /\ d # s
    /\ m_handle' = [m_handle EXCEPT ![d] = m_handle[s], ![s] = InvalidHandle]
    /\ IF IsValid(d) THEN Freed(m_handle[d]) ELSE UNCHANGED system
    /\ sends' = Orphaned(d)
    /\ UNCHANGED <<call, got, budgets>>

Step(t) ==
    Create(t) \/ NativeBind(t) \/ NativeSendTo(t) \/ Adopt(t) \/ Discard(t) \/ NativeReceive(t)

Next ==
    \/ \E t \in Threads :
        \/ Step(t)
        \/ \E o \in Sockets, p \in Ports : Bind(t, o, p)
        \/ \E o \in Sockets, p \in Endpoints, length \in Lengths : SendTo(t, o, p, length)
        \/ \E o \in Sockets, length \in Lengths : ReceiveFrom(t, o, length)
        \/ \E o \in Sockets : Close(t, o)
        \/ \E d, s \in Sockets : Move(t, d, s)
    \/ \E d \in wire : Lose(d) \/ \E n \in Natives : Deliver(d, n)
    \/ \E q \in Others, p \in Ports, length \in 0..MaxTransferLength : Stray(q, p, length)

Spec == Init /\ [][Next]_vars

-----------------------------------------------------------------------------
\* The type of the state (udp_socket.hpp:14-18, 178).
TypeOK ==
    /\ m_handle \in [Sockets -> Natives \cup {InvalidHandle}]
    /\ inUse \subseteq Natives
    /\ port \in [Natives -> Ports \cup {None}]
    /\ \A d \in wire : d.id \in DOMAIN sends /\ {d.from, d.to} \subseteq Endpoints
    /\ \A n \in Natives : Len(queue[n]) <= QueueLimit
    /\ \A t \in Threads : call[t].pending \in inUse \cup {InvalidHandle}
    /\ sends \in Seq([to: Endpoints, from: Endpoints \cup {None}, length: 0..MaxTransferLength,
                      handed: Seq(0..MaxTransferLength), told: {"nothing", "success", "failure"},
                      closed: BOOLEAN])

\* Every descriptor in use has exactly one owner, an object or the local
\* handle of a call, and a valid object is bound: a failed Bind or first
\* SendTo leaves the object invalid and gives its descriptor back
\* (udp_socket.hpp:46-56, 70-79, 100).
OwnedOnce ==
    LET ObjectHolds(o, n) == m_handle[o] = n
        CallHolds(t, n) == call[t].pending = n IN
    /\ \A n \in Natives :
        /\ n \in inUse <=>
              (\E o \in Sockets : ObjectHolds(o, n)) \/ (\E t \in Threads : CallHolds(t, n))
        /\ \A o1, o2 \in Sockets : ObjectHolds(o1, n) /\ ObjectHolds(o2, n) => o1 = o2
        /\ \A t1, t2 \in Threads : CallHolds(t1, n) /\ CallHolds(t2, n) => t1 = t2
        /\ \A o \in Sockets, t \in Threads : ~(ObjectHolds(o, n) /\ CallHolds(t, n))
    /\ \A o \in Sockets : IsValid(o) => port[m_handle[o]] # None

\* One SendTo hands at most one datagram to the system, and success means
\* that it was the whole buffer: no retry after an interruption or a short
\* count sends anything twice or in pieces (udp_socket.hpp:60, 85-101).
OneDatagramPerSend ==
    \A id \in DOMAIN sends :
        /\ Len(sends[id].handed) <= 1
        /\ sends[id].told = "success" => sends[id].handed = <<sends[id].length>>

\* Whatever the network did, a datagram reported as received is one that was
\* sent, uncut, with the port it was sent from: truncation is never success
\* (udp_socket.hpp:105-108, 144-149).
ReceivedAsSent ==
    \A g \in got : g.size = Head(sends[g.id].handed) /\ g.sender = sends[g.id].from

\* A receiver can answer: until the client closes the sending socket or moves
\* another one over it, the port of a successful SendTo belongs to an object,
\* also when that SendTo created the socket and when the object was moved
\* since (udp_socket.hpp:61-62, 70-79, 100).
SenderCanBeAnswered ==
    \A id \in DOMAIN sends :
        sends[id].told = "success" /\ ~sends[id].closed =>
            \E o \in Sockets : IsValid(o) /\ port[m_handle[o]] = sends[id].from

\* Descriptors and ports together: who can be answered owns what it sent from
\* (udp_socket.hpp:38-101, 165).
SocketsOwned == TypeOK /\ OwnedOnce /\ SenderCanBeAnswered
=============================================================================
