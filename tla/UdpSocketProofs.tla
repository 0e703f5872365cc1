-------------------------- MODULE UdpSocketProofs --------------------------
(***************************************************************************)
(* Proofs about UdpSocket for any sets of sockets, descriptors, threads    *)
(* and ports and any bounds. What the properties promise about finished    *)
(* sends and received datagrams follows from what is true of the calls     *)
(* under way (CallShape, CallsApart, SendShape) and of the datagrams in    *)
(* the network and in the queues (Truthful). The theorems about UdpEcho    *)
(* come last and rest on those; the theorems about Spec do not use the     *)
(* assumption of UdpEcho.                                                  *)
(***************************************************************************)
EXTENDS UdpEcho, SequenceTheorems, TLAPS

SendRecords ==
    [to: Endpoints, from: Endpoints \cup {None}, length: 0..MaxTransferLength,
     handed: Seq(0..MaxTransferLength), told: {"nothing", "success", "failure"}, closed: BOOLEAN]
Datagrams == [id: Nat, from: Endpoints, to: Endpoints, size: Nat]
Receipts == [id: Nat, size: Nat, sender: Endpoints]
CallRecords ==
    [step: {"idle", "create", "bind", "send", "adopt", "failed", "receive"},
     object: Sockets \cup {None}, pending: Natives \cup {InvalidHandle},
     port: Ports \cup {None}, id: Nat, length: Nat]

\* What TypeOK leaves open, because no property speaks about it.
Shapes ==
    /\ call \in [Threads -> CallRecords]
    /\ wire \subseteq Datagrams
    /\ queue \in [Natives -> Seq(Datagrams)]
    /\ got \subseteq Receipts

\* A call creates a socket for an invalid object, or works on a valid one with
\* nothing pending (udp_socket.hpp:42, 70-81, 121).
Stage(c) ==
    \/ /\ c.step = "create" /\ c.pending = InvalidHandle /\ ~IsValid(c.object)
       /\ c.id = 0 => c.port \in Ports
    \/ /\ c.step = "bind" /\ c.id = 0 /\ c.port \in Ports
       /\ c.pending \in Natives /\ ~IsValid(c.object)
    \/ /\ c.step \in {"send", "adopt"}
       /\ c.step = "send" => c.id # 0
       /\ \/ /\ c.pending \in Natives /\ ~IsValid(c.object)
             /\ c.step = "adopt" => port[c.pending] # None
          \/ c.pending = InvalidHandle /\ IsValid(c.object)
    \/ c.step = "receive" /\ c.id = 0 /\ c.pending = InvalidHandle /\ IsValid(c.object)
    \/ c.step = "failed"

CallShape == \A t \in Threads : call[t] = Idle \/ (call[t].object \in Sockets /\ Stage(call[t]))

\* Two calls have neither an object nor a send in common.
CallsApart ==
    \A t1, t2 \in Threads : t1 # t2 =>
        /\ call[t1].object = call[t2].object => call[t1].object = None
        /\ call[t1].id = call[t2].id => call[t1].id = 0

\* A send under way has not been reported, has handed nothing over and has no
\* port before ::sendto, and one datagram of its length after it.
SendShape ==
    \A t \in Threads : call[t].id # 0 =>
        LET send == sends[call[t].id] IN
        /\ call[t].id \in DOMAIN sends
        /\ send.told = "nothing"
        /\ call[t].step \in {"create", "send"} => send.handed = <<>> /\ send.from = None
        /\ call[t].step = "adopt" => send.handed = <<send.length>> /\ send.from = port[Handle(t)]

\* Datagram d is what its send handed over.
IsSent(d) ==
    /\ d.id \in DOMAIN sends
    /\ sends[d.id].handed = <<d.size>> /\ sends[d.id].from = d.from

Truthful ==
    /\ \A d \in wire : IsSent(d)
    /\ \A n \in Natives : \A i \in 1..Len(queue[n]) : IsSent(queue[n][i])
    /\ \A g \in got : /\ g.id \in DOMAIN sends
                      /\ sends[g.id].handed = <<g.size>> /\ sends[g.id].from = g.sender

Inv ==
    /\ TypeOK /\ Shapes
    /\ OwnedOnce /\ CallShape /\ CallsApart
    /\ SendShape /\ Truthful /\ OneDatagramPerSend /\ SenderCanBeAnswered

-----------------------------------------------------------------------------
LEMMA IdleType == Idle \in CallRecords
BY DEF Idle, CallRecords

LEMMA SendsType == TypeOK => sends \in Seq(SendRecords) /\ DOMAIN sends = 1..Len(sends) /\ Len(sends) \in Nat
BY LenProperties DEF TypeOK, SendRecords

\* Writing one record of the history.
LEMMA SendsExcept ==
    ASSUME TypeOK, NEW id \in DOMAIN sends, NEW r \in SendRecords,
           sends' = [sends EXCEPT ![id] = r]
    PROVE  /\ sends' \in Seq(SendRecords)
           /\ DOMAIN sends' = DOMAIN sends
           /\ sends'[id] = r
           /\ \A i \in DOMAIN sends \ {id} : sends'[i] = sends[i]
<1>1. sends \in Seq(SendRecords) /\ id \in 1..Len(sends)
    BY SendsType
<1>2. [sends EXCEPT ![id] = r] \in Seq(SendRecords)
    BY <1>1, ExceptSeq
<1> QED BY <1>2

\* What may happen to the history: a send keeps its destination and length, and
\* once it has handed a datagram over, that and where it came from.
SentStays ==
    /\ DOMAIN sends \subseteq DOMAIN sends'
    /\ \A id \in DOMAIN sends :
        /\ sends'[id].to = sends[id].to /\ sends'[id].length = sends[id].length
        /\ sends'[id].from \in Others <=> sends[id].from \in Others
        /\ sends[id].handed # <<>> =>
              sends'[id].handed = sends[id].handed /\ sends'[id].from = sends[id].from

\* A new send is the last of the history (udp_socket.hpp:63-68).
LEMMA NewSend ==
    ASSUME TypeOK, NEW p \in Endpoints, NEW length \in 0..MaxTransferLength,
           sends' = Append(sends, [to |-> p, from |-> None, length |-> length, handed |-> <<>>,
                                   told |-> "nothing", closed |-> FALSE])
    PROVE  /\ sends' \in Seq(SendRecords)
           /\ DOMAIN sends' = DOMAIN sends \cup {Len(sends) + 1}
           /\ Len(sends) + 1 \notin DOMAIN sends /\ Len(sends) + 1 # 0
           /\ \A i \in DOMAIN sends : sends'[i] = sends[i]
           /\ sends'[Len(sends) + 1].handed = <<>> /\ sends'[Len(sends) + 1].told = "nothing"
           /\ sends'[Len(sends) + 1].from = None /\ sends'[Len(sends) + 1].to = p
           /\ sends'[Len(sends) + 1].length = length
<1> DEFINE r == [to |-> p, from |-> None, length |-> length, handed |-> <<>>,
                 told |-> "nothing", closed |-> FALSE]
<1>1. r \in SendRecords
    BY EmptySeq DEF SendRecords
<1>2. sends \in Seq(SendRecords) /\ DOMAIN sends = 1..Len(sends) /\ Len(sends) \in Nat
    BY SendsType
<1> HIDE DEF r
<1>3. /\ sends' \in Seq(SendRecords) /\ Len(sends') = Len(sends) + 1
      /\ \A i \in 1..Len(sends) : sends'[i] = sends[i]
      /\ sends'[Len(sends) + 1] = r
    BY <1>1, <1>2, AppendProperties DEF r
<1>4. DOMAIN sends' = 1..Len(sends')
    BY <1>3, LenProperties
<1> QED BY <1>2, <1>3, <1>4 DEF r

\* The report of a call to its caller changes `told` of its own send.
LEMMA ToldEffect ==
    ASSUME Inv, NEW t \in Threads, NEW answer \in {"success", "failure"}, sends' = Told(t, answer)
    PROVE  /\ sends' \in Seq(SendRecords)
           /\ DOMAIN sends' = DOMAIN sends
           /\ \A i \in DOMAIN sends :
                 /\ sends'[i].to = sends[i].to
                 /\ sends'[i].length = sends[i].length /\ sends'[i].handed = sends[i].handed
                 /\ sends'[i].from = sends[i].from /\ sends'[i].closed = sends[i].closed
                 /\ sends'[i].told = IF i = call[t].id THEN answer ELSE sends[i].told
<1>1. CASE call[t].id = 0
    BY <1>1, SendsType DEF Told, Inv
<1>2. CASE call[t].id # 0
    <2> DEFINE id == call[t].id
               r == [sends[id] EXCEPT !.told = answer]
    <2>1. id \in DOMAIN sends
        BY <1>2 DEF Inv, SendShape
    <2>2. sends[id] \in SendRecords
        BY <2>1, SendsType, ElementOfSeq DEF Inv
    <2>3. /\ r \in SendRecords
          /\ r.to = sends[id].to /\ r.length = sends[id].length /\ r.handed = sends[id].handed
          /\ r.from = sends[id].from /\ r.closed = sends[id].closed /\ r.told = answer
        BY <2>2 DEF SendRecords
    <2>4. sends' = [sends EXCEPT ![id] = r]
        BY <1>2 DEF Told
    <2> HIDE DEF r
    <2>5. /\ sends' \in Seq(SendRecords) /\ DOMAIN sends' = DOMAIN sends
          /\ sends'[id] = r /\ \A i \in DOMAIN sends \ {id} : sends'[i] = sends[i]
        BY <2>1, <2>3, <2>4, SendsExcept DEF Inv
    <2> QED BY <2>3, <2>5
<1> QED BY <1>1, <1>2

\* Closing an object marks the sends made from it.
LEMMA OrphanedEffect ==
    ASSUME Inv, NEW o \in Sockets, sends' = Orphaned(o)
    PROVE  /\ sends' \in Seq(SendRecords)
           /\ DOMAIN sends' = DOMAIN sends
           /\ \A i \in DOMAIN sends :
                 /\ sends'[i].to = sends[i].to
                 /\ sends'[i].length = sends[i].length /\ sends'[i].handed = sends[i].handed
                 /\ sends'[i].from = sends[i].from /\ sends'[i].told = sends[i].told
                 /\ sends[i].closed => sends'[i].closed
                 /\ IsValid(o) /\ sends[i].from = port[m_handle[o]] => sends'[i].closed
<1>1. /\ DOMAIN sends = 1..Len(sends) /\ Len(sends) \in Nat
      /\ \A i \in DOMAIN sends : sends[i] \in SendRecords
    BY SendsType, ElementOfSeq DEF Inv
<1> DEFINE closed(i) == sends[i].closed \/ (IsValid(o) /\ sends[i].from = port[m_handle[o]])
<1>2. ASSUME NEW i \in DOMAIN sends
      PROVE  /\ [sends[i] EXCEPT !.closed = closed(i)] \in SendRecords
             /\ sends'[i] = [sends[i] EXCEPT !.closed = closed(i)]
    BY <1>1 DEF SendRecords, Orphaned
<1>3. sends' \in [1..Len(sends) -> SendRecords]
    BY <1>1, <1>2 DEF Orphaned
<1>4. sends' \in Seq(SendRecords)
    BY <1>1, <1>3, SeqDef
<1>5. DOMAIN sends' = DOMAIN sends
    BY <1>1, <1>3
<1>6. ASSUME NEW i \in DOMAIN sends
      PROVE  /\ sends'[i].to = sends[i].to
             /\ sends'[i].length = sends[i].length /\ sends'[i].handed = sends[i].handed
             /\ sends'[i].from = sends[i].from /\ sends'[i].told = sends[i].told
    <2>1. PICK c : sends'[i] = [sends[i] EXCEPT !.closed = c]
        BY <1>2
    <2> QED BY <1>1, <2>1 DEF SendRecords
<1>7. ASSUME NEW i \in DOMAIN sends, closed(i)
      PROVE  sends'[i].closed
    <2>1. closed(i) = TRUE
        BY <1>1, <1>7 DEF SendRecords
    <2>2. sends'[i] = [sends[i] EXCEPT !.closed = TRUE]
        BY <1>2, <2>1
    <2> QED BY <1>1, <2>2 DEF SendRecords
<1> QED BY <1>4, <1>5, <1>6, <1>7

\* ::sendto writes down the datagram and the port it went out from.
LEMMA HandEffect ==
    ASSUME Inv, NEW t \in Threads, At(t, "send"), NEW n \in Natives, NEW count \in 0..MaxTransferLength,
           Hand(n, call[t].id, count)
    PROVE  /\ sends' \in Seq(SendRecords)
           /\ DOMAIN sends' = DOMAIN sends
           /\ call[t].id \in DOMAIN sends
           /\ \A i \in DOMAIN sends \ {call[t].id} : sends'[i] = sends[i]
           /\ sends'[call[t].id].handed = <<count>>
           /\ sends'[call[t].id].told = "nothing"
           /\ sends'[call[t].id].to = sends[call[t].id].to
           /\ sends'[call[t].id].length = sends[call[t].id].length
           /\ sends'[call[t].id].from \in Ports
           /\ port' = [port EXCEPT ![n] = sends'[call[t].id].from]
           /\ port[n] # None => sends'[call[t].id].from = port[n]
           /\ wire' = wire \cup {[id |-> call[t].id, from |-> sends'[call[t].id].from,
                                  to |-> sends[call[t].id].to, size |-> count]}
           /\ sends[call[t].id].to \in Endpoints
           /\ UNCHANGED <<inUse, queue>>
<1> DEFINE id == call[t].id
<1>1. id # 0 /\ id \in DOMAIN sends /\ sends[id].handed = <<>> /\ sends[id].told = "nothing"
    BY DEF Inv, CallShape, Stage, SendShape, At, Idle
<1>2. sends[id] \in SendRecords
    BY <1>1, SendsType, ElementOfSeq DEF Inv
<1>3. PICK p \in IF port[n] = None THEN Unbound ELSE {port[n]} :
        /\ port' = [port EXCEPT ![n] = p]
        /\ wire' = wire \cup {[id |-> id, from |-> p, to |-> sends[id].to, size |-> count]}
        /\ sends' = [sends EXCEPT ![id].from = p, ![id].handed = Append(@, count)]
        /\ UNCHANGED <<inUse, queue>>
    BY DEF Hand
<1>4. p \in Ports /\ (port[n] # None => p = port[n])
    BY <1>3 DEF Unbound, Inv, TypeOK
<1> DEFINE r == [sends[id] EXCEPT !.from = p, !.handed = <<count>>]
<1>5. Append(sends[id].handed, count) = <<count>> /\ <<count>> \in Seq(0..MaxTransferLength)
    BY <1>1
<1>6. /\ r \in SendRecords
      /\ r.from = p /\ r.handed = <<count>> /\ r.told = "nothing" /\ r.length = sends[id].length
      /\ r.to = sends[id].to
    BY <1>1, <1>2, <1>4, <1>5 DEF SendRecords, Endpoints
<1>7. sends' = [sends EXCEPT ![id] = r]
    BY <1>1, <1>2, <1>3, <1>5, SendsType DEF Inv, SendRecords
<1>8. sends[id].to \in Endpoints
    BY <1>2 DEF SendRecords
<1> HIDE DEF r
<1>9. /\ sends' \in Seq(SendRecords) /\ DOMAIN sends' = DOMAIN sends
      /\ sends'[id] = r /\ \A i \in DOMAIN sends \ {id} : sends'[i] = sends[i]
    BY <1>1, <1>6, <1>7, SendsExcept DEF Inv
<1> QED BY <1>1, <1>3, <1>4, <1>6, <1>8, <1>9

-----------------------------------------------------------------------------
Typed ==
    /\ m_handle \in [Sockets -> Natives \cup {InvalidHandle}]
    /\ inUse \subseteq Natives
    /\ port \in [Natives -> Ports \cup {None}]
    /\ sends \in Seq(SendRecords)
    /\ \A n \in Natives : Len(queue[n]) <= QueueLimit
    /\ Shapes

Ownership == OwnedOnce /\ CallShape /\ CallsApart
Histories == SendShape /\ Truthful /\ OneDatagramPerSend /\ SenderCanBeAnswered
Whole == Typed /\ Ownership /\ Histories

\* The rest of TypeOK follows from ownership and truthfulness.
LEMMA WholeIsInv == Whole => Inv
<1> SUFFICES ASSUME Typed, Ownership, Histories PROVE Inv
    BY DEF Whole
<1>1. \A t \in Threads : call[t].pending \in inUse \cup {InvalidHandle}
    BY DEF Typed, Shapes, CallRecords, Ownership, OwnedOnce
<1>2. \A d \in wire : d.id \in DOMAIN sends /\ {d.from, d.to} \subseteq Endpoints
    BY DEF Typed, Shapes, Datagrams, Histories, Truthful, IsSent
<1>3. TypeOK
    BY <1>1, <1>2 DEF TypeOK, Typed, SendRecords
<1> QED BY <1>3 DEF Inv, Typed, Ownership, Histories

LEMMA InvIsTyped == Inv => Typed
BY DEF Inv, Typed, TypeOK, SendRecords

\* What has been sent stays true of every datagram and receipt.
LEMMA TruthStays ==
    ASSUME Inv, SentStays
    PROVE  /\ \A d \in wire : IsSent(d)'
           /\ \A n \in Natives : \A i \in 1..Len(queue[n]) :
                 LET d == queue[n][i] IN
                 d.id \in DOMAIN sends' /\ sends'[d.id].handed = <<d.size>> /\ sends'[d.id].from = d.from
           /\ \A g \in got : /\ g.id \in DOMAIN sends'
                             /\ sends'[g.id].handed = <<g.size>> /\ sends'[g.id].from = g.sender
<1>1. \A x : <<x>> # <<>>
    OBVIOUS
<1>2. ASSUME NEW d, IsSent(d)
      PROVE  d.id \in DOMAIN sends' /\ sends'[d.id].handed = <<d.size>> /\ sends'[d.id].from = d.from
    BY <1>1, <1>2 DEF IsSent, SentStays
<1>3. \A d \in wire : IsSent(d)'
    BY <1>2 DEF Inv, Truthful, IsSent
<1>4. ASSUME NEW n \in Natives, NEW i \in 1..Len(queue[n])
      PROVE  IsSent(queue[n][i])
    BY DEF Inv, Truthful
<1>5. ASSUME NEW g \in got
      PROVE  /\ g.id \in DOMAIN sends'
             /\ sends'[g.id].handed = <<g.size>> /\ sends'[g.id].from = g.sender
    BY <1>1 DEF Inv, Truthful, SentStays
<1> QED BY <1>2, <1>3, <1>4, <1>5

\* Neither the network's datagrams nor the receipts change.
LEMMA TruthfulStays ==
    ASSUME Inv, SentStays, wire' \subseteq wire, got' = got,
           \A n \in Natives : queue'[n] \in {queue[n], <<>>}
    PROVE  Truthful'
BY TruthStays DEF Truthful, IsSent

\* Starting a call on object o that nobody is working on.
LEMMA BeginsOwnership ==
    ASSUME Inv, NEW t \in Threads, NEW o \in Sockets, NEW start \in CallRecords,
           At(t, "idle"), ~Busy(o), Begins(t, start),
           start.object = o, start.pending = InvalidHandle, Stage(start),
           start.id # 0 => start.id \notin DOMAIN sends
    PROVE  Ownership'
<1>1. /\ UNCHANGED <<m_handle, inUse, port, wire, queue, got>>
      /\ call'[t] = start /\ \A u \in Threads \ {t} : call'[u] = call[u]
    BY DEF Begins, system, Inv, Shapes
<1>2. call[t] = Idle
    BY DEF Inv, CallShape, Stage, At
<1>3. OwnedOnce'
    BY <1>1, <1>2, UdpAssumption DEF Inv, OwnedOnce, Idle, IsValid
<1>4. CallShape'
    BY <1>1 DEF Inv, CallShape, Stage, IsValid
<1>5. CallsApart'
    BY <1>1 DEF Inv, CallsApart, SendShape, Busy
<1> QED BY <1>3, <1>4, <1>5 DEF Ownership

LEMMA BindStep ==
    ASSUME Inv, NEW t \in Threads, NEW o \in Sockets, NEW p \in Ports, Bind(t, o, p)
    PROVE  Whole'
<1> DEFINE start == [Idle EXCEPT !.step = "create", !.object = o, !.port = p]
<1>1. /\ start \in CallRecords /\ start.object = o /\ start.pending = InvalidHandle /\ start.id = 0
      /\ start.step = "create" /\ start.port = p
    BY DEF Idle, CallRecords
<1>2. Begins(t, start) /\ At(t, "idle") /\ ~Busy(o) /\ ~IsValid(o) /\ sends' = sends
    BY DEF Bind
<1> HIDE DEF start
<1>3. /\ UNCHANGED <<m_handle, inUse, port, wire, queue, got, sends>>
      /\ call' = [call EXCEPT ![t] = start]
      /\ call'[t] = start /\ \A u \in Threads \ {t} : call'[u] = call[u]
    BY <1>2 DEF Begins, system, Inv, Shapes
<1>4. Ownership'
    BY <1>1, <1>2, BeginsOwnership DEF Stage
<1>5. Typed'
    BY <1>1, <1>3, InvIsTyped DEF Typed, Shapes
<1>6. Histories'
    <2>1. SendShape'
        BY <1>1, <1>3 DEF Inv, SendShape, Handle, IsValid
    <2>2. Truthful'
        BY <1>3, TruthfulStays DEF SentStays
    <2>3. OneDatagramPerSend' /\ SenderCanBeAnswered'
        BY <1>3 DEF Inv, OneDatagramPerSend, SenderCanBeAnswered, IsValid
    <2> QED BY <2>1, <2>2, <2>3 DEF Histories
<1> QED BY <1>4, <1>5, <1>6 DEF Whole

LEMMA ReceiveFromStep ==
    ASSUME Inv, NEW t \in Threads, NEW o \in Sockets, NEW length \in Lengths, ReceiveFrom(t, o, length)
    PROVE  Whole'
<1> DEFINE start == [Idle EXCEPT !.step = "receive", !.object = o, !.length = length]
<1>0. length \in Nat
    BY UdpAssumption DEF Lengths
<1>1. /\ start \in CallRecords /\ start.object = o /\ start.pending = InvalidHandle /\ start.id = 0
      /\ start.step = "receive"
    BY <1>0 DEF Idle, CallRecords
<1>2. Begins(t, start) /\ At(t, "idle") /\ ~Busy(o) /\ IsValid(o) /\ sends' = sends
    BY DEF ReceiveFrom
<1> HIDE DEF start
<1>3. /\ UNCHANGED <<m_handle, inUse, port, wire, queue, got, sends>>
      /\ call' = [call EXCEPT ![t] = start]
      /\ call'[t] = start /\ \A u \in Threads \ {t} : call'[u] = call[u]
    BY <1>2 DEF Begins, system, Inv, Shapes
<1>4. Ownership'
    BY <1>1, <1>2, BeginsOwnership DEF Stage
<1>5. Typed'
    BY <1>1, <1>3, InvIsTyped DEF Typed, Shapes
<1>6. Histories'
    <2>1. SendShape'
        BY <1>1, <1>3 DEF Inv, SendShape, Handle, IsValid
    <2>2. Truthful'
        BY <1>3, TruthfulStays DEF SentStays
    <2>3. OneDatagramPerSend' /\ SenderCanBeAnswered'
        BY <1>3 DEF Inv, OneDatagramPerSend, SenderCanBeAnswered, IsValid
    <2> QED BY <2>1, <2>2, <2>3 DEF Histories
<1> QED BY <1>4, <1>5, <1>6 DEF Whole

LEMMA SendToStep ==
    ASSUME Inv, NEW t \in Threads, NEW o \in Sockets, NEW p \in Endpoints, NEW length \in Lengths,
           SendTo(t, o, p, length)
    PROVE  Whole'
<1> DEFINE id == Len(sends) + 1
           start == [Idle EXCEPT !.step = IF IsValid(o) THEN "send" ELSE "create",
                                 !.object = o, !.id = id]
<1>1. length \in 0..MaxTransferLength
    BY UdpAssumption DEF SendTo, Transferable, Lengths
<1>2. /\ sends' \in Seq(SendRecords)
      /\ DOMAIN sends' = DOMAIN sends \cup {id} /\ id \notin DOMAIN sends /\ id # 0
      /\ \A i \in DOMAIN sends : sends'[i] = sends[i]
      /\ sends'[id].handed = <<>> /\ sends'[id].told = "nothing" /\ sends'[id].from = None
    BY <1>1, NewSend DEF SendTo, Inv
<1>3. id \in Nat
    BY SendsType DEF Inv
<1> HIDE DEF id
<1>4. /\ start \in CallRecords /\ start.object = o /\ start.pending = InvalidHandle /\ start.id = id
      /\ start.step = IF IsValid(o) THEN "send" ELSE "create"
    BY <1>3 DEF Idle, CallRecords
<1>5. Begins(t, start) /\ At(t, "idle") /\ ~Busy(o)
    BY DEF SendTo, id
<1> HIDE DEF start
<1>6. /\ UNCHANGED <<m_handle, inUse, port, wire, queue, got>>
      /\ call' = [call EXCEPT ![t] = start]
      /\ call'[t] = start /\ \A u \in Threads \ {t} : call'[u] = call[u]
    BY <1>5 DEF Begins, system, Inv, Shapes
<1>7. Ownership'
    BY <1>2, <1>4, <1>5, BeginsOwnership DEF Stage
<1>8. Typed'
    BY <1>2, <1>4, <1>6, InvIsTyped DEF Typed, Shapes
<1>9. Histories'
    <2>1. SendShape'
        BY <1>2, <1>4, <1>6 DEF Inv, SendShape, Handle, IsValid
    <2>2. Truthful'
        BY <1>2, <1>6, TruthfulStays DEF SentStays
    <2>3. OneDatagramPerSend'
        BY <1>2 DEF Inv, OneDatagramPerSend
    <2>4. SenderCanBeAnswered'
        BY <1>2, <1>6 DEF Inv, SenderCanBeAnswered, IsValid
    <2> QED BY <2>1, <2>2, <2>3, <2>4 DEF Histories
<1> QED BY <1>7, <1>8, <1>9 DEF Whole

-----------------------------------------------------------------------------
\* A call that goes on keeps its object and its send.
Keeps(t, h, step) ==
    /\ \A u \in Threads \ {t} : call'[u] = call[u]
    /\ call'[t].object = call[t].object /\ call'[t].id = call[t].id
    /\ call'[t].port = call[t].port /\ call'[t].length = call[t].length
    /\ call'[t].pending = h /\ call'[t].step = step
    /\ call' \in [Threads -> CallRecords]

LEMMA GoesOn ==
    ASSUME Inv, NEW t \in Threads, NEW step \in {"adopt", "failed"}, Goes(t, step)
    PROVE  Keeps(t, call[t].pending, step)
<1>1. call \in [Threads -> CallRecords] /\ call[t] \in CallRecords
    BY DEF Inv, Shapes
<1>2. [call[t] EXCEPT !.step = step] \in CallRecords
    BY <1>1 DEF CallRecords
<1>3. call' = [call EXCEPT ![t] = [call[t] EXCEPT !.step = step]]
    BY <1>1 DEF Goes
<1> QED BY <1>1, <1>2, <1>3 DEF CallRecords, Keeps

\* Failing moves nothing: what the call holds is for Discard.
LEMMA FailsStep ==
    ASSUME Inv, NEW t \in Threads, call[t] # Idle, Goes(t, "failed"),
           UNCHANGED <<m_handle, inUse, port, wire, queue, sends, got>>
    PROVE  Whole'
<1>1. Keeps(t, call[t].pending, "failed")
    BY GoesOn
<1>2. Typed'
    BY <1>1, InvIsTyped DEF Typed, Shapes, Keeps
<1>3. OwnedOnce'
    BY <1>1 DEF Inv, OwnedOnce, IsValid, Keeps
<1>4. CallShape'
    BY <1>1 DEF Inv, CallShape, Stage, IsValid, Keeps
<1>5. CallsApart'
    BY <1>1 DEF Inv, CallsApart, Keeps
<1>6. SendShape'
    BY <1>1 DEF Inv, SendShape, Handle, IsValid, Keeps
<1>7. Truthful'
    BY TruthfulStays DEF SentStays
<1>8. OneDatagramPerSend' /\ SenderCanBeAnswered'
    BY DEF Inv, OneDatagramPerSend, SenderCanBeAnswered, IsValid
<1> QED BY <1>2, <1>3, <1>4, <1>5, <1>6, <1>7, <1>8 DEF Whole, Ownership, Histories

LEMMA CreateStep ==
    ASSUME Inv, NEW t \in Threads, Create(t)
    PROVE  Whole'
<1>1. call[t] # Idle
    BY DEF Create, At, Idle
<1>2. CASE Goes(t, "failed") /\ UNCHANGED inUse
    BY <1>1, <1>2, FailsStep DEF Create, history
<1>3. ASSUME NEW n \in Free, inUse' = inUse \cup {n},
             call' = [call EXCEPT ![t].pending = n, ![t].step = IF call[t].id = 0 THEN "bind" ELSE "send"]
      PROVE  Whole'
    <2> DEFINE step == IF call[t].id = 0 THEN "bind" ELSE "send"
    <2>1. n \in Natives /\ n \notin inUse
        BY <1>3 DEF Free
    <2>2. Keeps(t, n, step)
        <3>1. step \in {"bind", "send"} /\ call[t] \in CallRecords
            BY DEF Inv, Shapes
        <3> HIDE DEF step
        <3>2. [call[t] EXCEPT !.pending = n, !.step = step] \in CallRecords
            BY <2>1, <3>1 DEF CallRecords
        <3>3. call' = [call EXCEPT ![t] = [call[t] EXCEPT !.pending = n, !.step = step]]
            BY <1>3, <3>1 DEF Inv, Shapes, step
        <3> QED BY <3>1, <3>2, <3>3 DEF Inv, Shapes, CallRecords, Keeps
    <2>3. /\ UNCHANGED <<m_handle, port, wire, queue, sends, got>>
          /\ call[t].pending = InvalidHandle /\ ~IsValid(call[t].object) /\ call[t].object \in Sockets
          /\ call[t].step = "create" /\ (call[t].id = 0 => call[t].port \in Ports)
        BY <1>1 DEF Create, history, At, Inv, CallShape, Stage
    <2>4. Typed'
        BY <1>3, <2>1, <2>2, <2>3, InvIsTyped DEF Typed, Shapes, Keeps
    <2>5. OwnedOnce'
        BY <1>3, <2>1, <2>2, <2>3, UdpAssumption DEF Inv, OwnedOnce, IsValid, Keeps
    <2>6. CallShape'
        BY <2>1, <2>2, <2>3 DEF Inv, CallShape, Stage, IsValid, Keeps
    <2>7. CallsApart'
        BY <2>2 DEF Inv, CallsApart, Keeps
    <2>8. SendShape'
        BY <2>2, <2>3 DEF Inv, SendShape, Handle, IsValid, Keeps
    <2>9. Truthful'
        BY <2>3, TruthfulStays DEF SentStays
    <2>10. OneDatagramPerSend' /\ SenderCanBeAnswered'
        BY <2>3 DEF Inv, OneDatagramPerSend, SenderCanBeAnswered, IsValid
    <2> QED BY <2>4, <2>5, <2>6, <2>7, <2>8, <2>9, <2>10 DEF Whole, Ownership, Histories
<1> QED BY <1>2, <1>3 DEF Create

LEMMA NativeBindStep ==
    ASSUME Inv, NEW t \in Threads, NativeBind(t)
    PROVE  Whole'
<1>1. call[t] # Idle
    BY DEF NativeBind, At, Idle
<1>2. CASE Goes(t, "failed") /\ UNCHANGED port
    BY <1>1, <1>2, FailsStep DEF NativeBind, history
<1>3. CASE port' = [port EXCEPT ![call[t].pending] = call[t].port] /\ Goes(t, "adopt")
    <2> DEFINE n == call[t].pending
    <2>1. Keeps(t, n, "adopt")
        BY <1>3, GoesOn
    <2>2. /\ n \in Natives /\ call[t].id = 0 /\ call[t].object \in Sockets /\ ~IsValid(call[t].object)
          /\ call[t].port \in Ports /\ call[t].port # None
        BY <1>1, UdpAssumption DEF NativeBind, At, Inv, CallShape, Stage
    <2>3. UNCHANGED <<m_handle, inUse, wire, queue, sends, got>>
        BY DEF NativeBind, history
    <2>4. /\ port'[n] # None /\ port' \in [Natives -> Ports \cup {None}]
          /\ \A m \in Natives \ {n} : port'[m] = port[m]
        BY <1>3, <2>2 DEF Inv, TypeOK
    <2>5. \A o \in Sockets : m_handle[o] # n
        BY <2>2 DEF Inv, OwnedOnce
    <2>6. \A u \in Threads \ {t} : call[u].pending # n
        BY <2>2 DEF Inv, OwnedOnce
    <2> HIDE DEF n
    <2>7. m_handle \in [Sockets -> Natives \cup {InvalidHandle}]
        BY DEF Inv, TypeOK
    <2>8. Typed'
        BY <2>1, <2>3, <2>4, InvIsTyped DEF Typed, Shapes, Keeps
    <2>9. OwnedOnce'
        BY <2>1, <2>3, <2>4, <2>5, <2>7 DEF Inv, OwnedOnce, IsValid, Keeps, n
    <2>10. CallShape'
        BY <2>1, <2>2, <2>3, <2>4, <2>6 DEF Inv, CallShape, Stage, IsValid, Keeps
    <2>11. CallsApart'
        BY <2>1 DEF Inv, CallsApart, Keeps
    <2>12. SendShape'
        <3> SUFFICES ASSUME NEW u \in Threads, call'[u].id # 0
                     PROVE  LET send == sends'[call'[u].id] IN
                            /\ call'[u].id \in DOMAIN sends'
                            /\ send.told = "nothing"
                            /\ call'[u].step \in {"create", "send"} => send.handed = <<>> /\ send.from = None
                            /\ call'[u].step = "adopt" =>
                                  send.handed = <<send.length>> /\ send.from = port'[Handle(u)']
            BY DEF SendShape
        <3>1. u # t /\ call'[u] = call[u]
            BY <2>1, <2>2 DEF Keeps
        <3>2. call[u].step = "adopt" => /\ Handle(u)' = Handle(u)
                                         /\ Handle(u) \in Natives \ {n}
            BY <2>3, <2>5, <2>6, <2>7, <3>1 DEF Inv, CallShape, Stage, Handle, IsValid, Idle
        <3> QED BY <2>3, <2>4, <3>1, <3>2 DEF Inv, SendShape
    <2>13. Truthful'
        BY <2>3, TruthfulStays DEF SentStays
    <2>14. OneDatagramPerSend'
        BY <2>3 DEF Inv, OneDatagramPerSend
    <2>15. SenderCanBeAnswered'
        BY <2>3, <2>4, <2>5, <2>7 DEF Inv, SenderCanBeAnswered, IsValid
    <2> QED BY <2>8, <2>9, <2>10, <2>11, <2>12, <2>13, <2>14, <2>15 DEF Whole, Ownership, Histories
<1> QED BY <1>2, <1>3 DEF NativeBind

\* Only a budget changes.
LEMMA StutterStep ==
    ASSUME Inv, UNCHANGED <<m_handle, inUse, port, wire, queue, call, sends, got>>
    PROVE  Whole'
<1>1. Typed'
    BY InvIsTyped DEF Typed, Shapes
<1>2. OwnedOnce' /\ CallShape' /\ CallsApart'
    BY DEF Inv, OwnedOnce, CallShape, Stage, CallsApart, IsValid
<1>3. SendShape' /\ OneDatagramPerSend' /\ SenderCanBeAnswered'
    BY DEF Inv, SendShape, OneDatagramPerSend, SenderCanBeAnswered, Handle, IsValid
<1>4. Truthful'
    BY TruthfulStays DEF SentStays
<1> QED BY <1>1, <1>2, <1>3, <1>4 DEF Whole, Ownership, Histories

\* ::sendto hands over a datagram, whole or short: the descriptor it goes through
\* belongs to this call alone or to the object this call alone works on, so
\* the port it may get is news to nobody else (udp_socket.hpp:81-97).
LEMMA HandStep ==
    ASSUME Inv, NEW t \in Threads, At(t, "send"), NEW count \in 0..MaxTransferLength,
           Hand(Handle(t), call[t].id, count), NEW step \in {"adopt", "failed"}, Goes(t, step),
           step = "adopt" => count = sends[call[t].id].length,
           UNCHANGED <<m_handle, got>>
    PROVE  Whole'
<1> DEFINE n == Handle(t)
           id == call[t].id
           from == sends'[id].from
<1>1. Keeps(t, call[t].pending, step)
    BY GoesOn
<1>2. /\ id # 0 /\ call[t].object \in Sockets
      /\ \/ call[t].pending \in Natives /\ ~IsValid(call[t].object)
         \/ call[t].pending = InvalidHandle /\ IsValid(call[t].object)
    BY DEF At, Idle, Inv, CallShape, Stage
<1>3. m_handle \in [Sockets -> Natives \cup {InvalidHandle}] /\ port \in [Natives -> Ports \cup {None}]
    BY DEF Inv, TypeOK
<1>4. n \in Natives
    BY <1>2, <1>3 DEF Handle, IsValid
<1>5. /\ sends' \in Seq(SendRecords)
      /\ DOMAIN sends' = DOMAIN sends
      /\ id \in DOMAIN sends
      /\ \A i \in DOMAIN sends \ {id} : sends'[i] = sends[i]
      /\ sends'[id].handed = <<count>> /\ sends'[id].told = "nothing"
      /\ sends'[id].to = sends[id].to /\ sends'[id].length = sends[id].length
      /\ from \in Ports
      /\ port' = [port EXCEPT ![n] = from]
      /\ port[n] # None => from = port[n]
      /\ wire' = wire \cup {[id |-> id, from |-> from, to |-> sends[id].to, size |-> count]}
      /\ sends[id].to \in Endpoints
      /\ UNCHANGED <<inUse, queue>>
    BY <1>4, HandEffect
<1>6. /\ port'[n] = from /\ port' \in [Natives -> Ports \cup {None}] /\ from # None
      /\ \A m \in Natives \ {n} : port'[m] = port[m]
    BY <1>3, <1>4, <1>5, UdpAssumption
<1>7. /\ sends[id].handed = <<>> /\ sends[id].from = None /\ sends[id].told = "nothing"
      /\ id \in Nat
    BY <1>2 DEF At, Inv, SendShape, Shapes, CallRecords
<1>8. ASSUME NEW u \in Threads \ {t}, call[u].step = "adopt"
      PROVE  Handle(u) \in Natives \ {n} /\ Handle(u)' = Handle(u) /\ call[u].pending # n
    <2>1. /\ call'[u] = call[u] /\ call[u].object \in Sockets /\ call[u].object # call[t].object
          /\ \/ call[u].pending \in Natives /\ ~IsValid(call[u].object)
             \/ call[u].pending = InvalidHandle /\ IsValid(call[u].object)
        BY <1>1, <1>2, <1>8, UdpAssumption DEF Keeps, Inv, CallShape, CallsApart, Stage, Idle
    <2>2. Handle(u) \in Natives /\ Handle(u)' = Handle(u)
        BY <1>3, <2>1 DEF Handle, IsValid
    <2>3. Handle(u) # n
        BY <1>2, <1>4, <2>1, <2>2 DEF Inv, OwnedOnce, Handle, IsValid
    <2> QED BY <1>4, <2>1, <2>2, <2>3, UdpAssumption DEF Handle
<1>9. Handle(t)' = n
    BY <1>1 DEF Keeps, Handle, IsValid
<1>10. n = IF IsValid(call[t].object) THEN m_handle[call[t].object] ELSE call[t].pending
    BY DEF Handle
<1> HIDE DEF n, id, from
<1>11. Typed'
    <2>1. [id |-> id, from |-> from, to |-> sends[id].to, size |-> count] \in Datagrams
        BY <1>5, <1>7, UdpAssumption DEF Datagrams, Endpoints
    <2> QED BY <1>1, <1>5, <1>6, <2>1, InvIsTyped DEF Typed, Shapes, Keeps
<1>12. OwnedOnce'
    <2>1. \A o \in Sockets : IsValid(o) => port'[m_handle[o]] # None
        BY <1>3, <1>6 DEF Inv, OwnedOnce, IsValid
    <2>2. \A u \in Threads : call'[u].pending = call[u].pending
        BY <1>1 DEF Keeps
    <2>3. m_handle' = m_handle /\ inUse' = inUse
        BY <1>5
    <2>4. OwnedOnce
        BY DEF Inv
    <2> QED BY <2>1, <2>2, <2>3, <2>4 DEF OwnedOnce, IsValid
<1>13. CallShape'
    <2>1. ASSUME NEW u \in Threads \ {t}
          PROVE  call'[u] = Idle \/ (call'[u].object \in Sockets /\ Stage(call[u])')
        BY <1>1, <1>6, <1>8, <2>1 DEF Inv, CallShape, Stage, IsValid, Keeps
    <2>2. call'[t].object \in Sockets /\ Stage(call[t])'
        BY <1>1, <1>2, <1>6, <1>10 DEF Stage, IsValid, Keeps
    <2> QED BY <2>1, <2>2 DEF CallShape
<1>14. CallsApart'
    BY <1>1 DEF Inv, CallsApart, Keeps
<1>15. SendShape'
    <2> SUFFICES ASSUME NEW u \in Threads, call'[u].id # 0
                 PROVE  LET send == sends'[call'[u].id] IN
                        /\ call'[u].id \in DOMAIN sends'
                        /\ send.told = "nothing"
                        /\ call'[u].step \in {"create", "send"} => send.handed = <<>> /\ send.from = None
                        /\ call'[u].step = "adopt" =>
                              send.handed = <<send.length>> /\ send.from = port'[Handle(u)']
        BY DEF SendShape
    <2>1. CASE u = t
        BY <1>1, <1>5, <1>6, <1>9, <2>1 DEF Keeps, id, from
    <2>2. CASE u # t
        <3>1. call'[u] = call[u] /\ call[u].id # id /\ call[u].id \in DOMAIN sends
            BY <1>1, <2>2 DEF Keeps, Inv, CallsApart, SendShape, id
        <3>2. sends'[call[u].id] = sends[call[u].id]
            BY <1>5, <3>1
        <3>3. call[u].step = "adopt" => port'[Handle(u)'] = port[Handle(u)]
            BY <1>6, <1>8, <2>2
        <3> QED BY <1>5, <3>1, <3>2, <3>3 DEF Inv, SendShape
    <2> QED BY <2>1, <2>2
<1>16. Truthful'
    <2>1. SentStays
        <3>1. sends'[id].from \notin Others /\ sends[id].from \notin Others
            BY <1>5, <1>7, UdpAssumption DEF from
        <3> QED BY <1>5, <1>7, <3>1 DEF SentStays
    <2>2. \A d \in wire' : d \in wire \/ (d.id = id /\ d.size = count /\ d.from = from)
        BY <1>5
    <2>3. \A d \in wire' : IsSent(d)'
        BY <1>5, <2>1, <2>2, TruthStays DEF IsSent, from
    <2> QED BY <1>5, <2>1, <2>3, TruthStays DEF Truthful, IsSent
<1>17. OneDatagramPerSend'
    <2>1. Len(<<count>>) <= 1
        OBVIOUS
    <2>2. /\ Len(sends'[id].handed) <= 1
          /\ sends'[id].told # "success"
        BY <1>5, <2>1
    <2>3. ASSUME NEW i \in DOMAIN sends, i # id
          PROVE  /\ Len(sends'[i].handed) <= 1
                 /\ sends'[i].told = "success" => sends'[i].handed = <<sends'[i].length>>
        BY <1>5, <2>3 DEF Inv, OneDatagramPerSend
    <2> QED BY <1>5, <2>2, <2>3 DEF OneDatagramPerSend
<1>18. SenderCanBeAnswered'
    <2> SUFFICES ASSUME NEW i \in DOMAIN sends, i # id, sends[i].told = "success", ~sends[i].closed
                 PROVE  \E o \in Sockets : IsValid(o) /\ port'[m_handle[o]] = sends[i].from
        BY <1>5 DEF SenderCanBeAnswered, IsValid
    <2>1. PICK o \in Sockets : IsValid(o) /\ port[m_handle[o]] = sends[i].from
        BY DEF Inv, SenderCanBeAnswered
    <2>2. port[m_handle[o]] # None /\ m_handle[o] \in Natives
        BY <1>3, <2>1 DEF Inv, OwnedOnce, IsValid
    <2> QED BY <1>5, <1>6, <2>1, <2>2
<1> QED BY <1>11, <1>12, <1>13, <1>14, <1>15, <1>16, <1>17, <1>18 DEF Whole, Ownership, Histories

LEMMA NativeSendToStep ==
    ASSUME Inv, NEW t \in Threads, NativeSendTo(t)
    PROVE  Whole'
<1> DEFINE length == sends[call[t].id].length
<1>1. call[t] # Idle /\ At(t, "send") /\ UNCHANGED <<m_handle, got>>
    BY DEF NativeSendTo, At, Idle
<1>2. length \in 0..MaxTransferLength
    <2>1. call[t].id \in DOMAIN sends
        BY <1>1 DEF At, Idle, Inv, CallShape, Stage, SendShape
    <2>2. sends[call[t].id] \in SendRecords
        BY <2>1, SendsType, ElementOfSeq DEF Inv
    <2> QED BY <2>2 DEF SendRecords
<1>3. CASE Hand(Handle(t), call[t].id, length) /\ Goes(t, "adopt")
    BY <1>1, <1>2, <1>3, HandStep
<1>4. ASSUME NEW count \in 0..(length - 1), Hand(Handle(t), call[t].id, count), Goes(t, "failed")
      PROVE  Whole'
    <2>1. count \in 0..MaxTransferLength
        BY <1>2, UdpAssumption
    <2> QED BY <1>1, <1>4, <2>1, HandStep
<1>5. CASE Goes(t, "failed") /\ UNCHANGED <<system, sends>>
    BY <1>1, <1>5, FailsStep DEF system
<1>6. CASE UNCHANGED <<call, system, sends>>
    BY <1>1, <1>6, StutterStep DEF system
<1> QED BY <1>3, <1>4, <1>5, <1>6 DEF NativeSendTo

\* Bind and a first SendTo give the object the descriptor that their local
\* handle owned; any other SendTo leaves the object alone (udp_socket.hpp:55, 99-101).
LEMMA AdoptStep ==
    ASSUME Inv, NEW t \in Threads, Adopt(t)
    PROVE  Whole'
<1> DEFINE o == call[t].object
           n == call[t].pending
           id == call[t].id
<1>1. /\ o \in Sockets /\ call[t].step = "adopt"
      /\ \/ n \in Natives /\ ~IsValid(o) /\ port[n] # None
         \/ n = InvalidHandle /\ IsValid(o)
    BY DEF Adopt, At, Idle, Inv, CallShape, Stage
<1>2. m_handle \in [Sockets -> Natives \cup {InvalidHandle}] /\ port \in [Natives -> Ports \cup {None}]
    BY DEF Inv, TypeOK
<1>3. /\ m_handle' \in [Sockets -> Natives \cup {InvalidHandle}]
      /\ m_handle'[o] = Handle(t) /\ Handle(t) \in Natives /\ port[Handle(t)] # None
      /\ \A x \in Sockets \ {o} : m_handle'[x] = m_handle[x]
      /\ Handle(t) = IF IsValid(o) THEN m_handle[o] ELSE n
    BY <1>1, <1>2, UdpAssumption DEF Adopt, Handle, IsValid, Inv, OwnedOnce
<1>4. /\ UNCHANGED <<inUse, port, wire, queue, got>>
      /\ call' = [call EXCEPT ![t] = Idle]
      /\ call'[t] = Idle /\ \A u \in Threads \ {t} : call'[u] = call[u]
    BY <1>1 DEF Adopt, Return, system, Inv, Shapes
<1>5. /\ sends' \in Seq(SendRecords)
      /\ DOMAIN sends' = DOMAIN sends
      /\ \A i \in DOMAIN sends :
            /\ sends'[i].to = sends[i].to
            /\ sends'[i].length = sends[i].length /\ sends'[i].handed = sends[i].handed
            /\ sends'[i].from = sends[i].from /\ sends'[i].closed = sends[i].closed
            /\ sends'[i].told = IF i = id THEN "success" ELSE sends[i].told
    BY ToldEffect DEF Adopt
<1>6. id # 0 => /\ id \in DOMAIN sends /\ sends[id].handed = <<sends[id].length>>
                /\ sends[id].from = port[Handle(t)]
    BY <1>1 DEF Inv, SendShape
<1>7. 0 \notin DOMAIN sends
    BY SendsType DEF Inv
<1>8. \A u \in Threads \ {t} : call[u] # Idle => call[u].object # o
    BY <1>1, UdpAssumption DEF Inv, CallsApart
<1> HIDE DEF o, n, id
<1>9. Typed'
    BY <1>3, <1>4, <1>5, IdleType, InvIsTyped DEF Typed, Shapes
<1>10. OwnedOnce'
    <2>1. \A x \in Sockets : IsValid(x)' => port'[m_handle'[x]] # None
        BY <1>3, <1>4 DEF Inv, OwnedOnce, IsValid
    <2>2. CASE IsValid(o)
        <3>1. m_handle' = m_handle
            BY <1>2, <1>3, <2>2
        <3>2. \A u \in Threads : call'[u].pending = call[u].pending
            BY <1>1, <1>4, <2>2 DEF Idle, n
        <3> QED BY <1>4, <2>1, <3>1, <3>2 DEF Inv, OwnedOnce, IsValid
    <2>3. CASE ~IsValid(o)
        <3>1. m_handle'[o] = n /\ m_handle[o] = InvalidHandle /\ call'[t].pending = InvalidHandle
              /\ n \in Natives
            BY <1>1, <1>3, <1>4, <2>3 DEF Idle, IsValid
        <3> QED BY <1>1, <1>3, <1>4, <2>1, <3>1, UdpAssumption DEF Inv, OwnedOnce, n
    <2> QED BY <2>2, <2>3
<1>11. CallShape'
    BY <1>3, <1>4, <1>8 DEF Inv, CallShape, Stage, IsValid
<1>12. CallsApart'
    BY <1>4 DEF Inv, CallsApart, Idle
<1>13. SendShape'
    <2> SUFFICES ASSUME NEW u \in Threads, call'[u].id # 0
                 PROVE  LET send == sends'[call'[u].id] IN
                        /\ call'[u].id \in DOMAIN sends'
                        /\ send.told = "nothing"
                        /\ call'[u].step \in {"create", "send"} => send.handed = <<>> /\ send.from = None
                        /\ call'[u].step = "adopt" =>
                              send.handed = <<send.length>> /\ send.from = port'[Handle(u)']
        BY DEF SendShape
    <2>1. /\ u # t /\ call'[u] = call[u] /\ call[u].id # id
          /\ call[u].id \in DOMAIN sends /\ call[u].object \in Sockets \ {o}
        BY <1>4, <1>8 DEF Idle, Inv, CallsApart, CallShape, SendShape, id
    <2>2. Handle(u)' = Handle(u)
        BY <1>3, <2>1 DEF Handle, IsValid
    <2> QED BY <1>4, <1>5, <2>1, <2>2 DEF Inv, SendShape
<1>14. Truthful'
    BY <1>4, <1>5, TruthfulStays DEF SentStays
<1>15. OneDatagramPerSend'
    BY <1>5, <1>6, <1>7 DEF Inv, OneDatagramPerSend
<1>16. SenderCanBeAnswered'
    <2> SUFFICES ASSUME NEW i \in DOMAIN sends, sends'[i].told = "success", ~sends[i].closed
                 PROVE  \E x \in Sockets : IsValid(x)' /\ port[m_handle'[x]] = sends[i].from
        BY <1>4, <1>5 DEF SenderCanBeAnswered
    <2>1. CASE i = id
        BY <1>1, <1>3, <1>6, <1>7, <2>1, UdpAssumption DEF IsValid
    <2>2. CASE i # id
        <3>1. PICK x \in Sockets : IsValid(x) /\ port[m_handle[x]] = sends[i].from
            BY <1>5, <2>2 DEF Inv, SenderCanBeAnswered
        <3>2. m_handle'[x] = m_handle[x]
            BY <1>3, <3>1 DEF IsValid
        <3> QED BY <3>1, <3>2 DEF IsValid
    <2> QED BY <2>1, <2>2
<1> QED BY <1>9, <1>10, <1>11, <1>12, <1>13, <1>14, <1>15, <1>16 DEF Whole, Ownership, Histories

-----------------------------------------------------------------------------
\* Closing descriptor n, or nothing, leaves the others as they are.
LEMMA FreedEffect ==
    ASSUME Inv, NEW n \in Natives \cup {InvalidHandle},
           IF n = InvalidHandle THEN UNCHANGED system ELSE Freed(n)
    PROVE  /\ inUse' = inUse \ {n} /\ wire' = wire
           /\ port' \in [Natives -> Ports \cup {None}]
           /\ \A m \in Natives : port'[m] = IF m = n THEN None ELSE port[m]
           /\ queue' \in [Natives -> Seq(Datagrams)]
           /\ \A m \in Natives : queue'[m] \in {queue[m], <<>>} /\ Len(queue'[m]) <= QueueLimit
<1>1. inUse \subseteq Natives /\ port \in [Natives -> Ports \cup {None}] /\ InvalidHandle \notin Natives
    BY UdpAssumption DEF Inv, TypeOK
<1>2. queue \in [Natives -> Seq(Datagrams)] /\ \A m \in Natives : Len(queue[m]) <= QueueLimit
    BY DEF Inv, TypeOK, Shapes
<1>3. CASE n = InvalidHandle
    BY <1>1, <1>2, <1>3 DEF system
<1>4. CASE n # InvalidHandle
    <2>1. inUse' = inUse \ {n} /\ wire' = wire /\ port' = [port EXCEPT ![n] = None]
          /\ queue' = [queue EXCEPT ![n] = <<>>]
        BY <1>4 DEF Freed
    <2>2. <<>> \in Seq(Datagrams) /\ Len(<<>>) <= QueueLimit
        BY EmptySeq, UdpAssumption
    <2> QED BY <1>1, <1>2, <1>4, <2>1, <2>2
<1> QED BY <1>3, <1>4

\* The local handle of a failed call owns what nobody else does (udp_socket.hpp:46-53, 70-97).
LEMMA DiscardStep ==
    ASSUME Inv, NEW t \in Threads, Discard(t)
    PROVE  Whole'
<1> DEFINE n == call[t].pending
           id == call[t].id
<1>1. n \in Natives \cup {InvalidHandle} /\ call[t].step = "failed"
    BY DEF Inv, Shapes, CallRecords, Discard, At
<1>2. /\ inUse' = inUse \ {n} /\ wire' = wire
      /\ port' \in [Natives -> Ports \cup {None}]
      /\ \A m \in Natives : port'[m] = IF m = n THEN None ELSE port[m]
      /\ queue' \in [Natives -> Seq(Datagrams)]
      /\ \A m \in Natives : queue'[m] \in {queue[m], <<>>} /\ Len(queue'[m]) <= QueueLimit
    BY <1>1, FreedEffect DEF Discard, system
<1>3. /\ sends' \in Seq(SendRecords)
      /\ DOMAIN sends' = DOMAIN sends
      /\ \A i \in DOMAIN sends :
            /\ sends'[i].to = sends[i].to
            /\ sends'[i].length = sends[i].length /\ sends'[i].handed = sends[i].handed
            /\ sends'[i].from = sends[i].from /\ sends'[i].closed = sends[i].closed
            /\ sends'[i].told = IF i = id THEN "failure" ELSE sends[i].told
    BY ToldEffect DEF Discard
<1>4. /\ UNCHANGED <<m_handle, got>>
      /\ call' = [call EXCEPT ![t] = Idle]
      /\ call'[t] = Idle /\ \A u \in Threads \ {t} : call'[u] = call[u]
    BY DEF Discard, Return, Inv, Shapes
<1>5. m_handle \in [Sockets -> Natives \cup {InvalidHandle}] /\ inUse \subseteq Natives
    BY DEF Inv, TypeOK
<1>6. \A x \in Sockets : IsValid(x) => m_handle[x] \in Natives /\ m_handle[x] # n
    BY <1>5 DEF IsValid, Inv, OwnedOnce
<1>7. \A u \in Threads \ {t} : call[u].pending \in Natives => call[u].pending # n
    BY DEF Inv, OwnedOnce
<1> HIDE DEF n, id
<1>8. Typed'
    BY <1>2, <1>3, <1>4, <1>5, IdleType, InvIsTyped DEF Typed, Shapes
<1>9. OwnedOnce'
    <2>1. \A x \in Sockets : IsValid(x)' => port'[m_handle'[x]] # None
        BY <1>2, <1>4, <1>6 DEF Inv, OwnedOnce, IsValid
    <2>2. \A m \in Natives \ {n} : \A u \in Threads : call'[u].pending = m <=> call[u].pending = m
        BY <1>4, UdpAssumption DEF Idle, n
    <2>3. \A u \in Threads : call'[u].pending = n => n = InvalidHandle
        BY <1>1, <1>4, <1>7 DEF Idle, n
    <2> QED BY <1>2, <1>4, <1>6, <2>1, <2>2, <2>3, UdpAssumption DEF Inv, OwnedOnce, IsValid
<1>10. CallShape'
    BY <1>2, <1>4, <1>7 DEF Inv, CallShape, Stage, IsValid
<1>11. CallsApart'
    BY <1>4 DEF Inv, CallsApart, Idle
<1>12. SendShape'
    <2> SUFFICES ASSUME NEW u \in Threads, call'[u].id # 0
                 PROVE  LET send == sends'[call'[u].id] IN
                        /\ call'[u].id \in DOMAIN sends'
                        /\ send.told = "nothing"
                        /\ call'[u].step \in {"create", "send"} => send.handed = <<>> /\ send.from = None
                        /\ call'[u].step = "adopt" =>
                              send.handed = <<send.length>> /\ send.from = port'[Handle(u)']
        BY DEF SendShape
    <2>1. u # t /\ call'[u] = call[u] /\ call[u].id # id /\ call[u].id \in DOMAIN sends
        BY <1>4 DEF Idle, Inv, CallsApart, SendShape, id
    <2>2. call[u].step = "adopt" => Handle(u)' = Handle(u) /\ Handle(u) \in Natives \ {n}
        BY <1>4, <1>6, <1>7, <2>1 DEF Handle, IsValid, Inv, CallShape, Stage, Idle
    <2> QED BY <1>2, <1>3, <2>1, <2>2 DEF Inv, SendShape
<1>13. Truthful'
    BY <1>2, <1>3, <1>4, TruthfulStays DEF SentStays
<1>14. OneDatagramPerSend'
    BY <1>3 DEF Inv, OneDatagramPerSend
<1>15. SenderCanBeAnswered'
    BY <1>2, <1>3, <1>4, <1>6 DEF Inv, SenderCanBeAnswered, IsValid
<1> QED BY <1>8, <1>9, <1>10, <1>11, <1>12, <1>13, <1>14, <1>15 DEF Whole, Ownership, Histories

\* Object o, which no call works on, gives up its descriptor; in a move it takes
\* over that of s, which gives up its own (udp_socket.hpp:34-36, 165-168).
LEMMA GivesUp ==
    ASSUME Inv, NEW o \in Sockets, NEW s \in Sockets, ~Busy(o), ~Busy(s),
           m_handle' = IF s = o THEN [m_handle EXCEPT ![o] = InvalidHandle]
                       ELSE [m_handle EXCEPT ![o] = m_handle[s], ![s] = InvalidHandle],
           IF m_handle[o] = InvalidHandle THEN UNCHANGED system ELSE Freed(m_handle[o]),
           sends' = Orphaned(o), UNCHANGED <<call, got>>
    PROVE  Whole'
<1> DEFINE n == m_handle[o]
<1>1. m_handle \in [Sockets -> Natives \cup {InvalidHandle}] /\ inUse \subseteq Natives
    BY DEF Inv, TypeOK
<1>2. /\ inUse' = inUse \ {n} /\ wire' = wire
      /\ port' \in [Natives -> Ports \cup {None}]
      /\ \A m \in Natives : port'[m] = IF m = n THEN None ELSE port[m]
      /\ queue' \in [Natives -> Seq(Datagrams)]
      /\ \A m \in Natives : queue'[m] \in {queue[m], <<>>} /\ Len(queue'[m]) <= QueueLimit
    BY <1>1, FreedEffect
<1>3. /\ sends' \in Seq(SendRecords)
      /\ DOMAIN sends' = DOMAIN sends
      /\ \A i \in DOMAIN sends :
            /\ sends'[i].to = sends[i].to
            /\ sends'[i].length = sends[i].length /\ sends'[i].handed = sends[i].handed
            /\ sends'[i].from = sends[i].from /\ sends'[i].told = sends[i].told
            /\ sends[i].closed => sends'[i].closed
            /\ IsValid(o) /\ sends[i].from = port[m_handle[o]] => sends'[i].closed
    BY OrphanedEffect
<1>4. /\ m_handle' \in [Sockets -> Natives \cup {InvalidHandle}]
      /\ \A x \in Sockets : m_handle'[x] = IF x = s THEN InvalidHandle
                                           ELSE IF x = o THEN m_handle[s] ELSE m_handle[x]
    BY <1>1
<1>5. \A x \in Sockets : IsValid(x) /\ x # o => m_handle[x] \in Natives /\ m_handle[x] # n
    BY <1>1 DEF IsValid, Inv, OwnedOnce
<1>6. \A u \in Threads : call[u].pending \in Natives => call[u].pending # n
    BY <1>1 DEF Inv, OwnedOnce
<1>7. \A u \in Threads : call[u].object \notin {o, s}
    BY DEF Busy
<1> HIDE DEF n
<1>8. Typed'
    BY <1>2, <1>3, <1>4, InvIsTyped DEF Typed, Shapes
<1>9. OwnedOnce'
    <2>1. \A x \in Sockets : m_handle'[x] # InvalidHandle => port'[m_handle'[x]] # None
        BY <1>2, <1>4, <1>5 DEF Inv, OwnedOnce, IsValid
    <2>2. ASSUME NEW m \in Natives
          PROVE  /\ m \in inUse' <=>
                       (\E x \in Sockets : m_handle'[x] = m) \/ (\E u \in Threads : call'[u].pending = m)
                 /\ \A x, y \in Sockets : m_handle'[x] = m /\ m_handle'[y] = m => x = y
                 /\ \A t, u \in Threads : call'[t].pending = m /\ call'[u].pending = m => t = u
                 /\ \A x \in Sockets, u \in Threads : ~(m_handle'[x] = m /\ call'[u].pending = m)
        <3>0. /\ m \in inUse <=>
                    (\E x \in Sockets : m_handle[x] = m) \/ (\E u \in Threads : call[u].pending = m)
              /\ \A x, y \in Sockets : m_handle[x] = m /\ m_handle[y] = m => x = y
              /\ \A t, u \in Threads : call[t].pending = m /\ call[u].pending = m => t = u
              /\ \A x \in Sockets, u \in Threads : ~(m_handle[x] = m /\ call[u].pending = m)
              /\ call' = call
            BY DEF Inv, OwnedOnce
        <3>1. CASE m = n
            BY <1>2, <1>4, <3>0, <3>1, UdpAssumption DEF n
        <3>2. CASE m # n
            BY <1>2, <1>4, <3>0, <3>2, UdpAssumption DEF n
        <3> QED BY <3>1, <3>2
    <2> QED BY <2>1, <2>2 DEF OwnedOnce, IsValid
<1>10. CallShape'
    BY <1>2, <1>4, <1>6, <1>7 DEF Inv, CallShape, Stage, IsValid
<1>11. CallsApart'
    BY DEF Inv, CallsApart
<1>12. SendShape'
    <2> SUFFICES ASSUME NEW u \in Threads, call[u].id # 0
                 PROVE  LET send == sends'[call[u].id] IN
                        /\ call[u].id \in DOMAIN sends'
                        /\ send.told = "nothing"
                        /\ call[u].step \in {"create", "send"} => send.handed = <<>> /\ send.from = None
                        /\ call[u].step = "adopt" =>
                              send.handed = <<send.length>> /\ send.from = port'[Handle(u)']
        BY DEF SendShape
    <2>1. call[u].id \in DOMAIN sends
        BY DEF Inv, SendShape
    <2>2. call[u].step = "adopt" => Handle(u)' = Handle(u) /\ Handle(u) \in Natives \ {n}
        BY <1>4, <1>5, <1>6, <1>7 DEF Handle, IsValid, Inv, CallShape, Stage, Idle
    <2> QED BY <1>2, <1>3, <2>1, <2>2 DEF Inv, SendShape
<1>13. Truthful'
    BY <1>2, <1>3, TruthfulStays DEF SentStays
<1>14. OneDatagramPerSend'
    BY <1>3 DEF Inv, OneDatagramPerSend
<1>15. SenderCanBeAnswered'
    <2> SUFFICES ASSUME NEW i \in DOMAIN sends', sends'[i].told = "success", ~sends'[i].closed
                 PROVE  \E x \in Sockets : m_handle'[x] # InvalidHandle /\ port'[m_handle'[x]] = sends'[i].from
        BY DEF SenderCanBeAnswered, IsValid
    <2>0. i \in DOMAIN sends /\ sends[i].told = "success" /\ sends'[i].from = sends[i].from
        BY <1>3
    <2>1. PICK x \in Sockets : IsValid(x) /\ port[m_handle[x]] = sends[i].from
        BY <1>3, <2>0 DEF Inv, SenderCanBeAnswered
    <2>2. x # o
        BY <1>3, <2>0, <2>1
    <2>3. PICK y \in Sockets : m_handle'[y] = m_handle[x]
        BY <1>4, <2>2
    <2> QED BY <1>2, <1>5, <2>0, <2>1, <2>2, <2>3 DEF IsValid
<1> QED BY <1>8, <1>9, <1>10, <1>11, <1>12, <1>13, <1>14, <1>15 DEF Whole, Ownership, Histories

-----------------------------------------------------------------------------
\* A receive leaves no trace but in its queue and its answer.
LEMMA ReceiveReturns ==
    ASSUME Inv, NEW t \in Threads, At(t, "receive"), Return(t),
           UNCHANGED <<m_handle, inUse, port, wire, sends>>,
           queue' \in [Natives -> Seq(Datagrams)], \A m \in Natives : Len(queue'[m]) <= QueueLimit,
           got' \subseteq Receipts, Truthful'
    PROVE  Whole'
<1>1. call[t].id = 0 /\ call[t].pending = InvalidHandle
    BY DEF At, Idle, Inv, CallShape, Stage
<1>2. /\ call' = [call EXCEPT ![t] = Idle]
      /\ call'[t] = Idle /\ \A u \in Threads \ {t} : call'[u] = call[u]
    BY DEF Return, Inv, Shapes
<1>3. \A u \in Threads : call'[u].pending = call[u].pending /\ call'[u].id = call[u].id
    BY <1>1, <1>2 DEF Idle
<1>4. Typed'
    BY <1>2, IdleType, InvIsTyped DEF Typed, Shapes
<1>5. OwnedOnce'
    BY <1>3 DEF Inv, OwnedOnce, IsValid
<1>6. CallShape' /\ CallsApart'
    BY <1>2 DEF Inv, CallShape, CallsApart, Stage, IsValid, Idle
<1>7. SendShape'
    BY <1>2 DEF Inv, SendShape, Handle, IsValid, Idle
<1>8. OneDatagramPerSend' /\ SenderCanBeAnswered'
    BY DEF Inv, OneDatagramPerSend, SenderCanBeAnswered, IsValid
<1> QED BY <1>4, <1>5, <1>6, <1>7, <1>8 DEF Whole, Ownership, Histories

\* A receive takes the head of the queue or fails; either way its call is over
\* (udp_socket.hpp:127-149).
LEMMA ReceiveStep ==
    ASSUME Inv, NEW t \in Threads, NativeReceive(t)
    PROVE  Whole'
<1> DEFINE n == m_handle[call[t].object]
<1>1. At(t, "receive") /\ n \in Natives
    BY DEF NativeReceive, At, Idle, Inv, CallShape, Stage, IsValid, TypeOK
<1>2. UNCHANGED <<m_handle, inUse, port, wire, sends>>
    BY DEF NativeReceive
<1>3. ASSUME Return(t), queue' \in [Natives -> Seq(Datagrams)],
             \A m \in Natives : Len(queue'[m]) <= QueueLimit,
             got' \subseteq Receipts, Truthful'
      PROVE  Whole'
    BY <1>1, <1>2, <1>3, ReceiveReturns
<1>4. ASSUME queue[n] # <<>>, queue' = [queue EXCEPT ![n] = Tail(@)], Report(t, Head(queue[n]))
      PROVE  Whole'
    <2> DEFINE d == Head(queue[n])
               receipt == [id |-> d.id, size |-> d.size, sender |-> d.from]
    <2>1. queue \in [Natives -> Seq(Datagrams)] /\ queue[n] \in Seq(Datagrams)
        BY <1>1 DEF Inv, Shapes
    <2>2. /\ d \in Datagrams /\ Tail(queue[n]) \in Seq(Datagrams)
          /\ Len(Tail(queue[n])) = Len(queue[n]) - 1 /\ Len(queue[n]) \in Nat \ {0}
          /\ \A i \in 1..Len(Tail(queue[n])) : Tail(queue[n])[i] = queue[n][i + 1]
          /\ d = queue[n][1]
        BY <1>4, <2>1, HeadTailProperties, EmptySeq
    <2>3. /\ queue' \in [Natives -> Seq(Datagrams)]
          /\ queue'[n] = Tail(queue[n])
          /\ \A m \in Natives \ {n} : queue'[m] = queue[m]
        BY <1>1, <1>4, <2>1, <2>2
    <2>4. \A m \in Natives : Len(queue'[m]) <= QueueLimit
        <3> HIDE DEF n
        <3>1. \A m \in Natives : Len(queue[m]) <= QueueLimit
            BY DEF Inv, TypeOK
        <3>2. Len(queue'[n]) <= QueueLimit
            BY <1>1, <2>2, <2>3, <3>1, UdpAssumption
        <3> QED BY <2>3, <3>1, <3>2
    <2>5. receipt \in Receipts /\ got' \subseteq got \cup {receipt}
        BY <1>4, <2>2 DEF Report, Received, Receipts, Datagrams
    <2>6. IsSent(d)
        BY <1>1, <2>2 DEF Inv, Truthful
    <2> HIDE DEF d
    <2>7. receipt.id = d.id /\ receipt.size = d.size /\ receipt.sender = d.from
        OBVIOUS
    <2> HIDE DEF receipt
    <2>8. Truthful'
        <3>1. \A x \in wire' : IsSent(x)'
            BY <1>2 DEF Inv, Truthful, IsSent
        <3>2. ASSUME NEW m \in Natives, NEW i \in 1..Len(queue'[m])
              PROVE  \E j \in 1..Len(queue[m]) : queue'[m][i] = queue[m][j]
            <4>1. CASE m = n
                <5>1. i + 1 \in 1..Len(queue[m]) /\ queue'[m][i] = queue[m][i + 1]
                    <6>1. i \in 1..(Len(queue[n]) - 1) /\ i \in 1..Len(Tail(queue[n]))
                        BY <2>2, <2>3, <4>1
                    <6>2. i + 1 \in 1..Len(queue[n])
                        BY <2>2, <6>1
                    <6> QED BY <2>2, <2>3, <4>1, <6>1, <6>2
                <5> QED BY <5>1
            <4>2. CASE m # n
                BY <2>3, <4>2
            <4> QED BY <4>1, <4>2
        <3>3. ASSUME NEW m \in Natives, NEW i \in 1..Len(queue'[m])
              PROVE  IsSent(queue'[m][i])
            BY <3>2 DEF Inv, Truthful
        <3>4. \A g \in got' : /\ g.id \in DOMAIN sends
                              /\ sends[g.id].handed = <<g.size>> /\ sends[g.id].from = g.sender
            BY <2>5, <2>6, <2>7 DEF Inv, Truthful, IsSent
        <3> QED BY <1>2, <3>1, <3>3, <3>4 DEF Truthful, IsSent
    <2>9. Return(t)
        BY <1>4 DEF Report
    <2> QED BY <1>3, <2>3, <2>4, <2>5, <2>8, <2>9 DEF Inv, Shapes
<1>5. CASE Return(t) /\ UNCHANGED <<queue, got>>
    <2>1. Truthful'
        BY <1>2, <1>5, TruthfulStays DEF SentStays
    <2> QED BY <1>3, <1>5, <2>1 DEF Inv, Shapes, TypeOK
<1>6. CASE UNCHANGED <<queue, call, got>>
    BY <1>2, <1>6, StutterStep
<1> QED BY <1>4, <1>5, <1>6 DEF NativeReceive

\* The network takes datagrams from the wire, and may deliver one again.
LEMMA DeliverStep ==
    ASSUME Inv, NEW d \in wire, NEW n \in Natives, Deliver(d, n)
    PROVE  Whole'
<1>1. /\ UNCHANGED <<m_handle, inUse, port, call, sends, got>>
      /\ queue' = [queue EXCEPT ![n] = Append(@, d)] /\ wire' \subseteq wire
      /\ Len(queue[n]) < QueueLimit
    BY DEF Deliver, history
<1>2. queue \in [Natives -> Seq(Datagrams)] /\ d \in Datagrams
    BY DEF Inv, Shapes
<1>3. /\ Append(queue[n], d) \in Seq(Datagrams) /\ Len(Append(queue[n], d)) = Len(queue[n]) + 1
      /\ \A i \in 1..Len(queue[n]) : Append(queue[n], d)[i] = queue[n][i]
      /\ Append(queue[n], d)[Len(queue[n]) + 1] = d /\ Len(queue[n]) \in Nat
    BY <1>2, AppendProperties, LenProperties
<1>4. /\ queue' \in [Natives -> Seq(Datagrams)] /\ queue'[n] = Append(queue[n], d)
      /\ \A m \in Natives \ {n} : queue'[m] = queue[m]
    BY <1>1, <1>2, <1>3
<1>5. Typed'
    <2>1. \A m \in Natives : Len(queue'[m]) <= QueueLimit
        BY <1>1, <1>3, <1>4, UdpAssumption DEF Inv, TypeOK
    <2> QED BY <1>1, <1>4, <2>1, InvIsTyped DEF Typed, Shapes
<1>6. OwnedOnce' /\ CallShape' /\ CallsApart'
    BY <1>1 DEF Inv, OwnedOnce, CallShape, Stage, CallsApart, IsValid
<1>7. SendShape' /\ OneDatagramPerSend' /\ SenderCanBeAnswered'
    BY <1>1 DEF Inv, SendShape, OneDatagramPerSend, SenderCanBeAnswered, Handle, IsValid
<1>8. Truthful'
    <2>1. ASSUME NEW m \in Natives, NEW i \in 1..Len(queue'[m])
          PROVE  IsSent(queue'[m][i])
        <3>1. CASE m = n
            <4>1. i \in 1..Len(queue[n]) \/ queue'[m][i] = d
                BY <1>3, <1>4, <3>1
            <4> QED BY <1>3, <1>4, <3>1, <4>1 DEF Inv, Truthful
        <3>2. CASE m # n
            BY <1>4, <3>2 DEF Inv, Truthful
        <3> QED BY <3>1, <3>2
    <2> QED BY <1>1, <2>1 DEF Inv, Truthful, IsSent
<1> QED BY <1>5, <1>6, <1>7, <1>8 DEF Whole, Ownership, Histories

LEMMA LoseStep ==
    ASSUME Inv, NEW d \in wire, Lose(d)
    PROVE  Whole'
<1>1. UNCHANGED <<m_handle, inUse, port, queue, call, sends, got>> /\ wire' \subseteq wire
    BY DEF Lose, history
<1>2. Typed'
    BY <1>1, InvIsTyped DEF Typed, Shapes
<1>3. OwnedOnce' /\ CallShape' /\ CallsApart'
    BY <1>1 DEF Inv, OwnedOnce, CallShape, Stage, CallsApart, IsValid
<1>4. SendShape' /\ OneDatagramPerSend' /\ SenderCanBeAnswered'
    BY <1>1 DEF Inv, SendShape, OneDatagramPerSend, SenderCanBeAnswered, Handle, IsValid
<1>5. Truthful'
    BY <1>1, TruthfulStays DEF SentStays
<1> QED BY <1>2, <1>3, <1>4, <1>5 DEF Whole, Ownership, Histories

\* Another program's datagram comes with a record of its own in the history.
LEMMA StrayStep ==
    ASSUME Inv, NEW q \in Others, NEW p \in Ports, NEW length \in 0..MaxTransferLength, Stray(q, p, length)
    PROVE  Whole'
<1> DEFINE id == Len(sends) + 1
           r == [to |-> p, from |-> q, length |-> length, handed |-> <<length>>,
                 told |-> "nothing", closed |-> TRUE]
           d == [id |-> id, from |-> q, to |-> p, size |-> length]
<1>1. /\ sends' = Append(sends, r) /\ wire' = wire \cup {d}
      /\ UNCHANGED <<m_handle, inUse, port, queue, call, got>>
    BY DEF Stray
<1>2. sends \in Seq(SendRecords) /\ DOMAIN sends = 1..Len(sends) /\ Len(sends) \in Nat
    BY SendsType DEF Inv
<1>3. /\ r \in SendRecords /\ r.handed = <<length>> /\ r.length = length /\ r.told = "nothing"
      /\ r.from = q /\ r.to = p
    BY DEF SendRecords, Endpoints
<1>4. /\ d \in Datagrams /\ d.id = id /\ d.size = length /\ d.from = q /\ d.to = p
      /\ id \in Nat /\ id # 0 /\ id \notin DOMAIN sends
    BY <1>2, UdpAssumption DEF Datagrams, Endpoints
<1> HIDE DEF r, d
<1>5. /\ sends' \in Seq(SendRecords) /\ Len(sends') = id
      /\ \A i \in DOMAIN sends : sends'[i] = sends[i]
      /\ sends'[id] = r
    BY <1>1, <1>2, <1>3, AppendProperties
<1>6. DOMAIN sends' = DOMAIN sends \cup {id}
    BY <1>2, <1>5, LenProperties
<1> HIDE DEF id
<1>7. SentStays
    BY <1>5, <1>6 DEF SentStays
<1>8. Typed'
    BY <1>1, <1>4, <1>5, InvIsTyped DEF Typed, Shapes
<1>9. OwnedOnce' /\ CallShape' /\ CallsApart'
    BY <1>1 DEF Inv, OwnedOnce, CallShape, Stage, CallsApart, IsValid
<1>10. SendShape'
    BY <1>1, <1>5, <1>6 DEF Inv, SendShape, Handle, IsValid
<1>11. Truthful'
    <2>1. ASSUME NEW x, x = d PROVE IsSent(x)'
        BY <1>3, <1>4, <1>5, <1>6, <2>1 DEF IsSent
    <2>2. \A x \in wire' : IsSent(x)'
        BY <1>1, <1>7, <2>1, TruthStays
    <2> QED BY <1>1, <1>7, <2>2, TruthStays DEF Truthful, IsSent
<1>12. OneDatagramPerSend'
    <2>1. Len(<<length>>) <= 1
        OBVIOUS
    <2> QED BY <1>3, <1>5, <1>6, <2>1 DEF Inv, OneDatagramPerSend
<1>13. SenderCanBeAnswered'
    BY <1>1, <1>3, <1>5, <1>6 DEF Inv, SenderCanBeAnswered, IsValid
<1> QED BY <1>8, <1>9, <1>10, <1>11, <1>12, <1>13 DEF Whole, Ownership, Histories

LEMMA InvStep == Inv /\ [Next]_vars => Whole'
<1> SUFFICES ASSUME Inv, [Next]_vars PROVE Whole'
    OBVIOUS
<1>1. ASSUME NEW t \in Threads, Step(t) PROVE Whole'
    BY <1>1, CreateStep, NativeBindStep, NativeSendToStep, AdoptStep, DiscardStep, ReceiveStep DEF Step
<1>2. ASSUME NEW t \in Threads, NEW o \in Sockets, NEW p \in Ports, Bind(t, o, p) PROVE Whole'
    BY <1>2, BindStep
<1>3. ASSUME NEW t \in Threads, NEW o \in Sockets, NEW p \in Endpoints, NEW length \in Lengths,
             SendTo(t, o, p, length)
      PROVE  Whole'
    BY <1>3, SendToStep
<1>4. ASSUME NEW t \in Threads, NEW o \in Sockets, NEW length \in Lengths, ReceiveFrom(t, o, length)
      PROVE  Whole'
    BY <1>4, ReceiveFromStep
<1>5. ASSUME NEW t \in Threads, NEW o \in Sockets, Close(t, o) PROVE Whole'
    BY <1>5, GivesUp DEF Close, IsValid
<1>6. ASSUME NEW t \in Threads, NEW d \in Sockets, NEW s \in Sockets, Move(t, d, s) PROVE Whole'
    BY <1>6, GivesUp DEF Move, IsValid
<1>7. ASSUME NEW d \in wire, Lose(d) \/ \E n \in Natives : Deliver(d, n) PROVE Whole'
    BY <1>7, LoseStep, DeliverStep
<1>8. ASSUME NEW q \in Others, NEW p \in Ports, NEW length \in 0..MaxTransferLength, Stray(q, p, length)
      PROVE  Whole'
    BY <1>8, StrayStep
<1>9. CASE UNCHANGED vars
    BY <1>9, StutterStep DEF vars, system, history
<1> QED BY <1>1, <1>2, <1>3, <1>4, <1>5, <1>6, <1>7, <1>8, <1>9 DEF Next

LEMMA InitIsWhole == Init => Whole
<1> SUFFICES ASSUME Init PROVE Whole
    OBVIOUS
<1>1. DOMAIN sends = {} /\ sends \in Seq(SendRecords)
    BY EmptySeq DEF Init
<1>2. <<>> \in Seq(Datagrams) /\ Len(<<>>) <= QueueLimit /\ Len(<<>>) = 0
    BY EmptySeq, UdpAssumption
<1>3. Typed
    BY <1>1, <1>2, IdleType DEF Init, Typed, Shapes
<1>4. Ownership
    BY UdpAssumption DEF Init, Ownership, OwnedOnce, CallShape, CallsApart, IsValid, Idle
<1>5. Histories
    BY <1>1, <1>2 DEF Init, Histories, SendShape, Truthful, OneDatagramPerSend, SenderCanBeAnswered, Idle
<1> QED BY <1>3, <1>4, <1>5 DEF Whole

\* The invariant of datagram sockets, for every instance: no interleaving of
\* calls, deliveries, losses and duplicates breaks one of its parts.
THEOREM Invariance == Spec => []Inv
BY InitIsWhole, InvStep, WholeIsInv, PTL DEF Spec

\* Every descriptor in use has one owner, an object or a call, and who sent
\* successfully still owns the port it sent from (udp_socket.hpp:38-101, 165).
THEOREM AlwaysOwned == Spec => []SocketsOwned
<1>1. Inv => SocketsOwned
    BY DEF Inv, SocketsOwned
<1> QED BY <1>1, Invariance, PTL

\* No retry and no short count sends twice, and success means the whole
\* buffer (udp_socket.hpp:60, 85-101).
THEOREM SentOnce == Spec => []OneDatagramPerSend
<1>1. Inv => OneDatagramPerSend
    BY DEF Inv
<1> QED BY <1>1, Invariance, PTL

\* What is reported as received is what was sent, with the port it was sent
\* from, whatever the network loses, duplicates or reorders (udp_socket.hpp:105-149).
THEOREM ReceivedTruthfully == Spec => []ReceivedAsSent
<1>1. Inv => ReceivedAsSent
    BY DEF Inv, Truthful, ReceivedAsSent
<1> QED BY <1>1, Invariance, PTL

-----------------------------------------------------------------------------
(***************************************************************************)
(* What the ports mean: no two descriptors share one, only descriptors in  *)
(* use have one, and datagrams wait where they were sent to.               *)
(***************************************************************************)
PortsApart == \A n, m \in Natives : port[n] = port[m] /\ port[n] # None => n = m
Unused == \A n \in Natives \ inUse : port[n] = None
Unbinds == \A t \in Threads : At(t, "bind") => port[call[t].pending] = None
Routed ==
    /\ \A d \in wire : sends[d.id].to = d.to
    /\ \A n \in Natives : \A i \in 1..Len(queue[n]) :
          queue[n][i].to = port[n] /\ sends[queue[n][i].id].to = port[n]

Net == PortsApart /\ Unused /\ Unbinds /\ Routed

\* Where a send goes is settled when it begins.
SendsStay == \A i \in DOMAIN sends : i \in DOMAIN sends' /\ sends'[i].to = sends[i].to

\* Ports are lost together with what waits there, and no call reaches ::bind.
RoutesStay ==
    /\ \A n \in Natives : port'[n] \in {port[n], None} /\ (n \notin inUse' => n \notin inUse \/ port'[n] = None)
    /\ \A n \in Natives : \A i \in 1..Len(queue'[n]) :
          port'[n] = port[n] /\ \E j \in 1..Len(queue[n]) : queue'[n][i] = queue[n][j]
    /\ wire' \subseteq wire /\ SendsStay
    /\ \A t \in Threads : At(t, "bind")' => At(t, "bind") /\ call'[t].pending = call[t].pending

LEMMA NetStays == Inv /\ Net /\ RoutesStay => Net'
<1> SUFFICES ASSUME Inv, Net, RoutesStay PROVE Net'
    OBVIOUS
<1>1. PortsApart'
    BY DEF Net, PortsApart, RoutesStay
<1>2. Unused'
    BY DEF Net, Unused, RoutesStay
<1>3. Unbinds'
    <2> SUFFICES ASSUME NEW t \in Threads, At(t, "bind")' PROVE port'[call'[t].pending] = None
        BY DEF Unbinds
    <2>1. At(t, "bind") /\ call'[t].pending = call[t].pending
        BY DEF RoutesStay
    <2>2. call[t].pending \in Natives
        BY <2>1 DEF At, Idle, Inv, CallShape, Stage
    <2> QED BY <2>1, <2>2 DEF Net, Unbinds, RoutesStay
<1>4. Routed'
    <2>1. \A d \in wire : d.id \in DOMAIN sends /\ sends[d.id].to = d.to
        BY DEF Net, Routed, Inv, TypeOK
    <2>2. \A d \in wire' : sends'[d.id].to = d.to
        BY <2>1 DEF RoutesStay, SendsStay
    <2>3. ASSUME NEW n \in Natives, NEW i \in 1..Len(queue'[n])
          PROVE  queue'[n][i].to = port'[n] /\ sends'[queue'[n][i].id].to = port'[n]
        <3>1. PICK j \in 1..Len(queue[n]) : queue'[n][i] = queue[n][j] /\ port'[n] = port[n]
            BY DEF RoutesStay
        <3>2. queue[n][j].id \in DOMAIN sends
            BY DEF Inv, Truthful, IsSent
        <3>3. queue[n][j].to = port[n] /\ sends[queue[n][j].id].to = port[n]
            BY DEF Net, Routed
        <3> QED BY <3>1, <3>2, <3>3 DEF RoutesStay, SendsStay
    <2> QED BY <2>2, <2>3 DEF Routed
<1> QED BY <1>1, <1>2, <1>3, <1>4 DEF Net

\* Nothing waits at a descriptor without a port.
LEMMA NothingUnbound ==
    ASSUME Inv, Net, NEW n \in Natives, port[n] = None
    PROVE  \A i \in 1..Len(queue[n]) : FALSE
<1> SUFFICES ASSUME NEW i \in 1..Len(queue[n]) PROVE FALSE
    OBVIOUS
<1>1. queue[n][i] \in Datagrams
    BY ElementOfSeq DEF Inv, Shapes
<1> QED BY <1>1, UdpAssumption DEF Net, Routed, Datagrams, Endpoints

\* A descriptor without a port gets one that nobody has; a datagram may go out.
LEMMA NetGrows ==
    ASSUME Inv, Net, NEW n \in inUse, NEW p \in Ports,
           port' = [port EXCEPT ![n] = p], port[n] = p \/ (port[n] = None /\ p \in Unbound),
           UNCHANGED <<inUse, queue>>, SendsStay,
           \A d \in wire' : d \in wire \/ sends'[d.id].to = d.to,
           \A t \in Threads : At(t, "bind")' =>
                 At(t, "bind") /\ call'[t].pending = call[t].pending /\ call[t].pending # n
    PROVE  Net'
<1>1. port \in [Natives -> Ports \cup {None}] /\ inUse \subseteq Natives
    BY DEF Inv, TypeOK
<1>2. port'[n] = p /\ \A m \in Natives \ {n} : port'[m] = port[m]
    BY <1>1
<1>3. PortsApart'
    BY <1>1, <1>2 DEF Net, PortsApart, Unbound
<1>4. Unused'
    BY <1>2 DEF Net, Unused
<1>5. Unbinds'
    <2> SUFFICES ASSUME NEW t \in Threads, At(t, "bind")' PROVE port'[call'[t].pending] = None
        BY DEF Unbinds
    <2>1. At(t, "bind") /\ call'[t].pending = call[t].pending /\ call[t].pending # n
        OBVIOUS
    <2>2. call[t].pending \in Natives
        BY <2>1 DEF At, Idle, Inv, CallShape, Stage
    <2> QED BY <1>2, <2>1, <2>2 DEF Net, Unbinds
<1>6. Routed'
    <2>1. \A d \in wire : d.id \in DOMAIN sends /\ sends[d.id].to = d.to
        BY DEF Net, Routed, Inv, TypeOK
    <2>2. \A d \in wire' : sends'[d.id].to = d.to
        BY <2>1 DEF SendsStay
    <2>3. ASSUME NEW m \in Natives, NEW i \in 1..Len(queue[m])
          PROVE  queue[m][i].to = port'[m] /\ sends'[queue[m][i].id].to = port'[m]
        <3>1. port'[m] = port[m]
            BY <1>2, NothingUnbound
        <3>2. queue[m][i].id \in DOMAIN sends
            BY DEF Inv, Truthful, IsSent
        <3> QED BY <3>1, <3>2 DEF Net, Routed, SendsStay
    <2> QED BY <2>2, <2>3 DEF Routed
<1> QED BY <1>3, <1>4, <1>5, <1>6 DEF Net

\* Closing descriptor n, or nothing.
LEMMA NetFreed ==
    ASSUME Inv, Net, NEW n \in Natives \cup {InvalidHandle},
           IF n = InvalidHandle THEN UNCHANGED system ELSE Freed(n),
           SendsStay,
           \A t \in Threads : At(t, "bind")' => At(t, "bind") /\ call'[t].pending = call[t].pending
    PROVE  Net'
<1>1. /\ inUse' = inUse \ {n} /\ wire' = wire
      /\ \A m \in Natives : port'[m] = IF m = n THEN None ELSE port[m]
    BY FreedEffect
<1>2. \A m \in Natives : Len(queue'[m]) = 0 \/ (m # n /\ queue'[m] = queue[m])
    <2>1. CASE n = InvalidHandle
        BY <2>1, UdpAssumption DEF system
    <2>2. CASE n # InvalidHandle
        <3>1. queue' = [queue EXCEPT ![n] = <<>>] /\ n \in Natives
            BY <2>2 DEF Freed
        <3>2. Len(<<>>) = 0
            OBVIOUS
        <3> QED BY <3>1, <3>2 DEF Inv, Shapes
    <2> QED BY <2>1, <2>2
<1>3. \A m \in Natives : \A i \in 1..Len(queue'[m]) :
          port'[m] = port[m] /\ \E j \in 1..Len(queue[m]) : queue'[m][i] = queue[m][j]
    BY <1>1, <1>2
<1>4. RoutesStay
    BY <1>1, <1>3 DEF RoutesStay
<1> QED BY <1>4, NetStays

\* A call that begins or ends, or a step that only writes to the history.
LEMMA NetCalls ==
    ASSUME Inv, Net, NEW t \in Threads, NEW c, c.step # "bind", call' = [call EXCEPT ![t] = c],
           UNCHANGED <<inUse, port, wire, queue>>, SendsStay
    PROVE  Net'
<1>1. \A u \in Threads : At(u, "bind")' => At(u, "bind") /\ call'[u] = call[u]
    BY DEF At, Inv, Shapes
<1>2. RoutesStay
    BY <1>1 DEF RoutesStay
<1> QED BY <1>2, NetStays

LEMMA NetBegins ==
    ASSUME Inv, Net, NEW t \in Threads
    PROVE  /\ \A o \in Sockets, p \in Ports : Bind(t, o, p) => Net'
           /\ \A o \in Sockets, p \in Endpoints, length \in Lengths : SendTo(t, o, p, length) => Net'
           /\ \A o \in Sockets, length \in Lengths : ReceiveFrom(t, o, length) => Net'
<1>1. ASSUME NEW o \in Sockets, NEW p \in Ports, Bind(t, o, p) PROVE Net'
    <2> DEFINE c == [Idle EXCEPT !.step = "create", !.object = o, !.port = p]
    <2>1. c.step # "bind"
        BY DEF Idle
    <2>2. call' = [call EXCEPT ![t] = c] /\ UNCHANGED <<inUse, port, wire, queue, sends>>
        BY <1>1 DEF Bind, Begins, system
    <2> HIDE DEF c
    <2> QED BY <2>1, <2>2, NetCalls DEF SendsStay
<1>2. ASSUME NEW o \in Sockets, NEW p \in Endpoints, NEW length \in Lengths, SendTo(t, o, p, length)
      PROVE  Net'
    <2> DEFINE c == [Idle EXCEPT !.step = IF IsValid(o) THEN "send" ELSE "create",
                                 !.object = o, !.id = Len(sends) + 1]
    <2>1. c.step # "bind"
        BY DEF Idle
    <2>2. call' = [call EXCEPT ![t] = c] /\ UNCHANGED <<inUse, port, wire, queue>>
        BY <1>2 DEF SendTo, Begins, system
    <2> HIDE DEF c
    <2>3. length \in 0..MaxTransferLength
        BY <1>2, UdpAssumption DEF SendTo, Transferable, Lengths
    <2>4. SendsStay
        BY <1>2, <2>3, NewSend DEF SendTo, Inv, SendsStay
    <2> QED BY <2>1, <2>2, <2>4, NetCalls
<1>3. ASSUME NEW o \in Sockets, NEW length \in Lengths, ReceiveFrom(t, o, length) PROVE Net'
    <2> DEFINE c == [Idle EXCEPT !.step = "receive", !.object = o, !.length = length]
    <2>1. c.step # "bind"
        BY DEF Idle
    <2>2. call' = [call EXCEPT ![t] = c] /\ UNCHANGED <<inUse, port, wire, queue, sends>>
        BY <1>3 DEF ReceiveFrom, Begins, system
    <2> HIDE DEF c
    <2> QED BY <2>1, <2>2, NetCalls DEF SendsStay
<1> QED BY <1>1, <1>2, <1>3

\* A call that fails, and one that ends by telling its caller.
LEMMA NetGoes ==
    ASSUME Inv, Net, NEW t \in Threads, NEW step \in {"adopt", "failed"}, Goes(t, step),
           UNCHANGED <<inUse, port, wire, queue, sends>>
    PROVE  Net'
<1>1. Keeps(t, call[t].pending, step)
    BY GoesOn
<1>2. RoutesStay
    BY <1>1 DEF RoutesStay, SendsStay, Keeps, At
<1> QED BY <1>2, NetStays

LEMMA NetCreate ==
    ASSUME Inv, Net, NEW t \in Threads, Create(t)
    PROVE  Net'
<1>1. UNCHANGED <<port, wire, queue, sends>> /\ At(t, "create")
    BY DEF Create, history
<1>2. ASSUME NEW n \in Free, inUse' = inUse \cup {n},
             call' = [call EXCEPT ![t].pending = n, ![t].step = IF call[t].id = 0 THEN "bind" ELSE "send"]
      PROVE  Net'
    <2>1. n \in Natives /\ n \notin inUse /\ port[n] = None
        BY <1>2 DEF Free, Net, Unused
    <2>2. call'[t].pending = n /\ \A u \in Threads \ {t} : call'[u] = call[u]
        BY <1>2 DEF Inv, Shapes, CallRecords
    <2>3. PortsApart' /\ Unused' /\ Routed'
        BY <1>1, <1>2 DEF Net, PortsApart, Unused, Routed
    <2>4. Unbinds'
        BY <1>1, <2>1, <2>2 DEF Net, Unbinds, At
    <2> QED BY <2>3, <2>4 DEF Net
<1>3. CASE Goes(t, "failed") /\ UNCHANGED inUse
    BY <1>1, <1>3, NetGoes
<1> QED BY <1>2, <1>3 DEF Create

LEMMA NetBind ==
    ASSUME Inv, Net, NEW t \in Threads, NativeBind(t)
    PROVE  Net'
<1>1. UNCHANGED <<inUse, wire, queue, sends>> /\ At(t, "bind")
    BY DEF NativeBind, history
<1>2. CASE Goes(t, "failed") /\ UNCHANGED port
    BY <1>1, <1>2, NetGoes
<1>3. CASE /\ call[t].port \in Unbound /\ Goes(t, "adopt")
           /\ port' = [port EXCEPT ![call[t].pending] = call[t].port]
    <2> DEFINE n == call[t].pending
               p == call[t].port
    <2>1. n \in Natives /\ p \in Ports /\ n # InvalidHandle
        BY <1>1, UdpAssumption DEF At, Idle, Inv, CallShape, Stage
    <2>2. n \in inUse /\ port[n] = None
        BY <1>1, <2>1 DEF Inv, TypeOK, Net, Unbinds
    <2>3. Keeps(t, n, "adopt")
        BY <1>3, GoesOn
    <2>4. \A u \in Threads : At(u, "bind")' =>
                At(u, "bind") /\ call'[u].pending = call[u].pending /\ call[u].pending # n
        BY <2>1, <2>3 DEF Keeps, At, Inv, OwnedOnce
    <2>5. SendsStay
        BY <1>1 DEF SendsStay
    <2>6. port' = [port EXCEPT ![n] = p] /\ p \in Unbound
        BY <1>3
    <2> HIDE DEF n, p
    <2> QED BY <1>1, <2>1, <2>2, <2>4, <2>5, <2>6, NetGrows
<1> QED BY <1>2, <1>3 DEF NativeBind

LEMMA NetHand ==
    ASSUME Inv, Net, NEW t \in Threads, At(t, "send"), NEW count \in 0..MaxTransferLength,
           Hand(Handle(t), call[t].id, count), NEW step \in {"adopt", "failed"}, Goes(t, step)
    PROVE  Net'
<1> DEFINE n == Handle(t)
           id == call[t].id
           p == sends'[id].from
<1>1. Keeps(t, call[t].pending, step)
    BY GoesOn
<1>2. /\ call[t].object \in Sockets
      /\ \/ call[t].pending \in Natives /\ ~IsValid(call[t].object)
         \/ call[t].pending = InvalidHandle /\ IsValid(call[t].object)
    BY DEF At, Idle, Inv, CallShape, Stage
<1>3. m_handle \in [Sockets -> Natives \cup {InvalidHandle}]
    BY DEF Inv, TypeOK
<1>4. n \in Natives
    BY <1>2, <1>3 DEF Handle, IsValid
<1>5. n \in inUse
    BY <1>2, <1>4 DEF Inv, OwnedOnce, Handle
<1>6. \A u \in Threads : call[u].pending = n => u = t
    BY <1>2, <1>4 DEF Inv, OwnedOnce, Handle
<1>7. /\ DOMAIN sends' = DOMAIN sends
      /\ \A i \in DOMAIN sends \ {id} : sends'[i] = sends[i]
      /\ sends'[id].to = sends[id].to
      /\ p \in Ports
      /\ port' = [port EXCEPT ![n] = p]
      /\ port[n] # None => p = port[n]
      /\ wire' = wire \cup {[id |-> id, from |-> p, to |-> sends[id].to, size |-> count]}
      /\ UNCHANGED <<inUse, queue>>
    BY <1>4, HandEffect
<1>8. port[n] = p \/ (port[n] = None /\ p \in Unbound)
    <2>1. CASE port[n] # None
        BY <1>7, <2>1
    <2>2. CASE port[n] = None
        <3>1. PICK q \in Unbound : port' = [port EXCEPT ![n] = q]
            BY <2>2 DEF Hand
        <3>2. p = q
            BY <1>4, <1>7, <3>1 DEF Inv, TypeOK
        <3> QED BY <2>2, <3>1, <3>2
    <2> QED BY <2>1, <2>2
<1>9. SendsStay
    BY <1>7 DEF SendsStay
<1> HIDE DEF n, id, p
<1>10. \A d \in wire' : d \in wire \/ sends'[d.id].to = d.to
    BY <1>7
<1>11. \A u \in Threads : At(u, "bind")' =>
            At(u, "bind") /\ call'[u].pending = call[u].pending /\ call[u].pending # n
    BY <1>1, <1>6 DEF Keeps, At
<1> QED BY <1>5, <1>7, <1>8, <1>9, <1>10, <1>11, NetGrows

LEMMA NetSendTo ==
    ASSUME Inv, Net, NEW t \in Threads, NativeSendTo(t)
    PROVE  Net'
<1> DEFINE length == sends[call[t].id].length
<1>1. At(t, "send")
    BY DEF NativeSendTo
<1>2. length \in 0..MaxTransferLength
    <2>1. call[t].id \in DOMAIN sends
        BY <1>1 DEF At, Idle, Inv, CallShape, Stage, SendShape
    <2>2. sends[call[t].id] \in SendRecords
        BY <2>1, SendsType, ElementOfSeq DEF Inv
    <2> QED BY <2>2 DEF SendRecords
<1>3. CASE Hand(Handle(t), call[t].id, length) /\ Goes(t, "adopt")
    BY <1>1, <1>2, <1>3, NetHand
<1>4. ASSUME NEW count \in 0..(length - 1), Hand(Handle(t), call[t].id, count), Goes(t, "failed")
      PROVE  Net'
    <2>1. count \in 0..MaxTransferLength
        BY <1>2, UdpAssumption
    <2> QED BY <1>1, <1>4, <2>1, NetHand
<1>5. CASE Goes(t, "failed") /\ UNCHANGED <<system, sends>>
    BY <1>5, NetGoes DEF system
<1>6. CASE UNCHANGED <<call, system, sends>>
    <2>1. RoutesStay
        BY <1>6 DEF system, RoutesStay, SendsStay, At
    <2> QED BY <2>1, NetStays
<1> QED BY <1>3, <1>4, <1>5, <1>6 DEF NativeSendTo

LEMMA NetAnswers ==
    ASSUME Inv, Net, NEW t \in Threads, Adopt(t) \/ Discard(t)
    PROVE  Net'
<1>1. /\ call' = [call EXCEPT ![t] = Idle] /\ Idle.step # "bind"
      /\ \A u \in Threads : At(u, "bind")' => At(u, "bind") /\ call'[u].pending = call[u].pending
    BY DEF Adopt, Discard, Return, Idle, At, Inv, Shapes
<1>2. SendsStay
    BY ToldEffect DEF Adopt, Discard, SendsStay
<1>3. CASE Adopt(t)
    <2>1. call[t].pending # InvalidHandle => ~IsValid(call[t].object)
        BY <1>3, UdpAssumption DEF Adopt, At, Idle, Inv, CallShape, Stage
    <2>2. UNCHANGED <<inUse, port, wire, queue>>
        BY <1>3, <2>1 DEF Adopt, system
    <2> QED BY <1>1, <1>2, <2>2, NetCalls
<1>4. CASE Discard(t)
    <2>1. call[t].pending \in Natives \cup {InvalidHandle}
        BY DEF Inv, Shapes, CallRecords
    <2> QED BY <1>1, <1>2, <1>4, <2>1, NetFreed DEF Discard
<1> QED BY <1>3, <1>4

LEMMA NetGivesUp ==
    ASSUME Inv, Net, NEW o \in Sockets,
           IF m_handle[o] = InvalidHandle THEN UNCHANGED system ELSE Freed(m_handle[o]),
           sends' = Orphaned(o), UNCHANGED call
    PROVE  Net'
<1>1. SendsStay
    BY OrphanedEffect DEF SendsStay
<1>2. m_handle[o] \in Natives \cup {InvalidHandle}
    BY DEF Inv, TypeOK
<1>3. \A t \in Threads : At(t, "bind")' => At(t, "bind") /\ call'[t].pending = call[t].pending
    BY DEF At
<1> QED BY <1>1, <1>2, <1>3, NetFreed

\* What a receive does to its queue.
LEMMA TakenEffect ==
    ASSUME Inv, NEW n \in Natives, queue[n] # <<>>, queue' = [queue EXCEPT ![n] = Tail(@)]
    PROVE  /\ Head(queue[n]) \in Datagrams /\ Len(queue[n]) \in Nat \ {0} /\ Head(queue[n]) = queue[n][1]
           /\ queue'[n] # queue[n]
           /\ \A m \in Natives : \A i \in 1..Len(queue'[m]) : \E j \in 1..Len(queue[m]) : queue'[m][i] = queue[m][j]
<1>1. queue \in [Natives -> Seq(Datagrams)] /\ queue[n] \in Seq(Datagrams)
    BY DEF Inv, Shapes
<1>2. /\ Head(queue[n]) \in Datagrams
      /\ Len(Tail(queue[n])) = Len(queue[n]) - 1 /\ Len(queue[n]) \in Nat \ {0}
      /\ \A i \in 1..Len(Tail(queue[n])) : Tail(queue[n])[i] = queue[n][i + 1]
      /\ Head(queue[n]) = queue[n][1]
    BY <1>1, HeadTailProperties, EmptySeq
<1>3. queue'[n] = Tail(queue[n]) /\ \A m \in Natives \ {n} : queue'[m] = queue[m]
    BY <1>1
<1>4. ASSUME NEW i \in 1..Len(queue'[n])
      PROVE  \E j \in 1..Len(queue[n]) : queue'[n][i] = queue[n][j]
    <2>1. i \in 1..(Len(queue[n]) - 1) /\ i \in 1..Len(Tail(queue[n]))
        BY <1>2, <1>3
    <2>2. i + 1 \in 1..Len(queue[n])
        BY <1>2, <2>1
    <2>3. queue'[n][i] = queue[n][i + 1]
        BY <1>2, <1>3, <2>1
    <2> QED BY <2>2, <2>3
<1>5. queue'[n] # queue[n]
    <2>1. \A k \in Nat : k - 1 # k
        OBVIOUS
    <2>2. Len(queue'[n]) # Len(queue[n])
        BY <1>2, <1>3, <2>1
    <2> QED BY <2>2
<1> QED BY <1>2, <1>3, <1>4, <1>5

LEMMA NetReceive ==
    ASSUME Inv, Net, NEW t \in Threads, NativeReceive(t)
    PROVE  Net'
<1> DEFINE n == m_handle[call[t].object]
<1>1. n \in Natives
    BY DEF NativeReceive, At, Idle, Inv, CallShape, Stage, IsValid, TypeOK
<1>2. UNCHANGED <<inUse, port, wire, sends>>
    BY DEF NativeReceive
<1>3. \A u \in Threads : At(u, "bind")' => At(u, "bind") /\ call'[u].pending = call[u].pending
    BY DEF NativeReceive, Report, Return, At, Idle, Inv, Shapes
<1>4. \A m \in Natives : \A i \in 1..Len(queue'[m]) : \E j \in 1..Len(queue[m]) : queue'[m][i] = queue[m][j]
    <2>1. CASE queue[n] # <<>> /\ queue' = [queue EXCEPT ![n] = Tail(@)]
        BY <1>1, <2>1, TakenEffect
    <2>2. CASE UNCHANGED queue
        BY <2>2
    <2> QED BY <2>1, <2>2 DEF NativeReceive
<1>5. RoutesStay
    BY <1>2, <1>3, <1>4 DEF RoutesStay, SendsStay
<1> QED BY <1>5, NetStays

LEMMA NetDeliver ==
    ASSUME Inv, Net, NEW d \in wire, NEW n \in Natives, Deliver(d, n)
    PROVE  Net'
<1>1. /\ UNCHANGED <<inUse, port, call, sends>>
      /\ queue' = [queue EXCEPT ![n] = Append(@, d)] /\ wire' \subseteq wire
      /\ port[n] = d.to
    BY DEF Deliver, history
<1>2. queue \in [Natives -> Seq(Datagrams)] /\ d \in Datagrams
    BY DEF Inv, Shapes
<1>3. /\ Len(Append(queue[n], d)) = Len(queue[n]) + 1
      /\ \A i \in 1..Len(queue[n]) : Append(queue[n], d)[i] = queue[n][i]
      /\ Append(queue[n], d)[Len(queue[n]) + 1] = d /\ Len(queue[n]) \in Nat
    BY <1>2, AppendProperties, LenProperties
<1>4. /\ queue'[n] = Append(queue[n], d)
      /\ \A m \in Natives \ {n} : queue'[m] = queue[m]
    BY <1>1, <1>2
<1>5. ASSUME NEW m \in Natives, NEW i \in 1..Len(queue'[m])
      PROVE  queue'[m][i].to = port[m] /\ sends[queue'[m][i].id].to = port[m]
    <2>1. CASE m = n
        <3>1. i \in 1..Len(queue[n]) \/ queue'[m][i] = d
            BY <1>3, <1>4, <2>1
        <3> QED BY <1>1, <1>3, <1>4, <2>1, <3>1 DEF Net, Routed
    <2>2. CASE m # n
        BY <1>4, <2>2 DEF Net, Routed
    <2> QED BY <2>1, <2>2
<1>6. Routed'
    BY <1>1, <1>5 DEF Net, Routed
<1> QED BY <1>1, <1>6 DEF Net, PortsApart, Unused, Unbinds, At

LEMMA NetStray ==
    ASSUME Inv, Net, NEW q \in Others, NEW p \in Ports, NEW length \in 0..MaxTransferLength, Stray(q, p, length)
    PROVE  Net'
<1> DEFINE id == Len(sends) + 1
           r == [to |-> p, from |-> q, length |-> length, handed |-> <<length>>,
                 told |-> "nothing", closed |-> TRUE]
<1>1. /\ UNCHANGED <<inUse, port, queue, call>> /\ sends' = Append(sends, r)
      /\ wire' = wire \cup {[id |-> id, from |-> q, to |-> p, size |-> length]}
    BY DEF Stray
<1>2. sends \in Seq(SendRecords) /\ DOMAIN sends = 1..Len(sends) /\ Len(sends) \in Nat
    BY SendsType DEF Inv
<1>3. r \in SendRecords /\ r.to = p
    BY DEF SendRecords, Endpoints
<1> HIDE DEF r
<1>4. /\ \A i \in DOMAIN sends : i \in DOMAIN sends' /\ sends'[i] = sends[i]
      /\ sends'[id].to = p
    BY <1>1, <1>2, <1>3, AppendProperties, LenProperties
<1> HIDE DEF id
<1>5. Routed'
    <2>1. \A d \in wire' : sends'[d.id].to = d.to
        <3>1. \A d \in wire : d.id \in DOMAIN sends /\ sends[d.id].to = d.to
            BY DEF Net, Routed, Inv, TypeOK
        <3>2. \A d \in wire' : d \in wire \/ (d.id = id /\ d.to = p)
            BY <1>1
        <3> QED BY <1>4, <3>1, <3>2
    <2>2. ASSUME NEW n \in Natives, NEW i \in 1..Len(queue[n])
          PROVE  queue[n][i].to = port[n] /\ sends'[queue[n][i].id].to = port[n]
        <3>1. queue[n][i].id \in DOMAIN sends
            BY DEF Inv, Truthful, IsSent
        <3> QED BY <1>4, <3>1 DEF Net, Routed
    <2> QED BY <1>1, <2>1, <2>2 DEF Routed
<1> QED BY <1>1, <1>5 DEF Net, PortsApart, Unused, Unbinds, At

LEMMA NetStep == Inv /\ Net /\ [Next]_vars => Net'
<1> SUFFICES ASSUME Inv, Net, [Next]_vars PROVE Net'
    OBVIOUS
<1>1. ASSUME NEW t \in Threads, Step(t) PROVE Net'
    BY <1>1, NetCreate, NetBind, NetSendTo, NetAnswers, NetReceive DEF Step
<1>2. ASSUME NEW t \in Threads,
             \/ \E o \in Sockets, p \in Ports : Bind(t, o, p)
             \/ \E o \in Sockets, p \in Endpoints, length \in Lengths : SendTo(t, o, p, length)
             \/ \E o \in Sockets, length \in Lengths : ReceiveFrom(t, o, length)
      PROVE  Net'
    BY <1>2, NetBegins
<1>3. ASSUME NEW t \in Threads, NEW o \in Sockets, Close(t, o) PROVE Net'
    BY <1>3, NetGivesUp DEF Close, IsValid
<1>4. ASSUME NEW t \in Threads, NEW d \in Sockets, NEW s \in Sockets, Move(t, d, s) PROVE Net'
    BY <1>4, NetGivesUp DEF Move, IsValid
<1>5. ASSUME NEW d \in wire, Lose(d) PROVE Net'
    <2>1. RoutesStay
        BY <1>5 DEF Lose, history, RoutesStay, SendsStay, At
    <2> QED BY <2>1, NetStays
<1>6. ASSUME NEW d \in wire, NEW n \in Natives, Deliver(d, n) PROVE Net'
    BY <1>6, NetDeliver
<1>7. ASSUME NEW q \in Others, NEW p \in Ports, NEW length \in 0..MaxTransferLength, Stray(q, p, length)
      PROVE  Net'
    BY <1>7, NetStray
<1>8. CASE UNCHANGED vars
    <2>1. RoutesStay
        BY <1>8 DEF vars, system, history, RoutesStay, SendsStay, At
    <2> QED BY <2>1, NetStays
<1> QED BY <1>1, <1>2, <1>3, <1>4, <1>5, <1>6, <1>7, <1>8 DEF Next

\* Datagrams wait only where they were sent to, at a port nobody else has.
THEOREM Delivery == Spec => []Net
<1>1. Init => Net
    BY DEF Init, Net, PortsApart, Unused, Unbinds, Routed, At, Idle
<1>2. Inv /\ Net /\ [Next]_vars => Net'
    BY NetStep
<1> QED BY <1>1, <1>2, Invariance, PTL DEF Spec

-----------------------------------------------------------------------------
(***************************************************************************)
(* UdpEcho: what the steps of one call, and those of the network, leave    *)
(* of what main relies on.                                                 *)
(***************************************************************************)
\* Object o keeps its descriptor and its port.
Stands(o) == m_handle'[o] = m_handle[o] /\ port'[m_handle[o]] = port[m_handle[o]]

OthersIdle(t) == \A u \in Threads \ {t} : call'[u] = call[u]
OthersStand(o) == \A x \in Sockets \ {o} : m_handle'[x] = m_handle[x]

\* The base of every step: the UdpSocket invariant.
LEMMA BaseStep ==
    ASSUME Inv, Net,
           \/ Next
           \/ UNCHANGED <<m_handle, inUse, port, wire, queue, call, sends, got>>
           \/ /\ At(Main, "receive") /\ Return(Main)
              /\ UNCHANGED <<m_handle, inUse, port, wire, queue, sends, got>>
    PROVE  Whole' /\ Net'
<1>1. CASE Next
    BY <1>1, InvStep, NetStep
<1>2. CASE UNCHANGED <<m_handle, inUse, port, wire, queue, call, sends, got>>
    <2>1. RoutesStay
        BY <1>2 DEF RoutesStay, SendsStay, At
    <2> QED BY <1>2, <2>1, StutterStep, NetStays
<1>3. CASE /\ At(Main, "receive") /\ Return(Main)
           /\ UNCHANGED <<m_handle, inUse, port, wire, queue, sends, got>>
    <2>1. Main \in Threads
        BY EchoAssumption
    <2>2. Truthful'
        BY <1>3, TruthfulStays DEF SentStays
    <2>3. Whole'
        BY <1>3, <2>1, <2>2, ReceiveReturns DEF Inv, Shapes, TypeOK
    <2>4. SendsStay /\ Idle.step # "bind"
        BY <1>3 DEF SendsStay, Idle
    <2>5. Net'
        BY <1>3, <2>1, <2>4, NetCalls DEF Return
    <2> QED BY <2>3, <2>5
<1> QED BY <1>1, <1>2, <1>3

\* SendTo writes down a new send of the object's own.
LEMMA SendToEffect ==
    ASSUME Inv, NEW t \in Threads, NEW o \in Sockets, NEW p \in Endpoints, NEW length \in Lengths,
           SendTo(t, o, p, length)
    PROVE  /\ call'[t].object = o /\ call'[t].id = Len(sends) + 1 /\ call'[t].step \in {"create", "send"}
           /\ OthersIdle(t) /\ UNCHANGED <<m_handle, port, got>>
           /\ DOMAIN sends' = DOMAIN sends \cup {Len(sends) + 1}
           /\ Len(sends) + 1 \notin DOMAIN sends /\ Len(sends) + 1 # 0
           /\ \A i \in DOMAIN sends : sends'[i] = sends[i]
           /\ sends'[Len(sends) + 1].to = p /\ sends'[Len(sends) + 1].length = length
           /\ sends'[Len(sends) + 1].from = None
<1> DEFINE start == [Idle EXCEPT !.step = IF IsValid(o) THEN "send" ELSE "create",
                                 !.object = o, !.id = Len(sends) + 1]
<1>1. length \in 0..MaxTransferLength
    BY UdpAssumption DEF SendTo, Transferable, Lengths
<1>2. start.object = o /\ start.id = Len(sends) + 1 /\ start.step \in {"create", "send"}
    BY DEF Idle
<1>3. Begins(t, start)
    BY DEF SendTo
<1> HIDE DEF start
<1>4. /\ UNCHANGED <<m_handle, port, got>>
      /\ call'[t] = start /\ \A u \in Threads \ {t} : call'[u] = call[u]
    BY <1>3 DEF Begins, system, Inv, Shapes
<1> QED BY <1>1, <1>2, <1>4, NewSend DEF SendTo, Inv, OthersIdle

\* One step of a SendTo: it goes on, or its caller is told.
SendContinues(t) ==
    /\ call'[t].object = call[t].object /\ call'[t].id = call[t].id
    /\ call'[t].step \in {"create", "send", "adopt", "failed"}
    /\ m_handle' = m_handle
SendFails(t) == call'[t] = Idle /\ m_handle' = m_handle /\ sends'[call[t].id].told # "success"
SendSucceeds(t) ==
    LET send == sends'[call[t].id]
        o == call[t].object IN
    /\ call'[t] = Idle /\ send.told = "success"
    /\ m_handle'[o] # InvalidHandle
    /\ send.handed = <<send.length>> /\ send.from = port'[m_handle'[o]]

SendEffect(t) ==
    /\ SentStays /\ DOMAIN sends' = DOMAIN sends /\ got' = got
    /\ OthersIdle(t) /\ OthersStand(call[t].object)
    /\ \A x \in Sockets : IsValid(x) => Stands(x)
    /\ SendContinues(t) \/ SendFails(t) \/ SendSucceeds(t)

LEMMA SendGoesOn ==
    ASSUME Inv, NEW t \in Threads, call[t].step \in {"create", "send"}, NEW h,
           \/ Keeps(t, h, "adopt") \/ Keeps(t, h, "failed") \/ Keeps(t, h, "send"),
           UNCHANGED <<m_handle, got>>, SentStays, DOMAIN sends' = DOMAIN sends,
           \A x \in Sockets : IsValid(x) => port'[m_handle[x]] = port[m_handle[x]]
    PROVE  SendEffect(t)
BY DEF Keeps, SendEffect, SendContinues, OthersIdle, OthersStand, Stands

LEMMA SendCreates ==
    ASSUME Inv, NEW t \in Threads, call[t].id # 0, Create(t)
    PROVE  SendEffect(t)
<1>1. UNCHANGED <<m_handle, port, sends, got>> /\ call[t].step = "create"
    BY DEF Create, history, At
<1>2. SentStays
    BY <1>1 DEF SentStays
<1>3. ASSUME NEW n \in Free,
             call' = [call EXCEPT ![t].pending = n, ![t].step = IF call[t].id = 0 THEN "bind" ELSE "send"]
      PROVE  Keeps(t, n, "send")
    <2>1. [call[t] EXCEPT !.pending = n, !.step = "send"] \in CallRecords
        BY DEF Free, Inv, Shapes, CallRecords
    <2>2. call' = [call EXCEPT ![t] = [call[t] EXCEPT !.pending = n, !.step = "send"]]
        BY <1>3 DEF Inv, Shapes
    <2> QED BY <2>1, <2>2 DEF Inv, Shapes, CallRecords, Keeps
<1>4. CASE Goes(t, "failed")
    BY <1>1, <1>2, <1>4, GoesOn, SendGoesOn
<1> QED BY <1>1, <1>2, <1>3, <1>4, SendGoesOn DEF Create

LEMMA SendHands ==
    ASSUME Inv, NEW t \in Threads, NativeSendTo(t)
    PROVE  SendEffect(t)
<1> DEFINE length == sends[call[t].id].length
           n == Handle(t)
           id == call[t].id
<1>1. At(t, "send") /\ call[t].step = "send" /\ UNCHANGED <<m_handle, got>>
    BY DEF NativeSendTo, At
<1>2. id \in DOMAIN sends /\ sends[id].handed = <<>> /\ sends[id].from = None
    BY <1>1 DEF At, Idle, Inv, CallShape, Stage, SendShape
<1>3. length \in 0..MaxTransferLength
    <2>1. sends[id] \in SendRecords
        BY <1>2, SendsType, ElementOfSeq DEF Inv
    <2> QED BY <2>1 DEF SendRecords
<1>4. /\ call[t].object \in Sockets
      /\ \/ call[t].pending \in Natives /\ ~IsValid(call[t].object)
         \/ call[t].pending = InvalidHandle /\ IsValid(call[t].object)
    BY <1>1 DEF At, Idle, Inv, CallShape, Stage
<1>5. m_handle \in [Sockets -> Natives \cup {InvalidHandle}]
    BY DEF Inv, TypeOK
<1>6. n \in Natives
    BY <1>4, <1>5 DEF Handle, IsValid
<1>7. ASSUME NEW count \in 0..MaxTransferLength, Hand(n, id, count),
             NEW step \in {"adopt", "failed"}, Goes(t, step)
      PROVE  SendEffect(t)
    <2>1. /\ DOMAIN sends' = DOMAIN sends
          /\ \A i \in DOMAIN sends \ {id} : sends'[i] = sends[i]
          /\ sends'[id].to = sends[id].to /\ sends'[id].length = sends[id].length
          /\ sends'[id].from \in Ports
          /\ port' = [port EXCEPT ![n] = sends'[id].from]
          /\ port[n] # None => sends'[id].from = port[n]
        BY <1>1, <1>6, <1>7, HandEffect
    <2>2. sends'[id].from \notin Others /\ sends[id].from \notin Others
        BY <1>2, <2>1, UdpAssumption
    <2>3. SentStays
        BY <1>2, <2>1, <2>2 DEF SentStays
    <2>4. \A x \in Sockets : IsValid(x) => port[m_handle[x]] # None /\ m_handle[x] \in Natives
        BY <1>5 DEF Inv, OwnedOnce, IsValid
    <2>5. \A x \in Sockets : IsValid(x) => port'[m_handle[x]] = port[m_handle[x]]
        BY <2>1, <2>4 DEF Inv, TypeOK
    <2> HIDE DEF n, id
    <2> QED BY <1>1, <1>7, <2>1, <2>3, <2>5, GoesOn, SendGoesOn
<1>8. ASSUME NEW count \in 0..(length - 1), Hand(n, id, count), Goes(t, "failed")
      PROVE  SendEffect(t)
    <2>1. count \in 0..MaxTransferLength
        BY <1>3, UdpAssumption
    <2> QED BY <1>7, <1>8, <2>1
<1>9. CASE Goes(t, "failed") /\ UNCHANGED <<system, sends>>
    <2>1. SentStays /\ port' = port
        BY <1>9 DEF SentStays, system
    <2> QED BY <1>1, <1>9, <2>1, GoesOn, SendGoesOn
<1>10. CASE UNCHANGED <<call, system, sends>>
    <2>1. SentStays /\ port' = port /\ call' = call
        BY <1>10 DEF SentStays, system
    <2> QED BY <1>1, <1>10, <2>1
            DEF SendEffect, SendContinues, OthersIdle, OthersStand, Stands
<1>11. CASE Hand(n, id, length) /\ Goes(t, "adopt")
    BY <1>3, <1>7, <1>11
<1> QED BY <1>8, <1>9, <1>10, <1>11 DEF NativeSendTo

LEMMA SendAdopts ==
    ASSUME Inv, NEW t \in Threads, call[t].id # 0, Adopt(t)
    PROVE  SendEffect(t)
<1> DEFINE o == call[t].object
           n == call[t].pending
           id == call[t].id
<1>1. /\ o \in Sockets /\ call[t].step = "adopt"
      /\ \/ n \in Natives /\ ~IsValid(o)
         \/ n = InvalidHandle /\ IsValid(o)
    BY DEF Adopt, At, Idle, Inv, CallShape, Stage
<1>2. m_handle \in [Sockets -> Natives \cup {InvalidHandle}]
    BY DEF Inv, TypeOK
<1>3. /\ m_handle'[o] = Handle(t) /\ Handle(t) # InvalidHandle
      /\ \A x \in Sockets \ {o} : m_handle'[x] = m_handle[x]
      /\ IsValid(o) => m_handle'[o] = m_handle[o]
    BY <1>1, <1>2, UdpAssumption DEF Adopt, Handle, IsValid
<1>4. UNCHANGED <<port, got>> /\ call'[t] = Idle /\ OthersIdle(t)
    BY <1>1 DEF Adopt, Return, system, Inv, Shapes, OthersIdle
<1>5. /\ DOMAIN sends' = DOMAIN sends
      /\ \A i \in DOMAIN sends :
            /\ sends'[i].to = sends[i].to
            /\ sends'[i].length = sends[i].length /\ sends'[i].handed = sends[i].handed
            /\ sends'[i].from = sends[i].from
            /\ sends'[i].told = IF i = id THEN "success" ELSE sends[i].told
    BY ToldEffect DEF Adopt
<1>6. /\ id \in DOMAIN sends /\ sends[id].handed = <<sends[id].length>>
      /\ sends[id].from = port[Handle(t)]
    BY <1>1 DEF Inv, SendShape
<1>7. SentStays
    BY <1>5 DEF SentStays
<1>8. \A x \in Sockets : IsValid(x) => Stands(x)
    BY <1>3, <1>4 DEF Stands
<1>9. SendSucceeds(t)
    BY <1>3, <1>4, <1>5, <1>6 DEF SendSucceeds
<1>10. OthersStand(call[t].object)
    BY <1>3 DEF OthersStand
<1> QED BY <1>4, <1>5, <1>7, <1>8, <1>9, <1>10 DEF SendEffect

LEMMA SendDiscards ==
    ASSUME Inv, NEW t \in Threads, call[t].id # 0, Discard(t)
    PROVE  SendEffect(t)
<1> DEFINE n == call[t].pending
           id == call[t].id
<1>1. n \in Natives \cup {InvalidHandle} /\ UNCHANGED <<m_handle, got>> /\ id \in DOMAIN sends
    BY DEF Inv, Shapes, CallRecords, Discard, SendShape
<1>2. \A m \in Natives : port'[m] = IF m = n THEN None ELSE port[m]
    BY <1>1, FreedEffect DEF Discard, system
<1>3. \A x \in Sockets : IsValid(x) => m_handle[x] \in Natives /\ m_handle[x] # n
    BY DEF IsValid, Inv, OwnedOnce, TypeOK
<1>4. /\ DOMAIN sends' = DOMAIN sends
      /\ \A i \in DOMAIN sends :
            /\ sends'[i].to = sends[i].to
            /\ sends'[i].length = sends[i].length /\ sends'[i].handed = sends[i].handed
            /\ sends'[i].from = sends[i].from
            /\ sends'[i].told = IF i = id THEN "failure" ELSE sends[i].told
    BY ToldEffect DEF Discard
<1>5. call'[t] = Idle /\ OthersIdle(t)
    BY DEF Discard, Return, Inv, Shapes, OthersIdle
<1>6. SentStays /\ SendFails(t)
    BY <1>1, <1>4, <1>5 DEF SentStays, SendFails
<1>7. \A x \in Sockets : IsValid(x) => Stands(x)
    BY <1>1, <1>2, <1>3 DEF Stands
<1> QED BY <1>1, <1>4, <1>5, <1>6, <1>7 DEF SendEffect, OthersStand

LEMMA SendStep ==
    ASSUME Inv, NEW t \in Threads, call[t].id # 0, Step(t)
    PROVE  SendEffect(t)
<1>1. call[t].step \notin {"bind", "receive"}
    BY DEF Inv, CallShape, Stage, Idle
<1> QED BY <1>1, SendCreates, SendHands, SendAdopts, SendDiscards
        DEF Step, NativeBind, NativeReceive, At

\* One step of a Bind: until it returns, nothing that main looks at changes.
BindEffect(t) ==
    /\ UNCHANGED <<sends, got>> /\ OthersIdle(t) /\ OthersStand(call[t].object)
    /\ \/ call'[t] = Idle
       \/ /\ call'[t].object = call[t].object /\ call'[t].id = 0
          /\ call'[t].step \notin {"idle", "receive"} /\ m_handle' = m_handle

LEMMA BindGoesOn ==
    ASSUME Inv, NEW t \in Threads, call[t].id = 0, NEW h,
           \/ Keeps(t, h, "bind") \/ Keeps(t, h, "adopt") \/ Keeps(t, h, "failed"),
           UNCHANGED <<m_handle, sends, got>>
    PROVE  BindEffect(t)
BY DEF Keeps, BindEffect, OthersIdle, OthersStand

LEMMA BindSteps ==
    ASSUME Inv, NEW t \in Threads, call[t].id = 0, call[t].step # "receive", Step(t)
    PROVE  BindEffect(t)
<1>1. call[t].step # "send"
    BY DEF Inv, CallShape, Stage, Idle
<1>2. CASE Create(t)
    <2>1. UNCHANGED <<m_handle, sends, got>>
        BY <1>2 DEF Create, history
    <2>2. ASSUME NEW n \in Free,
                 call' = [call EXCEPT ![t].pending = n, ![t].step = IF call[t].id = 0 THEN "bind" ELSE "send"]
          PROVE  Keeps(t, n, "bind")
        <3>1. [call[t] EXCEPT !.pending = n, !.step = "bind"] \in CallRecords
            BY DEF Free, Inv, Shapes, CallRecords
        <3>2. call' = [call EXCEPT ![t] = [call[t] EXCEPT !.pending = n, !.step = "bind"]]
            BY <2>2 DEF Inv, Shapes
        <3> QED BY <3>1, <3>2 DEF Inv, Shapes, CallRecords, Keeps
    <2>3. CASE Goes(t, "failed")
        BY <2>1, <2>3, GoesOn, BindGoesOn
    <2> QED BY <1>2, <2>1, <2>2, <2>3, BindGoesOn DEF Create
<1>3. CASE NativeBind(t)
    <2>1. UNCHANGED <<m_handle, sends, got>>
        BY <1>3 DEF NativeBind, history
    <2> QED BY <1>3, <2>1, GoesOn, BindGoesOn DEF NativeBind
<1>4. CASE Adopt(t) \/ Discard(t)
    <2>1. call'[t] = Idle /\ OthersIdle(t)
        BY <1>4 DEF Adopt, Discard, Return, Inv, Shapes, OthersIdle
    <2>2. UNCHANGED <<sends, got>>
        BY <1>4 DEF Adopt, Discard, Told
    <2>3. OthersStand(call[t].object)
        BY <1>4 DEF Adopt, Discard, Inv, TypeOK, OthersStand
    <2> QED BY <2>1, <2>2, <2>3 DEF BindEffect
<1> QED BY <1>1, <1>2, <1>3, <1>4 DEF Step, NativeSendTo, NativeReceive, At

\* One step of a ReceiveFrom: interrupted, failed, or with a datagram that was
\* sent to the port of this object.
ReceiveEffect(t) ==
    LET n == m_handle[call[t].object]
        d == Head(queue[n])
        receipt == [id |-> d.id, size |-> d.size, sender |-> d.from] IN
    /\ UNCHANGED <<m_handle, port, sends>> /\ OthersIdle(t) /\ got \subseteq got'
    /\ call'[t] \in {call[t], Idle}
    /\ call'[t] = Idle /\ queue'[n] # queue[n] /\ d.size <= call[t].length =>
          receipt \in got' /\ sends[d.id].to = port[n]

LEMMA ReceiveSteps ==
    ASSUME Inv, Net, NEW t \in Threads, At(t, "receive"), Step(t)
    PROVE  ReceiveEffect(t)
<1> DEFINE n == m_handle[call[t].object]
           d == Head(queue[n])
           receipt == [id |-> d.id, size |-> d.size, sender |-> d.from]
<1>1. NativeReceive(t)
    BY DEF Step, Create, NativeBind, NativeSendTo, Adopt, Discard, At
<1>2. n \in Natives
    BY DEF At, Idle, Inv, CallShape, Stage, IsValid, TypeOK
<1>3. UNCHANGED <<m_handle, port, sends>>
    BY <1>1 DEF NativeReceive
<1>4. \A u \in Threads \ {t} : call'[u] = call[u]
    BY <1>1 DEF NativeReceive, Report, Return, Inv, Shapes
<1>5. call'[t] \in {call[t], Idle}
    BY <1>1 DEF NativeReceive, Report, Return, Inv, Shapes
<1>6. got \subseteq got'
    BY <1>1 DEF NativeReceive, Report, Received
<1>7. ASSUME queue'[n] # queue[n], d.size <= call[t].length
      PROVE  receipt \in got' /\ sends[d.id].to = port[n]
    <2>1. queue[n] # <<>> /\ queue' = [queue EXCEPT ![n] = Tail(@)] /\ Report(t, d)
        BY <1>1, <1>7 DEF NativeReceive
    <2>2. d \in Datagrams /\ Len(queue[n]) \in Nat \ {0} /\ d = queue[n][1]
        BY <1>2, <2>1, TakenEffect
    <2>3. d.size \in Nat /\ call[t].length \in Nat
        BY <2>2 DEF Datagrams, Inv, Shapes, CallRecords
    <2>4. ~(d.size > call[t].length)
        <3> HIDE DEF d
        <3> QED BY <1>7, <2>3
    <2>5. receipt \in got'
        BY <2>1, <2>4 DEF Report, Received
    <2>6. 1 \in 1..Len(queue[n])
        BY <2>2
    <2>7. sends[d.id].to = port[n]
        BY <1>2, <2>2, <2>6 DEF Net, Routed
    <2> QED BY <2>5, <2>7
<1> HIDE DEF n, d, receipt
<1> QED BY <1>3, <1>4, <1>5, <1>6, <1>7 DEF ReceiveEffect, OthersIdle, n, d, receipt

-----------------------------------------------------------------------------
(***************************************************************************)
(* The invariant of UdpEcho: what main has achieved at each statement. The *)
(* program's own sends are Own; until the answer is collected they are the *)
(* request and the reply, so a datagram from the server's port that waits  *)
(* at the client can only be the reply.                                    *)
(***************************************************************************)
Contents == {"message", "other", "none"}

Shape ==
    /\ timed \subseteq Sockets
    /\ exit = "running" => \A o \in timed : IsValid(o)
    /\ datagram.sender \in Endpoints \cup {None}
    /\ content \in Seq(Contents) /\ DOMAIN content = DOMAIN sends

\* Only main uses UdpSocket, and only its two objects.
Quiet ==
    /\ \A t \in Threads \ {Main} : call[t] = Idle
    /\ \A o \in Sockets \ {Server, Client} : ~IsValid(o)

Own == {i \in DOMAIN sends : sends[i].from \notin Others}
ClientPort == port[m_handle[Client]]

NoCall == call[Main] = Idle
Receiving(o, length) == At(Main, "receive") /\ call[Main].object = o /\ call[Main].length = length
Sending(o) ==
    /\ call[Main].object = o /\ call[Main].id # 0
    /\ call[Main].step \in {"create", "send", "adopt", "failed"}

\* The server is being bound (example_udp_loopback.cpp:40-46).
Starting ==
    /\ pc = "bind" /\ Own = {} /\ ~IsValid(Server) /\ ~IsValid(Client)
    /\ \/ NoCall
       \/ call[Main].object = Server /\ call[Main].id = 0 /\ call[Main].step \notin {"idle", "receive"}
Bound ==
    /\ pc \in {"time server", "endpoint", "request"} /\ Own = {} /\ NoCall
    /\ IsValid(Server) /\ ~IsValid(Client)

\* Send i is the request; it has gone out from the client's port
\* (example_udp_loopback.cpp:56-65).
Asks(i) ==
    /\ i \in DOMAIN sends
    /\ sends[i].to = ServerPort /\ sends[i].length = MessageLength /\ content[i] = "message"
Requesting ==
    /\ pc = "request" /\ Sending(Client) /\ Own = {call[Main].id}
    /\ IsValid(Server) /\ ~IsValid(Client) /\ Asks(call[Main].id)
Both == IsValid(Server) /\ IsValid(Client)
Asked(r) == Both /\ Asks(r) /\ sends[r].handed = <<MessageLength>> /\ sends[r].from = ClientPort
Serving ==
    /\ pc \in {"time client", "serve"}
    /\ NoCall \/ (pc = "serve" /\ Receiving(Server, BufferLength))
    /\ \E r \in Own : Own = {r} /\ Asked(r)

\* The server got `datagram`, and send i answers it (example_udp_loopback.cpp:69-84).
Got == datagram \in got /\ sends[datagram.id].to = ServerPort
Answers(i) ==
    /\ i \in DOMAIN sends /\ datagram.id < i
    /\ sends[i].to = datagram.sender /\ sends[i].length = datagram.size
    /\ content[i] = content[datagram.id]
Served == pc = "reply" /\ NoCall /\ Got /\ \E r \in Own : Own = {r} /\ Asked(r)
Replying ==
    /\ pc = "reply" /\ Sending(Server) /\ Got /\ Answers(call[Main].id)
    /\ \E r \in Own : Own = {r, call[Main].id} /\ r # call[Main].id /\ Asked(r)
Replied(y) == Answers(y) /\ sends[y].handed = <<sends[y].length>> /\ sends[y].from = ServerPort
Collecting ==
    /\ pc = "collect" /\ (NoCall \/ Receiving(Client, BufferLength)) /\ Got
    /\ \E r, y \in Own : Own = {r, y} /\ r # y /\ Asked(r) /\ Replied(y)

\* What SuccessIsAnExchange promises (example_udp_loopback.cpp:91-93).
Exchange(request, reply) ==
    /\ sends[request.id].length = MessageLength /\ request.id < reply.id
    /\ reply.sender = sends[request.id].to
    /\ sends[reply.id].to = request.sender /\ request.sender \notin Others
Exchanged == \E request, reply \in got : Exchange(request, reply)
Emptying ==
    /\ Both /\ Exchanged
    /\ \/ pc = "empty" /\ (NoCall \/ Sending(Client))
       \/ pc = "receive empty" /\ (NoCall \/ Receiving(Server, 0))

Running == Starting \/ Bound \/ Requesting \/ Serving \/ Served \/ Replying \/ Collecting \/ Emptying

\* Send i has gone out, with `size` bytes.
Handed(i, size) == i \in DOMAIN sends /\ sends[i].handed = <<size>>

\* main has returned and its objects are destroyed.
Leaving ==
    /\ NoCall
    /\ pc \in {"close client", "close server", "returned"}
    /\ pc # "close client" => ~IsValid(Client)
    /\ pc = "returned" => ~IsValid(Server)
    /\ exit \in {"success", "failure", "mismatch"}
    /\ exit = "success" => Exchanged
    /\ exit = "mismatch" => \E i \in DOMAIN sends : sends[i].from \in Others
    /\ exit = "success" => Handed(datagram.id, 0)

Position == (exit = "running" /\ Running) \/ (exit # "running" /\ Leaving)

EchoRest == Net /\ Quiet /\ Shape /\ Position
EchoInv == Inv /\ EchoRest

-----------------------------------------------------------------------------
\* Where main is tells what it has achieved.
LEMMA Stages ==
    Position =>
        /\ pc = "bind" => exit = "running" /\ Starting
        /\ pc \in {"time server", "endpoint"} => exit = "running" /\ Bound
        /\ pc = "request" => exit = "running" /\ (Bound \/ Requesting)
        /\ pc \in {"time client", "serve"} => exit = "running" /\ Serving
        /\ pc = "reply" => exit = "running" /\ (Served \/ Replying)
        /\ pc = "collect" => exit = "running" /\ Collecting
        /\ pc \in {"empty", "receive empty"} => exit = "running" /\ Emptying
        /\ pc \in {"close client", "close server", "returned"} => exit # "running" /\ Leaving
BY DEF Position, Running, Leaving, Starting, Bound, Requesting, Serving, Served, Replying,
       Collecting, Emptying

\* What has been sent, received and written down stays.
Kept ==
    /\ SentStays /\ got \subseteq got'
    /\ \A i \in DOMAIN sends : content'[i] = content[i]

LEMMA AsksKept ==
    ASSUME Kept, Stands(Server), NEW i, Asks(i)
    PROVE  Asks(i)'
BY DEF Kept, SentStays, Stands, Asks, ServerPort

LEMMA AskedKept ==
    ASSUME Kept, Stands(Server), Stands(Client), NEW r, Asked(r)
    PROVE  Asked(r)'
<1>1. Asks(r)' /\ Both'
    BY AsksKept DEF Asked, Both, Stands, IsValid
<1>2. <<MessageLength>> # <<>> /\ r \in DOMAIN sends
    BY DEF Asked, Asks
<1>3. sends'[r].handed = <<MessageLength>> /\ sends'[r].from = ClientPort'
    BY <1>2 DEF Asked, Kept, SentStays, Stands, ClientPort
<1> QED BY <1>1, <1>3 DEF Asked, MessageLength

LEMMA GotKept ==
    ASSUME Inv, Kept, Stands(Server), datagram' = datagram, Got
    PROVE  Got'
<1>1. datagram.id \in DOMAIN sends
    BY DEF Got, Inv, Truthful
<1> QED BY <1>1 DEF Got, Kept, SentStays, Stands, ServerPort

LEMMA AnswersKept ==
    ASSUME Inv, Kept, datagram' = datagram, Got, NEW i, Answers(i)
    PROVE  Answers(i)'
<1>1. datagram.id \in DOMAIN sends
    BY DEF Got, Inv, Truthful
<1> QED BY <1>1 DEF Answers, Kept, SentStays

LEMMA RepliedKept ==
    ASSUME Inv, Kept, Stands(Server), datagram' = datagram, Got, NEW y, Replied(y)
    PROVE  Replied(y)'
<1>1. Answers(y)' /\ y \in DOMAIN sends
    BY AnswersKept DEF Replied, Answers
<1>2. \A x : <<x>> # <<>>
    OBVIOUS
<1>3. sends'[y].handed = <<sends'[y].length>> /\ sends'[y].from = ServerPort'
    BY <1>1, <1>2 DEF Replied, Kept, SentStays, Stands, ServerPort
<1> QED BY <1>1, <1>3 DEF Replied

LEMMA ExchangedKept ==
    ASSUME Inv, Kept, Exchanged
    PROVE  Exchanged'
<1>1. PICK request \in got, reply \in got : Exchange(request, reply)
    BY DEF Exchanged
<1>2. request.id \in DOMAIN sends /\ reply.id \in DOMAIN sends
    BY DEF Inv, Truthful
<1>3. request \in got' /\ reply \in got'
    BY DEF Kept
<1>4. Exchange(request, reply)'
    BY <1>1, <1>2 DEF Exchange, Kept, SentStays
<1> QED BY <1>3, <1>4 DEF Exchanged

LEMMA HandedKept ==
    ASSUME Kept, datagram' = datagram, Handed(datagram.id, 0)
    PROVE  Handed(datagram.id, 0)'
<1>1. <<0>> # <<>>
    OBVIOUS
<1> QED BY <1>1 DEF Handed, Kept, SentStays

LEMMA OwnKept ==
    ASSUME SentStays, DOMAIN sends' = DOMAIN sends
    PROVE  Own' = Own
BY DEF Own, SentStays

\* Nothing main looks at changes but the history around its own sends.
LEMMA PositionKept ==
    ASSUME Inv, Position, Kept, Own' = Own,
           UNCHANGED <<m_handle, port, call, pc, datagram, exit>>
    PROVE  Position'
<1>1. Stands(Server) /\ Stands(Client)
    BY DEF Stands
<1>2. Both' = Both /\ \A o \in Sockets, n \in Nat : /\ Sending(o)' = Sending(o)
                                                    /\ Receiving(o, n)' = Receiving(o, n)
    BY DEF Both, Sending, Receiving, At, IsValid
<1>3. ASSUME Starting PROVE Starting'
    BY <1>3 DEF Starting, NoCall, IsValid
<1>4. ASSUME Bound PROVE Bound'
    BY <1>4 DEF Bound, NoCall, IsValid
<1>5. ASSUME Requesting PROVE Requesting'
    BY <1>1, <1>5, AsksKept DEF Requesting, Sending, IsValid
<1>6. ASSUME Serving PROVE Serving'
    BY <1>1, <1>6, AskedKept DEF Serving, NoCall, Receiving, At, BufferLength
<1>7. ASSUME Served PROVE Served'
    BY <1>1, <1>7, AskedKept, GotKept DEF Served, NoCall
<1>8. ASSUME Replying PROVE Replying'
    BY <1>1, <1>8, AskedKept, GotKept, AnswersKept DEF Replying, Sending
<1>9. ASSUME Collecting PROVE Collecting'
    BY <1>1, <1>9, AskedKept, GotKept, RepliedKept DEF Collecting, NoCall, Receiving, At, BufferLength
<1>10. ASSUME Emptying PROVE Emptying'
    BY <1>2, <1>10, ExchangedKept DEF Emptying, NoCall, Sending, Receiving, At
<1>11. ASSUME Leaving PROVE Leaving'
    <2>1. (\E i \in DOMAIN sends : sends[i].from \in Others) => \E i \in DOMAIN sends' : sends'[i].from \in Others
        BY DEF Kept, SentStays
    <2>2. Handed(datagram.id, 0) => Handed(datagram.id, 0)'
        BY HandedKept
    <2> QED BY <1>11, <2>1, <2>2, ExchangedKept DEF Leaving, NoCall, IsValid
<1>12. CASE exit = "running" /\ Running
    <2>1. Running'
        BY <1>3, <1>4, <1>5, <1>6, <1>7, <1>8, <1>9, <1>10, <1>12 DEF Running
    <2> QED BY <1>12, <2>1 DEF Position
<1>13. CASE exit # "running" /\ Leaving
    BY <1>11, <1>13 DEF Position
<1> QED BY <1>12, <1>13 DEF Position

LEMMA QuietKept ==
    ASSUME Quiet, OthersIdle(Main), \A o \in Sockets \ {Server, Client} : m_handle'[o] = m_handle[o]
    PROVE  Quiet'
BY DEF Quiet, OthersIdle, IsValid

LEMMA ShapeKept ==
    ASSUME Shape, timed' = timed, exit = "running" \/ exit' # "running",
           \A x \in timed : IsValid(x) => m_handle'[x] # InvalidHandle,
           datagram'.sender \in Endpoints \cup {None},
           content' \in Seq(Contents), DOMAIN content' = DOMAIN sends'
    PROVE  Shape'
BY DEF Shape, IsValid

\* Writing down what a new send says.
LEMMA ContentGrows ==
    ASSUME Inv, Shape, NEW bytes \in Contents, content' = Append(content, bytes)
    PROVE  /\ content' \in Seq(Contents)
           /\ DOMAIN content' = DOMAIN sends \cup {Len(sends) + 1}
           /\ \A i \in DOMAIN sends : content'[i] = content[i]
           /\ content'[Len(sends) + 1] = bytes
<1>1. DOMAIN sends = 1..Len(sends) /\ Len(sends) \in Nat
    BY SendsType DEF Inv
<1>2. content \in Seq(Contents) /\ DOMAIN content = 1..Len(content) /\ Len(content) \in Nat
    BY LenProperties DEF Shape
<1>3. 1..Len(sends) = 1..Len(content)
    BY <1>1, <1>2 DEF Shape
<1>4. Len(sends) = Len(content)
    <2>1. \A a, b \in Nat : 1..a = 1..b => a = b
        <3> SUFFICES ASSUME NEW a \in Nat, NEW b \in Nat, 1..a = 1..b PROVE a = b
            OBVIOUS
        <3>1. CASE a < b
            <4>1. b \in 1..b /\ b \notin 1..a
                BY <3>1
            <4> QED BY <4>1
        <3>2. CASE b < a
            <4>1. a \in 1..a /\ a \notin 1..b
                BY <3>2
            <4> QED BY <4>1
        <3> QED BY <3>1, <3>2
    <2> QED BY <1>1, <1>2, <1>3, <2>1
<1>5. /\ content' \in Seq(Contents) /\ Len(content') = Len(content) + 1
      /\ \A i \in 1..Len(content) : content'[i] = content[i]
      /\ content'[Len(content) + 1] = bytes
    BY <1>2, AppendProperties
<1>6. DOMAIN content' = 1..(Len(sends) + 1)
    BY <1>4, <1>5, LenProperties
<1>7. 1..(Len(sends) + 1) = 1..Len(sends) \cup {Len(sends) + 1}
    BY <1>1
<1> QED BY <1>1, <1>4, <1>5, <1>6, <1>7

\* The network.
LEMMA EchoNetwork ==
    ASSUME EchoInv, Network
    PROVE  Whole' /\ EchoRest'
<1>1. UNCHANGED main /\ Next
    BY DEF Network, Next
<1>2. Whole' /\ Net'
    BY <1>1, BaseStep DEF EchoInv, EchoRest
<1>3. UNCHANGED <<m_handle, port, call, sends, got, pc, timed, datagram, content, exit>>
    BY <1>1 DEF Network, Lose, Deliver, history, main
<1>4. Kept /\ Own' = Own
    BY <1>3 DEF Kept, SentStays, Own
<1>5. Position'
    BY <1>3, <1>4, PositionKept DEF EchoInv, EchoRest
<1>6. Quiet' /\ Shape'
    BY <1>3 DEF EchoInv, EchoRest, Quiet, Shape, IsValid
<1> QED BY <1>2, <1>5, <1>6 DEF EchoRest

\* Another program's datagram is none of the program's own.
LEMMA EchoOthers ==
    ASSUME EchoInv, NEW q \in Others, NEW p \in Ports, NEW payload \in Payloads, OtherSends(q, p, payload)
    PROVE  Whole' /\ EchoRest'
<1> DEFINE id == Len(sends) + 1
           r == [to |-> p, from |-> q, length |-> payload.length, handed |-> <<payload.length>>,
                 told |-> "nothing", closed |-> TRUE]
<1>1. payload.length \in 0..MaxTransferLength /\ payload.bytes \in Contents
    BY UdpAssumption, EchoAssumption DEF Payloads, MessageLength, Contents
<1>2. Stray(q, p, payload.length) /\ Next
    BY <1>1 DEF OtherSends, Next
<1>3. Whole' /\ Net'
    BY <1>2, BaseStep DEF EchoInv, EchoRest
<1>4. /\ UNCHANGED <<m_handle, port, call, got, pc, timed, datagram, exit>>
      /\ sends' = Append(sends, r) /\ content' = Append(content, payload.bytes)
    BY <1>2 DEF Stray, OtherSends
<1>5. sends \in Seq(SendRecords) /\ DOMAIN sends = 1..Len(sends) /\ Len(sends) \in Nat
    BY SendsType DEF EchoInv, Inv
<1>6. r \in SendRecords /\ r.from = q
    BY <1>1 DEF SendRecords, Endpoints
<1> HIDE DEF r
<1>7. /\ Len(sends') = id /\ sends' \in Seq(SendRecords)
      /\ \A i \in DOMAIN sends : sends'[i] = sends[i]
      /\ sends'[id].from = q
    BY <1>4, <1>5, <1>6, AppendProperties
<1>8. DOMAIN sends' = DOMAIN sends \cup {id}
    BY <1>5, <1>7, LenProperties
<1>9. /\ content' \in Seq(Contents) /\ DOMAIN content' = DOMAIN sends \cup {id}
      /\ \A i \in DOMAIN sends : content'[i] = content[i]
    BY <1>1, <1>4, ContentGrows DEF EchoInv, EchoRest
<1> HIDE DEF id
<1>10. Kept /\ Own' = Own
    BY <1>4, <1>7, <1>8, <1>9 DEF Kept, SentStays, Own
<1>11. Position'
    BY <1>4, <1>10, PositionKept DEF EchoInv, EchoRest
<1>12. Quiet' /\ Shape'
    BY <1>4, <1>8, <1>9 DEF EchoInv, EchoRest, Quiet, Shape, IsValid
<1> QED BY <1>3, <1>11, <1>12 DEF EchoRest

\* main gives up.
LEMMA QuitLeaves ==
    ASSUME Quits("failure"), call'[Main] = Idle
    PROVE  Position'
BY DEF Quits, Position, Leaving, NoCall, Idle

\* main's own steps outside a call: SO_RCVTIMEO and GetLocalEndpoint
\* (example_udp_loopback.cpp:47-53, 66).
LEMMA EchoTimes ==
    ASSUME EchoInv,
           \/ SetReceiveTimeout(Server, "time server", "endpoint")
           \/ GetEndpoint
           \/ SetReceiveTimeout(Client, "time client", "serve")
    PROVE  Whole' /\ EchoRest'
<1>1. /\ UNCHANGED <<m_handle, inUse, port, wire, queue, call, sends, got, content, datagram>>
      /\ \/ /\ pc = "time server" /\ timed' \in {timed, timed \cup {Server}}
            /\ (pc' = "endpoint" /\ UNCHANGED exit) \/ (Quits("failure") /\ UNCHANGED timed)
         \/ /\ pc = "endpoint" /\ UNCHANGED timed
            /\ (pc' = "request" /\ UNCHANGED exit) \/ Quits("failure")
         \/ /\ pc = "time client" /\ timed' \in {timed, timed \cup {Client}}
            /\ (pc' = "serve" /\ UNCHANGED exit) \/ (Quits("failure") /\ UNCHANGED timed)
    BY DEF SetReceiveTimeout, GetEndpoint, Continues, system, history
<1>2. Whole' /\ Net'
    BY <1>1, BaseStep DEF EchoInv, EchoRest
<1>3. Kept /\ Own' = Own /\ Stands(Server) /\ Stands(Client)
    BY <1>1 DEF Kept, SentStays, Own, Stands
<1>4. exit = "running" /\ (pc \in {"time server", "endpoint"} => Bound) /\ (pc = "time client" => Serving)
    BY <1>1, Stages DEF EchoInv, EchoRest
<1>5. NoCall /\ NoCall'
    BY <1>1, <1>4 DEF Bound, Serving, NoCall
<1>6. Quiet'
    BY <1>1 DEF EchoInv, EchoRest, Quiet, IsValid
<1>7. CASE Quits("failure")
    <2>1. Position'
        BY <1>5, <1>7, QuitLeaves DEF NoCall
    <2>2. Shape'
        BY <1>1, <1>7 DEF Quits, Shape, EchoInv, EchoRest
    <2> QED BY <1>2, <1>6, <2>1, <2>2 DEF EchoRest
<1>8. CASE ~Quits("failure") /\ pc \in {"time server", "endpoint"}
    <2>1. pc' \in {"endpoint", "request"} /\ exit' = "running" /\ timed' \in {timed, timed \cup {Server}}
        BY <1>1, <1>4, <1>8
    <2>2. Bound'
        BY <1>1, <1>3, <1>4, <1>5, <1>8, <2>1 DEF Bound, IsValid
    <2>3. Shape'
        BY <1>1, <1>4, <1>8, <2>1, EchoAssumption DEF Shape, EchoInv, EchoRest, Bound, IsValid
    <2> QED BY <1>2, <1>6, <2>1, <2>2, <2>3 DEF EchoRest, Position, Running
<1>9. CASE ~Quits("failure") /\ pc = "time client"
    <2>1. pc' = "serve" /\ exit' = "running" /\ timed' \in {timed, timed \cup {Client}}
        BY <1>1, <1>4, <1>9
    <2>2. PICK r \in Own : Own = {r} /\ Asked(r)
        BY <1>4, <1>9 DEF Serving
    <2>3. Asked(r)'
        BY <1>3, <2>2, AskedKept
    <2>4. Serving'
        BY <1>3, <1>5, <2>1, <2>2, <2>3 DEF Serving
    <2>5. Shape'
        BY <1>1, <1>4, <2>1, <2>2, EchoAssumption DEF Shape, EchoInv, EchoRest, Asked, Both, IsValid
    <2> QED BY <1>2, <1>6, <2>1, <2>4, <2>5 DEF EchoRest, Position, Running
<1> QED BY <1>1, <1>7, <1>8, <1>9

\* Bind of the server (example_udp_loopback.cpp:41).
LEMMA EchoBinds ==
    ASSUME EchoInv, At(Main, "idle"), Binds
    PROVE  Whole' /\ EchoRest'
<1>1. PICK p \in Unbound : Bind(Main, Server, p)
    BY DEF Binds
<1>2. p \in Ports /\ Main \in Threads /\ Server \in Sockets
    BY EchoAssumption DEF Unbound
<1>3. Next
    BY <1>1, <1>2 DEF Next
<1>4. Whole' /\ Net'
    BY <1>3, BaseStep DEF EchoInv, EchoRest
<1>5. /\ UNCHANGED <<m_handle, port, sends, got, pc, timed, datagram, content, exit>> /\ pc = "bind"
      /\ call' = [call EXCEPT ![Main] = [Idle EXCEPT !.step = "create", !.object = Server, !.port = p]]
    BY <1>1 DEF Binds, Calls, Bind, Begins, system
<1>6. /\ call'[Main].object = Server /\ call'[Main].id = 0 /\ call'[Main].step = "create"
      /\ OthersIdle(Main)
    BY <1>2, <1>5 DEF EchoInv, Inv, Shapes, Idle, OthersIdle
<1>7. exit = "running" /\ Starting
    BY <1>5, Stages DEF EchoInv, EchoRest
<1>8. Own' = Own
    BY <1>5 DEF Own
<1>9. Starting'
    BY <1>5, <1>6, <1>7, <1>8 DEF Starting, IsValid
<1>10. Quiet'
    BY <1>5, <1>6, QuietKept DEF EchoInv, EchoRest
<1>11. Shape'
    BY <1>5, <1>7 DEF EchoInv, EchoRest, Shape, IsValid
<1> QED BY <1>4, <1>5, <1>7, <1>9, <1>10, <1>11 DEF EchoRest, Position, Running

LEMMA BuffersFit == BufferLength \in Lengths /\ 0 \in Lengths
<1>1. MaxTransferLength \in Nat /\ MaxTransferLength >= 2
    BY UdpAssumption, EchoAssumption
<1> QED BY <1>1 DEF BufferLength, Lengths

\* A ReceiveFrom begins (example_udp_loopback.cpp:69, 85, 106).
LEMMA EchoReceives ==
    ASSUME EchoInv,
           \/ Receives("serve", Server, BufferLength)
           \/ Receives("collect", Client, BufferLength)
           \/ Receives("receive empty", Server, 0)
    PROVE  Whole' /\ EchoRest'
<1>1. PICK o \in {Server, Client}, length \in {BufferLength, 0} :
        /\ \/ pc = "serve" /\ o = Server /\ length = BufferLength
           \/ pc = "collect" /\ o = Client /\ length = BufferLength
           \/ pc = "receive empty" /\ o = Server /\ length = 0
        /\ Receives(pc, o, length)
    BY DEF Receives, Calls
<1>2. length \in Lengths /\ Main \in Threads /\ o \in Sockets
    BY BuffersFit, EchoAssumption
<1>3. ReceiveFrom(Main, o, length)
    BY <1>1 DEF Receives
<1>4. Next
    BY <1>2, <1>3 DEF Next
<1>5. Whole' /\ Net'
    BY <1>4, BaseStep DEF EchoInv, EchoRest
<1>6. /\ UNCHANGED <<m_handle, port, sends, got, pc, timed, datagram, content, exit>>
      /\ call' = [call EXCEPT ![Main] = [Idle EXCEPT !.step = "receive", !.object = o, !.length = length]]
      /\ At(Main, "idle")
    BY <1>1, <1>3 DEF Receives, Calls, ReceiveFrom, Begins, system
<1>7. Receiving(o, length)' /\ OthersIdle(Main)
    BY <1>2, <1>6 DEF EchoInv, Inv, Shapes, Idle, OthersIdle, Receiving, At
<1>8. Kept /\ Own' = Own /\ Stands(Server) /\ Stands(Client)
    BY <1>6 DEF Kept, SentStays, Own, Stands
<1>9. Quiet'
    BY <1>6, <1>7, QuietKept DEF EchoInv, EchoRest
<1>10. Shape'
    BY <1>6 DEF EchoInv, EchoRest, Shape, IsValid
<1>11. CASE pc = "serve"
    <2>1. exit = "running" /\ Serving
        BY <1>11, Stages DEF EchoInv, EchoRest
    <2>2. Serving'
        BY <1>1, <1>6, <1>7, <1>8, <1>11, <2>1, AskedKept DEF Serving, Receiving, At, BufferLength
    <2> QED BY <1>5, <1>6, <1>9, <1>10, <2>1, <2>2 DEF EchoRest, Position, Running
<1>12. CASE pc = "collect"
    <2>1. exit = "running" /\ Collecting
        BY <1>12, Stages DEF EchoInv, EchoRest
    <2>2. PICK r \in Own, y \in Own : Own = {r, y} /\ r # y /\ Asked(r) /\ Replied(y)
        BY <2>1 DEF Collecting
    <2>3. Asked(r)' /\ Replied(y)' /\ Got'
        BY <1>6, <1>8, <2>1, <2>2, AskedKept, RepliedKept, GotKept DEF EchoInv, Collecting
    <2>4. Collecting'
        BY <1>1, <1>6, <1>7, <1>8, <1>12, <2>2, <2>3 DEF Collecting, Receiving, At, BufferLength
    <2> QED BY <1>5, <1>6, <1>9, <1>10, <2>1, <2>4 DEF EchoRest, Position, Running
<1>13. CASE pc = "receive empty"
    <2>1. exit = "running" /\ Emptying
        BY <1>13, Stages DEF EchoInv, EchoRest
    <2>2. Emptying'
        BY <1>1, <1>6, <1>7, <1>8, <1>13, <2>1, ExchangedKept
        DEF EchoInv, Emptying, Both, IsValid, Receiving, At, BufferLength
    <2> QED BY <1>5, <1>6, <1>9, <1>10, <2>1, <2>2 DEF EchoRest, Position, Running
<1> QED BY <1>1, <1>11, <1>12, <1>13

\* A ReceiveFrom runs into its timeout.
LEMMA EchoTimesOut ==
    ASSUME EchoInv, TimesOut
    PROVE  Whole' /\ EchoRest'
<1>1. /\ At(Main, "receive") /\ Return(Main) /\ Quits("failure")
      /\ UNCHANGED <<m_handle, inUse, port, wire, queue, sends, got, timed, datagram, content>>
    BY DEF TimesOut, system, history
<1>2. Whole' /\ Net'
    BY <1>1, BaseStep DEF EchoInv, EchoRest
<1>3. call'[Main] = Idle /\ OthersIdle(Main)
    BY <1>1, EchoAssumption DEF EchoInv, Inv, Shapes, Return, OthersIdle
<1>4. Position'
    BY <1>1, <1>3, QuitLeaves
<1>5. Quiet'
    BY <1>1, <1>3, QuietKept DEF EchoInv, EchoRest
<1>6. Shape'
    BY <1>1 DEF Quits, EchoInv, EchoRest, Shape
<1> QED BY <1>2, <1>4, <1>5, <1>6 DEF EchoRest

LEMMA ServerIsBound == Inv /\ IsValid(Server) => ServerPort \in Endpoints
<1> SUFFICES ASSUME Inv, IsValid(Server) PROVE ServerPort \in Endpoints
    OBVIOUS
<1>1. Server \in Sockets
    BY EchoAssumption
<1>2. m_handle[Server] \in Natives /\ port \in [Natives -> Ports \cup {None}]
    BY <1>1 DEF Inv, TypeOK, IsValid
<1>3. port[m_handle[Server]] # None
    BY <1>1 DEF Inv, OwnedOnce
<1> QED BY <1>2, <1>3 DEF ServerPort, Endpoints

\* A SendTo of main's begins: the send is one of its own.
LEMMA EchoSends ==
    ASSUME EchoInv, NEW step, NEW o \in {Server, Client}, NEW to \in Endpoints, NEW length \in Lengths,
           NEW bytes \in Contents, SendsTo(step, o, to, length, bytes)
    PROVE  /\ Whole' /\ Net' /\ Quiet' /\ Shape'
           /\ UNCHANGED <<pc, exit, datagram>> /\ pc = step /\ NoCall
           /\ Sending(o)' /\ Kept /\ Stands(Server) /\ Stands(Client)
           /\ UNCHANGED <<m_handle, port>>
           /\ call'[Main].id = Len(sends) + 1 /\ Len(sends) + 1 \notin DOMAIN sends
           /\ Len(sends) + 1 \in DOMAIN sends'
           /\ Own' = Own \cup {Len(sends) + 1}
           /\ sends'[Len(sends) + 1].to = to /\ sends'[Len(sends) + 1].length = length
           /\ content'[Len(sends) + 1] = bytes
<1>1. Main \in Threads /\ o \in Sockets /\ SendTo(Main, o, to, length) /\ At(Main, "idle")
    BY EchoAssumption DEF SendsTo, SendTo
<1>2. Next
    BY <1>1 DEF Next
<1>3. Whole' /\ Net'
    BY <1>2, BaseStep DEF EchoInv, EchoRest
<1>4. /\ call'[Main].object = o /\ call'[Main].id = Len(sends) + 1 /\ call'[Main].step \in {"create", "send"}
      /\ OthersIdle(Main) /\ UNCHANGED <<m_handle, port, got>>
      /\ DOMAIN sends' = DOMAIN sends \cup {Len(sends) + 1}
      /\ Len(sends) + 1 \notin DOMAIN sends /\ Len(sends) + 1 # 0
      /\ \A i \in DOMAIN sends : sends'[i] = sends[i]
      /\ sends'[Len(sends) + 1].to = to /\ sends'[Len(sends) + 1].length = length
      /\ sends'[Len(sends) + 1].from = None
    BY <1>1, SendToEffect DEF EchoInv
<1>5. UNCHANGED <<pc, exit, datagram, timed>> /\ pc = step /\ content' = Append(content, bytes)
    BY DEF SendsTo, Calls
<1>6. /\ content' \in Seq(Contents) /\ DOMAIN content' = DOMAIN sends \cup {Len(sends) + 1}
      /\ \A i \in DOMAIN sends : content'[i] = content[i]
      /\ content'[Len(sends) + 1] = bytes
    BY <1>5, ContentGrows DEF EchoInv, EchoRest
<1>7. NoCall
    BY <1>1 DEF EchoInv, Inv, CallShape, Stage, At, NoCall
<1>8. Sending(o)'
    BY <1>4 DEF Sending
<1>9. Kept /\ Stands(Server) /\ Stands(Client)
    BY <1>4, <1>6 DEF Kept, SentStays, Stands
<1>10. None \notin Others
    BY UdpAssumption
<1>11. Own' = Own \cup {Len(sends) + 1}
    BY <1>4, <1>10 DEF Own
<1>12. Quiet'
    BY <1>4, QuietKept DEF EchoInv, EchoRest
<1>13. Shape'
    BY <1>4, <1>5, <1>6 DEF EchoInv, EchoRest, Shape, IsValid
<1> QED BY <1>3, <1>4, <1>5, <1>6, <1>7, <1>8, <1>9, <1>11, <1>12, <1>13

\* The request (example_udp_loopback.cpp:57-60).
LEMMA EchoRequests ==
    ASSUME EchoInv, SendRequest
    PROVE  Whole' /\ EchoRest'
<1> DEFINE i == Len(sends) + 1
<1>1. pc = "request" /\ At(Main, "idle")
    BY DEF SendRequest, SendsTo, Calls, SendTo
<1>2. exit = "running" /\ Bound
    BY <1>1, Stages DEF EchoInv, EchoRest, Requesting, Sending, At
<1>3. ServerPort \in Endpoints
    BY <1>2, ServerIsBound DEF Bound, EchoInv
<1>4. MessageLength \in Lengths /\ "message" \in Contents
    <2>1. MaxTransferLength \in Nat
        BY UdpAssumption
    <2> QED BY <2>1 DEF MessageLength, Lengths, Contents
<1>5. /\ Whole' /\ Net' /\ Quiet' /\ Shape'
      /\ UNCHANGED <<pc, exit, datagram>>
      /\ Sending(Client)' /\ UNCHANGED <<m_handle, port>>
      /\ call'[Main].id = i /\ i \in DOMAIN sends' /\ Own' = Own \cup {i}
      /\ sends'[i].to = ServerPort /\ sends'[i].length = MessageLength /\ content'[i] = "message"
    BY <1>3, <1>4, EchoSends DEF SendRequest
<1> HIDE DEF i
<1>6. Requesting'
    BY <1>1, <1>2, <1>5 DEF Requesting, Bound, Asks, ServerPort, IsValid
<1> QED BY <1>2, <1>5, <1>6 DEF EchoRest, Position, Running

\* The reply, with what the server got (example_udp_loopback.cpp:78-79).
LEMMA EchoReplies ==
    ASSUME EchoInv, Reply
    PROVE  Whole' /\ EchoRest'
<1>0. PICK i : i = Len(sends) + 1
    OBVIOUS
<1>1. pc = "reply" /\ At(Main, "idle")
    BY DEF Reply, SendsTo, Calls, SendTo
<1>2. exit = "running" /\ Served
    BY <1>1, Stages DEF EchoInv, EchoRest, Replying, Sending, At
<1>3. /\ datagram \in Receipts /\ datagram.id \in DOMAIN sends
      /\ sends[datagram.id].handed = <<datagram.size>>
    BY <1>2 DEF Served, Got, EchoInv, Inv, Truthful, Shapes
<1>4. datagram.size \in Lengths /\ datagram.sender \in Endpoints /\ content[datagram.id] \in Contents
    <2>1. datagram.size \in 0..MaxTransferLength
        <3>1. sends[datagram.id] \in SendRecords
            BY <1>3, SendsType, ElementOfSeq DEF EchoInv, Inv
        <3>2. <<datagram.size>> \in Seq(0..MaxTransferLength)
            BY <1>3, <3>1 DEF SendRecords
        <3> QED BY <3>2
    <2>2. datagram.size \in Lengths
        BY <2>1, UdpAssumption DEF Lengths
    <2>3. content[datagram.id] \in Contents
        BY <1>3, ElementOfSeq, LenProperties DEF EchoInv, EchoRest, Shape
    <2> QED BY <1>3, <2>2, <2>3 DEF Receipts
<1>5. /\ Whole' /\ Net' /\ Quiet' /\ Shape'
      /\ UNCHANGED <<pc, exit, datagram>>
      /\ Sending(Server)' /\ Kept /\ Stands(Server) /\ Stands(Client)
      /\ call'[Main].id = i /\ i \notin DOMAIN sends /\ i \in DOMAIN sends' /\ Own' = Own \cup {i}
      /\ sends'[i].to = datagram.sender /\ sends'[i].length = datagram.size
      /\ content'[i] = content[datagram.id]
    <2> DEFINE bytes == content[datagram.id]
    <2>1. /\ bytes \in Contents
          /\ SendsTo("reply", Server, datagram.sender, datagram.size, bytes)
        BY <1>4 DEF Reply
    <2> HIDE DEF bytes
    <2>2. content'[Len(sends) + 1] = bytes
        BY <1>4, <2>1, EchoSends
    <2>3. /\ Whole' /\ Net' /\ Quiet' /\ Shape'
          /\ UNCHANGED <<pc, exit, datagram>>
          /\ Sending(Server)' /\ Kept /\ Stands(Server) /\ Stands(Client)
        BY <1>4, <2>1, EchoSends
    <2>4. /\ call'[Main].id = Len(sends) + 1 /\ Len(sends) + 1 \notin DOMAIN sends
          /\ Len(sends) + 1 \in DOMAIN sends' /\ Own' = Own \cup {Len(sends) + 1}
          /\ sends'[Len(sends) + 1].to = datagram.sender
          /\ sends'[Len(sends) + 1].length = datagram.size
        BY <1>4, <2>1, EchoSends
    <2> QED BY <1>0, <2>2, <2>3, <2>4 DEF bytes
<1>6. datagram.id < i
    BY <1>0, <1>3, SendsType DEF EchoInv, Inv
<1>7. Answers(i)'
    BY <1>3, <1>5, <1>6 DEF Answers, Kept
<1>8. PICK r \in Own : Own = {r} /\ Asked(r)
    BY <1>2 DEF Served
<1>9. Asked(r)' /\ Got' /\ r # i
    BY <1>2, <1>5, <1>8, AskedKept, GotKept DEF EchoInv, Served, Asked, Asks
<1>10. Replying'
    BY <1>1, <1>5, <1>7, <1>8, <1>9 DEF Replying
<1> QED BY <1>2, <1>5, <1>10 DEF EchoRest, Position, Running

\* The empty datagram (example_udp_loopback.cpp:100-105).
LEMMA EchoSendsEmpty ==
    ASSUME EchoInv, SendEmpty
    PROVE  Whole' /\ EchoRest'
<1>1. pc = "empty" /\ At(Main, "idle")
    BY DEF SendEmpty, SendsTo, Calls, SendTo
<1>2. exit = "running" /\ Emptying
    BY <1>1, Stages DEF EchoInv, EchoRest
<1>3. ServerPort \in Endpoints
    BY <1>2, ServerIsBound DEF Emptying, Both, EchoInv
<1>4. 0 \in Lengths /\ "none" \in Contents
    <2>1. MaxTransferLength \in Nat
        BY UdpAssumption
    <2> QED BY <2>1 DEF Lengths, Contents
<1>5. /\ Whole' /\ Net' /\ Quiet' /\ Shape'
      /\ UNCHANGED <<pc, exit>> /\ Sending(Client)' /\ Kept /\ UNCHANGED <<m_handle, port>>
    BY <1>3, <1>4, EchoSends DEF SendEmpty
<1>6. Emptying'
    BY <1>1, <1>2, <1>5, ExchangedKept DEF EchoInv, Emptying, Both, IsValid
<1> QED BY <1>2, <1>5, <1>6 DEF EchoRest, Position, Running

\* The destructors, and the objects they find invalid.
LEMMA EchoDestroys ==
    ASSUME EchoInv,
           \/ Destroys("close client", Client, "close server")
           \/ Destroys("close server", Server, "returned")
    PROVE  Whole' /\ EchoRest'
<1>1. PICK o \in {Server, Client} :
        /\ \/ pc = "close client" /\ o = Client /\ pc' = "close server"
           \/ pc = "close server" /\ o = Server /\ pc' = "returned"
        /\ UNCHANGED <<timed, datagram, content, exit>>
        /\ IF IsValid(o) THEN Close(Main, o) ELSE UNCHANGED vars
    BY DEF Destroys
<1>2. exit # "running" /\ Leaving
    BY <1>1, Stages DEF EchoInv, EchoRest
<1>3. Main \in Threads /\ o \in Sockets /\ Server # Client
    BY EchoAssumption
<1>4. Whole' /\ Net'
    <2>1. Next \/ UNCHANGED <<m_handle, inUse, port, wire, queue, call, sends, got>>
        BY <1>1, <1>3 DEF Next, vars, system, history
    <2> QED BY <2>1, BaseStep DEF EchoInv, EchoRest
<1>5. /\ UNCHANGED <<call, got>> /\ m_handle'[o] = InvalidHandle
      /\ \A x \in Sockets \ {o} : m_handle'[x] = m_handle[x]
      /\ DOMAIN sends' = DOMAIN sends
      /\ \A i \in DOMAIN sends :
            /\ sends'[i].to = sends[i].to
            /\ sends'[i].length = sends[i].length /\ sends'[i].handed = sends[i].handed
            /\ sends'[i].from = sends[i].from
    <2>1. CASE IsValid(o)
        BY <1>1, <1>3, <2>1, OrphanedEffect DEF Close, EchoInv, Inv, TypeOK
    <2>2. CASE ~IsValid(o)
        BY <1>1, <2>2 DEF vars, history, IsValid
    <2> QED BY <2>1, <2>2
<1>6. Kept
    BY <1>1, <1>5 DEF Kept, SentStays
<1>7. Quiet'
    BY <1>5, QuietKept DEF EchoInv, EchoRest, OthersIdle
<1>8. Shape'
    BY <1>1, <1>2, <1>5 DEF EchoInv, EchoRest, Shape
<1>9. Leaving'
    <2>1. exit = "success" => Exchanged'
        BY <1>2, <1>6, ExchangedKept DEF Leaving, EchoInv
    <2>2. exit = "mismatch" => \E i \in DOMAIN sends' : sends'[i].from \in Others
        BY <1>2, <1>5 DEF Leaving
    <2>3. ~IsValid(Client)' /\ (pc' = "returned" => ~IsValid(Server)')
        BY <1>1, <1>2, <1>3, <1>5, EchoAssumption DEF Leaving, IsValid
    <2>4. exit = "success" => Handed(datagram.id, 0)'
        BY <1>1, <1>2, <1>6, HandedKept DEF Leaving
    <2> QED BY <1>1, <1>2, <1>5, <2>1, <2>2, <2>3, <2>4 DEF Leaving, NoCall
<1> QED BY <1>1, <1>2, <1>4, <1>7, <1>8, <1>9 DEF EchoRest, Position

-----------------------------------------------------------------------------
(***************************************************************************)
(* The calls main waits for.                                               *)
(***************************************************************************)
LEMMA InCallBase ==
    ASSUME EchoInv, InCall
    PROVE  Whole' /\ Net' /\ Step(Main) /\ Main \in Threads /\ ~NoCall
<1>1. Step(Main) /\ Main \in Threads
    BY EchoAssumption DEF InCall
<1>2. Next
    BY <1>1 DEF Next
<1>3. ~NoCall
    BY <1>1 DEF NoCall, Step, Create, NativeBind, NativeSendTo, Adopt, Discard, NativeReceive, At, Idle
<1> QED BY <1>1, <1>2, <1>3, BaseStep DEF EchoInv, EchoRest

LEMMA EchoBinding ==
    ASSUME EchoInv, InCall, pc = "bind"
    PROVE  Whole' /\ EchoRest'
<1>1. exit = "running" /\ Starting
    BY Stages DEF EchoInv, EchoRest
<1>2. Step(Main) /\ Main \in Threads /\ Whole' /\ Net'
    BY InCallBase
<1>3. call[Main].object = Server /\ call[Main].id = 0 /\ call[Main].step \notin {"idle", "receive"}
    BY <1>1, InCallBase DEF Starting
<1>4. BindEffect(Main)
    BY <1>2, <1>3, BindSteps DEF EchoInv
<1>5. UNCHANGED <<sends, got, timed, content, datagram>>
    BY <1>3, <1>4 DEF BindEffect, InCall, At
<1>6. Own' = Own
    BY <1>5 DEF Own
<1>7. Quiet'
    BY <1>3, <1>4, QuietKept DEF BindEffect, OthersStand, EchoInv, EchoRest
<1>8. \A x \in Sockets : ~IsValid(x)
    BY <1>1 DEF Starting, Quiet, EchoInv, EchoRest
<1>9. exit = "running" \/ exit' # "running"
    BY <1>1
<1>10. Shape'
    BY <1>1, <1>5, <1>8, <1>9, ShapeKept DEF EchoInv, EchoRest, Shape
<1>11. CASE call'[Main] # Idle
    <2>1. UNCHANGED <<pc, exit>>
        BY <1>11 DEF InCall
    <2>2. Starting'
        BY <1>1, <1>3, <1>4, <1>6, <1>11, <2>1 DEF BindEffect, Starting, IsValid
    <2> QED BY <1>1, <1>2, <1>7, <1>10, <2>1, <2>2 DEF EchoRest, Position, Running
<1>12. CASE call'[Main] = Idle
    <2>1. Outcome(m_handle'[Server] # InvalidHandle, "time server")
        BY <1>3, <1>12 DEF InCall, At
    <2>2. CASE m_handle'[Server] # InvalidHandle
        <3>1. pc' = "time server" /\ exit' = "running"
            BY <1>1, <2>1, <2>2 DEF Outcome, Continues
        <3>2. ~IsValid(Client)'
            BY <1>1, <1>3, <1>4, EchoAssumption DEF BindEffect, OthersStand, Starting, IsValid
        <3>3. Bound'
            BY <1>1, <1>6, <1>12, <2>2, <3>1, <3>2 DEF Bound, Starting, NoCall, IsValid
        <3> QED BY <1>2, <1>7, <1>10, <3>1, <3>3 DEF EchoRest, Position, Running
    <2>3. CASE m_handle'[Server] = InvalidHandle
        <3>1. Position'
            BY <1>12, <2>1, <2>3, QuitLeaves DEF Outcome
        <3> QED BY <1>2, <1>7, <1>10, <3>1 DEF EchoRest
    <2> QED BY <2>2, <2>3
<1> QED BY <1>11, <1>12

\* A step of a SendTo of main's: it goes on, fails and main gives up, or has
\* handed the whole buffer over (example_udp_loopback.cpp:60-65, 78-84, 100-105).
SendOver(o) ==
    /\ call'[Main] = Idle /\ m_handle'[o] # InvalidHandle /\ exit' = exit
    /\ \/ pc = "request" /\ pc' = "time client"
       \/ pc = "reply" /\ pc' = "collect"
       \/ pc = "empty" /\ pc' = "receive empty"
    /\ sends'[call[Main].id].handed = <<sends'[call[Main].id].length>>
    /\ sends'[call[Main].id].from = port'[m_handle'[o]]
SendUnderWay(o) ==
    /\ UNCHANGED <<pc, exit, m_handle>>
    /\ Sending(o)' /\ call'[Main].id = call[Main].id

LEMMA EchoSending ==
    ASSUME EchoInv, InCall, NEW o \in {Server, Client}, Sending(o), exit = "running", pc # "bind"
    PROVE  /\ Whole' /\ Net' /\ Quiet' /\ Shape'
           /\ Kept /\ Own' = Own /\ datagram' = datagram
           /\ \A x \in Sockets : IsValid(x) => Stands(x)
           /\ SendUnderWay(o) \/ (Quits("failure") /\ call'[Main] = Idle) \/ SendOver(o)
<1>1. Step(Main) /\ Main \in Threads /\ Whole' /\ Net'
    BY InCallBase
<1>2. call[Main].object = o /\ call[Main].id # 0 /\ ~At(Main, "receive")
    BY DEF Sending, At
<1>3. SendEffect(Main)
    BY <1>1, <1>2, SendStep DEF EchoInv
<1>4. /\ SentStays /\ DOMAIN sends' = DOMAIN sends /\ got' = got
      /\ OthersIdle(Main) /\ OthersStand(o)
      /\ \A x \in Sockets : IsValid(x) => Stands(x)
      /\ SendContinues(Main) \/ SendFails(Main) \/ SendSucceeds(Main)
    BY <1>2, <1>3 DEF SendEffect
<1>5. UNCHANGED <<timed, content>>
    BY DEF InCall
<1>6. /\ datagram' = datagram
      /\ \/ UNCHANGED <<pc, exit>> /\ call'[Main] # Idle
         \/ call'[Main] = Idle /\ AfterSend(sends'[call[Main].id].told = "success")
    BY <1>2 DEF InCall, AfterSend
<1>7. Kept /\ Own' = Own
    BY <1>4, <1>5, OwnKept DEF Kept
<1>8. Quiet'
    BY <1>4, QuietKept DEF OthersStand, EchoInv, EchoRest
<1>9. Shape'
    <2>1. \A x \in timed : IsValid(x) => m_handle'[x] # InvalidHandle
        BY <1>4 DEF EchoInv, EchoRest, Shape, Stands, IsValid
    <2> QED BY <1>4, <1>5, <1>6, <2>1, ShapeKept DEF EchoInv, EchoRest, Shape
<1>10. SendUnderWay(o) \/ (Quits("failure") /\ call'[Main] = Idle) \/ SendOver(o)
    <2>1. CASE SendContinues(Main)
        <3>1. call'[Main] # Idle
            BY <2>1 DEF SendContinues, Idle
        <3> QED BY <1>2, <1>6, <2>1, <3>1 DEF SendContinues, SendUnderWay, Sending
    <2>2. CASE SendFails(Main)
        BY <1>6, <2>2 DEF SendFails, AfterSend, Outcome
    <2>3. CASE SendSucceeds(Main)
        BY <1>2, <1>6, <2>3 DEF SendSucceeds, AfterSend, Outcome, Continues, SendOver
    <2> QED BY <1>4, <2>1, <2>2, <2>3
<1> QED BY <1>1, <1>4, <1>6, <1>7, <1>8, <1>9, <1>10

\* A step of a ReceiveFrom of main's: interrupted, failed, or with datagram d.
Receives1(o, length, d) ==
    /\ AfterReceive(d) /\ d \in got' /\ d \in Receipts /\ d.size <= length
    /\ d.id \in DOMAIN sends /\ sends[d.id].to = port[m_handle[o]]
    /\ sends[d.id].handed = <<d.size>> /\ sends[d.id].from = d.sender

LEMMA EchoReceiving ==
    ASSUME EchoInv, InCall, NEW o \in {Server, Client}, NEW length, Receiving(o, length),
           exit = "running", pc # "bind"
    PROVE  /\ Whole' /\ Net' /\ Quiet' /\ Shape'
           /\ Kept /\ Own' = Own /\ UNCHANGED <<m_handle, port, sends, content>>
           /\ \/ call'[Main] = call[Main] /\ UNCHANGED <<pc, datagram, exit>>
              \/ call'[Main] = Idle /\ Quits("failure")
              \/ call'[Main] = Idle /\ \E d \in got' : Receives1(o, length, d)
<1> DEFINE n == m_handle[o]
           d == Head(queue[n])
           receipt == [id |-> d.id, size |-> d.size, sender |-> d.from]
<1>1. Step(Main) /\ Main \in Threads /\ Whole' /\ Net'
    BY InCallBase
<1>2. At(Main, "receive") /\ call[Main].object = o /\ call[Main].length = length /\ call[Main].id = 0
    BY <1>1 DEF Receiving, At, Idle, EchoInv, Inv, CallShape, Stage
<1>3. ReceiveEffect(Main)
    BY <1>1, <1>2, ReceiveSteps DEF EchoInv, EchoRest
<1>4. /\ UNCHANGED <<m_handle, port, sends>> /\ OthersIdle(Main) /\ got \subseteq got'
      /\ call'[Main] \in {call[Main], Idle}
      /\ call'[Main] = Idle /\ queue'[n] # queue[n] /\ d.size <= length =>
            receipt \in got' /\ sends[d.id].to = port[n]
    BY <1>2, <1>3 DEF ReceiveEffect
<1>5. UNCHANGED <<timed, content>>
    BY DEF InCall
<1>6. \/ UNCHANGED <<pc, datagram, exit>> /\ call'[Main] = call[Main]
      \/ call'[Main] = Idle /\ Quits("failure") /\ datagram' = datagram
      \/ /\ call'[Main] = Idle /\ queue'[n] # queue[n] /\ d.size <= length
         /\ AfterReceive(receipt)
    BY <1>2, <1>4 DEF InCall, ReceiveReturned
<1>7. Kept /\ Own' = Own
    BY <1>4, <1>5 DEF Kept, SentStays, Own
<1>8. Quiet'
    BY <1>4, QuietKept DEF EchoInv, EchoRest
<1>9. receipt.size = d.size /\ receipt.id = d.id
    OBVIOUS
<1> HIDE DEF d, receipt
<1>10. ASSUME receipt \in got'
       PROVE  /\ receipt \in Receipts /\ receipt.id \in DOMAIN sends
              /\ sends[receipt.id].handed = <<receipt.size>> /\ sends[receipt.id].from = receipt.sender
    BY <1>1, <1>4, <1>10 DEF Whole, Typed, Shapes, Histories, Truthful
<1>11. Shape'
    <2>1. datagram'.sender \in Endpoints \cup {None}
        BY <1>4, <1>6, <1>10 DEF AfterReceive, Receipts, EchoInv, EchoRest, Shape
    <2> QED BY <1>4, <1>5, <2>1, ShapeKept DEF EchoInv, EchoRest, Shape, IsValid
<1>12. \/ call'[Main] = call[Main] /\ UNCHANGED <<pc, datagram, exit>>
       \/ call'[Main] = Idle /\ Quits("failure")
       \/ call'[Main] = Idle /\ \E g \in got' : Receives1(o, length, g)
    <2>1. CASE /\ call'[Main] = Idle /\ queue'[n] # queue[n] /\ d.size <= length
               /\ AfterReceive(receipt)
        <3>1. receipt \in got' /\ sends[receipt.id].to = port[n]
            BY <1>4, <1>9, <2>1
        <3>2. Receives1(o, length, receipt)
            BY <1>9, <1>10, <2>1, <3>1 DEF Receives1
        <3> QED BY <2>1, <3>1, <3>2
    <2> QED BY <1>6, <2>1
<1> QED BY <1>1, <1>4, <1>5, <1>7, <1>8, <1>11, <1>12

\* example_udp_loopback.cpp:60-65: the request goes out, and the client's socket with it.
LEMMA EchoRequesting ==
    ASSUME EchoInv, InCall, pc = "request"
    PROVE  Whole' /\ EchoRest'
<1>0. exit = "running" /\ (Bound \/ Requesting)
    BY Stages DEF EchoInv, EchoRest
<1>1. Requesting
    BY <1>0, InCallBase DEF Bound
<1>2. /\ Whole' /\ Net' /\ Quiet' /\ Shape'
      /\ Kept /\ Own' = Own
      /\ \A x \in Sockets : IsValid(x) => Stands(x)
      /\ SendUnderWay(Client) \/ (Quits("failure") /\ call'[Main] = Idle) \/ SendOver(Client)
    BY <1>0, <1>1, EchoSending DEF Requesting
<1>3. PICK i : i = call[Main].id
    OBVIOUS
<1>4. Stands(Server) /\ IsValid(Server)'
    BY <1>1, <1>2, EchoAssumption DEF Requesting, Stands, IsValid
<1>5. Asks(i)'
    BY <1>1, <1>2, <1>3, <1>4, AsksKept DEF Requesting
<1>6. CASE SendUnderWay(Client)
    <2>1. Requesting'
        BY <1>1, <1>2, <1>3, <1>4, <1>5, <1>6 DEF SendUnderWay, Requesting, IsValid
    <2> QED BY <1>0, <1>2, <1>6, <2>1 DEF SendUnderWay, EchoRest, Position, Running
<1>7. CASE SendOver(Client)
    <2>1. call'[Main] = Idle /\ IsValid(Client)' /\ pc' = "time client" /\ exit' = "running"
        BY <1>0, <1>7 DEF SendOver, IsValid
    <2>2. sends'[i].handed = <<sends'[i].length>> /\ sends'[i].from = ClientPort'
        BY <1>3, <1>7 DEF SendOver, ClientPort
    <2>3. Asked(i)'
        BY <1>4, <1>5, <2>1, <2>2 DEF Asked, Asks, Both, MessageLength
    <2>4. Own' = {i}
        BY <1>1, <1>2, <1>3 DEF Requesting
    <2>5. Serving'
        BY <2>1, <2>3, <2>4 DEF Serving, NoCall
    <2> QED BY <1>2, <2>1, <2>5 DEF EchoRest, Position, Running
<1>8. CASE Quits("failure") /\ call'[Main] = Idle
    BY <1>2, <1>8, QuitLeaves DEF EchoRest
<1> QED BY <1>2, <1>6, <1>7, <1>8

\* example_udp_loopback.cpp:69-76: whatever the server receives was sent to its port.
LEMMA EchoServing ==
    ASSUME EchoInv, InCall, pc = "serve"
    PROVE  Whole' /\ EchoRest'
<1>0. exit = "running" /\ Serving
    BY Stages DEF EchoInv, EchoRest
<1>1. Receiving(Server, BufferLength)
    BY <1>0, InCallBase DEF Serving
<1>2. /\ Whole' /\ Net' /\ Quiet' /\ Shape'
      /\ Kept /\ Own' = Own /\ UNCHANGED <<m_handle, port, sends, content>>
      /\ \/ call'[Main] = call[Main] /\ UNCHANGED <<pc, datagram, exit>>
         \/ call'[Main] = Idle /\ Quits("failure")
         \/ call'[Main] = Idle /\ \E d \in got' : Receives1(Server, BufferLength, d)
    BY <1>0, <1>1, EchoReceiving
<1>3. Stands(Server) /\ Stands(Client)
    BY <1>2 DEF Stands
<1>4. PICK r \in Own : Own = {r} /\ Asked(r)
    BY <1>0 DEF Serving
<1>5. Asked(r)'
    BY <1>2, <1>3, <1>4, AskedKept
<1>6. CASE call'[Main] = call[Main] /\ UNCHANGED <<pc, datagram, exit>>
    <2>1. Receiving(Server, BufferLength)'
        BY <1>1, <1>6 DEF Receiving, At, BufferLength
    <2>2. Serving'
        BY <1>2, <1>4, <1>5, <1>6, <2>1 DEF Serving
    <2> QED BY <1>0, <1>2, <1>6, <2>2 DEF EchoRest, Position, Running
<1>7. CASE call'[Main] = Idle /\ Quits("failure")
    BY <1>2, <1>7, QuitLeaves DEF EchoRest
<1>8. CASE call'[Main] = Idle /\ \E d \in got' : Receives1(Server, BufferLength, d)
    <2>1. PICK d \in got' : Receives1(Server, BufferLength, d)
        BY <1>8
    <2>2. datagram' = d /\ pc' = "reply" /\ exit' = "running"
        BY <1>0, <2>1 DEF Receives1, AfterReceive, Continues
    <2>3. Got'
        BY <1>2, <2>1, <2>2 DEF Receives1, Got, ServerPort
    <2>4. Served'
        BY <1>2, <1>4, <1>5, <1>8, <2>2, <2>3 DEF Served, NoCall
    <2> QED BY <1>2, <2>2, <2>4 DEF EchoRest, Position, Running
<1> QED BY <1>2, <1>6, <1>7, <1>8

\* example_udp_loopback.cpp:78-84: the reply goes out from the server's port.
LEMMA EchoReplying ==
    ASSUME EchoInv, InCall, pc = "reply"
    PROVE  Whole' /\ EchoRest'
<1>0. exit = "running" /\ (Served \/ Replying)
    BY Stages DEF EchoInv, EchoRest
<1>1. Replying
    BY <1>0, InCallBase DEF Served
<1>2. /\ Whole' /\ Net' /\ Quiet' /\ Shape'
      /\ Kept /\ Own' = Own /\ datagram' = datagram
      /\ \A x \in Sockets : IsValid(x) => Stands(x)
      /\ SendUnderWay(Server) \/ (Quits("failure") /\ call'[Main] = Idle) \/ SendOver(Server)
    BY <1>0, <1>1, EchoSending DEF Replying
<1>3. PICK i : i = call[Main].id
    OBVIOUS
<1>4. PICK r \in Own : Own = {r, i} /\ r # i /\ Asked(r)
    BY <1>1, <1>3 DEF Replying
<1>5. Stands(Server) /\ Stands(Client)
    BY <1>2, <1>4, EchoAssumption DEF Asked, Both
<1>6. Asked(r)' /\ Got' /\ Answers(i)'
    BY <1>1, <1>2, <1>3, <1>4, <1>5, AskedKept, GotKept, AnswersKept DEF EchoInv, Replying
<1>7. CASE SendUnderWay(Server)
    <2>1. Replying'
        BY <1>1, <1>2, <1>3, <1>4, <1>6, <1>7 DEF SendUnderWay, Replying
    <2> QED BY <1>0, <1>2, <1>7, <2>1 DEF SendUnderWay, EchoRest, Position, Running
<1>8. CASE SendOver(Server)
    <2>1. call'[Main] = Idle /\ pc' = "collect" /\ exit' = "running"
        BY <1>0, <1>8 DEF SendOver
    <2>2. sends'[i].handed = <<sends'[i].length>> /\ sends'[i].from = ServerPort'
        BY <1>3, <1>8 DEF SendOver, ServerPort
    <2>3. Replied(i)'
        BY <1>6, <2>2 DEF Replied
    <2>4. i \in Own' /\ r \in Own' /\ Own' = {r, i}
        BY <1>2, <1>4
    <2>5. Collecting'
        BY <1>4, <1>6, <2>1, <2>3, <2>4 DEF Collecting, NoCall
    <2> QED BY <1>2, <2>1, <2>5 DEF EchoRest, Position, Running
<1>9. CASE Quits("failure") /\ call'[Main] = Idle
    BY <1>2, <1>9, QuitLeaves DEF EchoRest
<1> QED BY <1>2, <1>7, <1>8, <1>9

\* The two sockets have two ports, and neither belongs to another program.
LEMMA TwoPorts ==
    ASSUME Inv, Net, Both
    PROVE  ServerPort # ClientPort /\ ServerPort \notin Others /\ ClientPort \notin Others
<1>1. Server \in Sockets /\ Client \in Sockets /\ Server # Client
    BY EchoAssumption
<1>2. /\ m_handle[Server] \in Natives /\ m_handle[Client] \in Natives
      /\ port \in [Natives -> Ports \cup {None}]
    BY <1>1 DEF Inv, TypeOK, Both, IsValid
<1>3. port[m_handle[Server]] # None /\ port[m_handle[Client]] # None /\ m_handle[Server] # m_handle[Client]
    BY <1>1, <1>2 DEF Inv, OwnedOnce, Both
<1>4. ServerPort \in Ports /\ ClientPort \in Ports /\ ServerPort # ClientPort
    BY <1>2, <1>3 DEF Net, PortsApart, ServerPort, ClientPort
<1> QED BY <1>4, UdpAssumption

\* example_udp_loopback.cpp:85-97: if what the client receives carries the server's address it can
\* only be the reply, so success means an exchange; and if nobody else has
\* sent anything it is the reply, so it matches.
LEMMA EchoCollecting ==
    ASSUME EchoInv, InCall, pc = "collect"
    PROVE  Whole' /\ EchoRest'
<1>0. exit = "running" /\ Collecting
    BY Stages DEF EchoInv, EchoRest
<1>1. Receiving(Client, BufferLength)
    BY <1>0, InCallBase DEF Collecting
<1>2. /\ Whole' /\ Net' /\ Quiet' /\ Shape'
      /\ Kept /\ Own' = Own /\ UNCHANGED <<m_handle, port, sends, content>>
      /\ \/ call'[Main] = call[Main] /\ UNCHANGED <<pc, datagram, exit>>
         \/ call'[Main] = Idle /\ Quits("failure")
         \/ call'[Main] = Idle /\ \E d \in got' : Receives1(Client, BufferLength, d)
    BY <1>0, <1>1, EchoReceiving
<1>3. Stands(Server) /\ Stands(Client)
    BY <1>2 DEF Stands
<1>4. PICK r \in Own, y \in Own : Own = {r, y} /\ r # y /\ Asked(r) /\ Replied(y)
    BY <1>0 DEF Collecting
<1>5. CASE call'[Main] = call[Main] /\ UNCHANGED <<pc, datagram, exit>>
    <2>1. Asked(r)' /\ Replied(y)' /\ Got'
        BY <1>0, <1>2, <1>3, <1>4, <1>5, AskedKept, RepliedKept, GotKept DEF EchoInv, Collecting
    <2>2. Receiving(Client, BufferLength)'
        BY <1>1, <1>5 DEF Receiving, At, BufferLength
    <2>3. Collecting'
        BY <1>2, <1>0, <1>4, <1>5, <2>1, <2>2 DEF Collecting
    <2> QED BY <1>0, <1>2, <1>5, <2>3 DEF EchoRest, Position, Running
<1>6. CASE call'[Main] = Idle /\ Quits("failure")
    BY <1>2, <1>6, QuitLeaves DEF EchoRest
<1>7. CASE call'[Main] = Idle /\ \E d \in got' : Receives1(Client, BufferLength, d)
    <2>1. PICK d \in got' : Receives1(Client, BufferLength, d)
        BY <1>7
    <2>2. /\ d.id \in DOMAIN sends /\ sends[d.id].to = ClientPort
          /\ sends[d.id].handed = <<d.size>> /\ sends[d.id].from = d.sender
          /\ AfterReceive(d)
        BY <2>1 DEF Receives1, ClientPort
    <2>3. Both /\ ServerPort # ClientPort /\ ServerPort \notin Others /\ ClientPort \notin Others
        BY <1>4, TwoPorts DEF EchoInv, EchoRest, Asked
    <2>4. /\ datagram \in got /\ sends[datagram.id].to = ServerPort /\ datagram.id \in DOMAIN sends
          /\ sends[datagram.id].handed = <<datagram.size>> /\ sends[datagram.id].from = datagram.sender
        BY <1>0 DEF Collecting, Got, EchoInv, Inv, Truthful
    <2>5. /\ r \in DOMAIN sends /\ sends[r].to = ServerPort /\ sends[r].length = MessageLength
          /\ content[r] = "message" /\ sends[r].handed = <<MessageLength>> /\ sends[r].from = ClientPort
        BY <1>4 DEF Asked, Asks
    <2>6. /\ y \in DOMAIN sends /\ datagram.id < y
          /\ sends[y].to = datagram.sender /\ sends[y].length = datagram.size
          /\ content[y] = content[datagram.id]
          /\ sends[y].handed = <<sends[y].length>> /\ sends[y].from = ServerPort
        BY <1>4 DEF Replied, Answers
    <2>7. \A i \in DOMAIN sends : sends[i].from \notin Others => i = r \/ i = y
        BY <1>4 DEF Own
    <2>8. datagram.id # y
        <3>1. y \in Nat
            BY <2>6, SendsType DEF EchoInv, Inv
        <3>2. \A k \in Nat : ~(k < k)
            OBVIOUS
        <3> QED BY <2>6, <3>1, <3>2
    <2>9. CASE IsEcho(d)
        <3>1. d.sender = ServerPort
            BY <2>9 DEF IsEcho
        <3>2. d.id = y
            BY <2>2, <2>3, <2>5, <2>7, <3>1
        <3>3. datagram.sender = ClientPort
            BY <2>2, <2>6, <3>2
        <3>4. datagram.id = r
            BY <2>3, <2>4, <2>7, <2>8, <3>3
        <3>5. PICK g \in got : g = datagram
            BY <2>4
        <3>6. Exchange(g, d)'
            BY <1>2, <2>3, <2>4, <2>5, <2>6, <3>1, <3>2, <3>3, <3>4, <3>5 DEF Exchange, MessageLength
        <3>7. Exchanged'
            BY <1>2, <3>5, <3>6 DEF Exchanged, Kept
        <3>8. pc' = "empty" /\ exit' = "running"
            BY <1>0, <2>2, <2>9 DEF Collecting, AfterReceive, Continues
        <3>9. Emptying'
            BY <1>2, <1>7, <2>3, <3>7, <3>8 DEF Emptying, Both, IsValid, NoCall
        <3> QED BY <1>2, <3>8, <3>9 DEF EchoRest, Position, Running
    <2>10. CASE ~IsEcho(d)
        <3>1. Quits("mismatch")
            BY <1>0, <2>2, <2>10 DEF Collecting, AfterReceive
        <3>2. \E i \in DOMAIN sends : sends[i].from \in Others
            <4> SUFFICES ASSUME \A i \in DOMAIN sends : sends[i].from \notin Others PROVE FALSE
                OBVIOUS
            <4>1. d.id = y /\ datagram.id = r
                BY <2>2, <2>3, <2>4, <2>5, <2>7, <2>8
            <4>2. <<d.size>> = <<sends[y].length>> /\ <<datagram.size>> = <<MessageLength>>
                BY <2>2, <2>4, <2>5, <2>6, <4>1
            <4>3. \A a, b : <<a>> = <<b>> => a = b
                OBVIOUS
            <4>4. d.size = MessageLength
                BY <2>6, <4>2, <4>3
            <4>5. content[d.id] = "message" /\ d.sender = ServerPort
                BY <2>2, <2>5, <2>6, <4>1
            <4> QED BY <2>10, <4>4, <4>5 DEF IsEcho, IsEchoFromAnyone, Payload
        <3>3. Leaving'
            BY <1>2, <1>7, <3>1, <3>2 DEF Quits, Leaving, NoCall
        <3> QED BY <1>2, <3>1, <3>3 DEF Quits, EchoRest, Position
    <2> QED BY <2>9, <2>10
<1> QED BY <1>2, <1>5, <1>6, <1>7

\* Into a buffer of length 0 only an empty datagram is received.
LEMMA NothingFits == ASSUME NEW o, NEW d, Receives1(o, 0, d) PROVE d.size = 0
<1>1. d.size \in Nat /\ d.size <= 0
    BY DEF Receives1, Receipts
<1> QED BY <1>1

\* example_udp_loopback.cpp:100-116: the empty datagram, whatever arrives instead of it.
LEMMA EchoEmptying ==
    ASSUME EchoInv, InCall, pc = "empty" \/ pc = "receive empty"
    PROVE  Whole' /\ EchoRest'
<1>1. exit = "running" /\ Emptying
    BY Stages DEF EchoInv, EchoRest
<1>2. call[Main] # Idle
    BY InCallBase DEF NoCall
<1>3. CASE pc = "empty"
    <2>1. Sending(Client)
        BY <1>1, <1>2, <1>3 DEF Emptying, NoCall
    <2>2. /\ Whole' /\ Net' /\ Quiet' /\ Shape' /\ Kept
          /\ \A x \in Sockets : IsValid(x) => Stands(x)
          /\ SendUnderWay(Client) \/ (Quits("failure") /\ call'[Main] = Idle) \/ SendOver(Client)
        BY <1>1, <1>3, <2>1, EchoSending
    <2>3. Both' /\ Exchanged'
        BY <1>1, <2>2, ExchangedKept, EchoAssumption DEF EchoInv, Emptying, Both, Stands, IsValid
    <2>4. CASE SendUnderWay(Client)
        <3>1. Emptying'
            BY <1>3, <2>3, <2>4 DEF SendUnderWay, Emptying
        <3> QED BY <1>1, <2>2, <2>4, <3>1 DEF SendUnderWay, EchoRest, Position, Running
    <2>5. CASE SendOver(Client)
        <3>1. call'[Main] = Idle /\ pc' = "receive empty" /\ exit' = "running"
            BY <1>1, <1>3, <2>5 DEF SendOver
        <3>2. Emptying'
            BY <2>3, <3>1 DEF Emptying, NoCall
        <3> QED BY <2>2, <3>1, <3>2 DEF EchoRest, Position, Running
    <2>6. CASE Quits("failure") /\ call'[Main] = Idle
        BY <2>2, <2>6, QuitLeaves DEF EchoRest
    <2> QED BY <2>2, <2>4, <2>5, <2>6
<1>4. CASE pc = "receive empty"
    <2>1. Receiving(Server, 0)
        BY <1>1, <1>2, <1>4 DEF Emptying, NoCall
    <2>2. /\ Whole' /\ Net' /\ Quiet' /\ Shape'
          /\ Kept /\ UNCHANGED <<m_handle, port, sends, content>>
          /\ \/ call'[Main] = call[Main] /\ UNCHANGED <<pc, datagram, exit>>
             \/ call'[Main] = Idle /\ Quits("failure")
             \/ call'[Main] = Idle /\ \E d \in got' : Receives1(Server, 0, d)
        BY <1>1, <1>4, <2>1, EchoReceiving
    <2>3. Both' /\ Exchanged'
        BY <1>1, <2>2, ExchangedKept DEF EchoInv, Emptying, Both, IsValid
    <2>4. CASE call'[Main] = call[Main] /\ UNCHANGED <<pc, datagram, exit>>
        <3>1. Receiving(Server, 0)'
            BY <2>1, <2>4 DEF Receiving, At
        <3>2. Emptying'
            BY <1>4, <2>3, <2>4, <3>1 DEF Emptying
        <3> QED BY <1>1, <2>2, <2>4, <3>2 DEF EchoRest, Position, Running
    <2>5. CASE call'[Main] = Idle /\ Quits("failure")
        BY <2>2, <2>5, QuitLeaves DEF EchoRest
    <2>6. CASE call'[Main] = Idle /\ \E d \in got' : Receives1(Server, 0, d)
        <3>1. PICK d \in got' : Receives1(Server, 0, d)
            BY <2>6
        <3>2. d.size = 0
            BY <3>1, NothingFits
        <3>3. Quits("success")
            BY <1>4, <3>1, <3>2 DEF Receives1, AfterReceive
        <3>4. Handed(datagram.id, 0)'
            BY <2>2, <3>1, <3>2 DEF Receives1, AfterReceive, Handed
        <3>5. Leaving'
            BY <2>3, <2>6, <3>3, <3>4 DEF Quits, Leaving, NoCall
        <3> QED BY <2>2, <3>3, <3>5 DEF Quits, EchoRest, Position
    <2> QED BY <2>2, <2>4, <2>5, <2>6
<1> QED BY <1>3, <1>4

LEMMA EchoInCall ==
    ASSUME EchoInv, InCall
    PROVE  Whole' /\ EchoRest'
<1>1. ~NoCall
    BY InCallBase
<1>2. pc \in {"bind", "request", "serve", "reply", "collect", "empty", "receive empty"}
    BY <1>1 DEF EchoInv, EchoRest, Position, Running, Leaving, Starting, Bound, Requesting, Serving,
                Served, Replying, Collecting, Emptying
<1> QED BY <1>2, EchoBinding, EchoRequesting, EchoServing, EchoReplying, EchoCollecting, EchoEmptying

LEMMA EchoStep == EchoInv /\ [EchoNext]_allVars => Whole' /\ EchoRest'
<1> SUFFICES ASSUME EchoInv, [EchoNext]_allVars PROVE Whole' /\ EchoRest'
    OBVIOUS
<1>1. CASE Program
    BY <1>1, EchoBinds, EchoTimes, EchoRequests, EchoReceives, EchoReplies, EchoSendsEmpty, EchoInCall,
       EchoTimesOut, EchoDestroys DEF Program
<1>2. CASE Network
    BY <1>2, EchoNetwork
<1>3. CASE \E q \in Others, p \in Ports, payload \in Payloads : OtherSends(q, p, payload)
    BY <1>3, EchoOthers
<1>4. CASE UNCHANGED allVars
    <2>1. UNCHANGED <<m_handle, inUse, port, wire, queue, call, sends, got, pc, timed, datagram, content, exit>>
        BY <1>4 DEF allVars, vars, main, system, history
    <2>2. Whole' /\ Net'
        BY <2>1, BaseStep DEF EchoInv, EchoRest
    <2>3. Kept /\ Own' = Own
        BY <2>1 DEF Kept, SentStays, Own
    <2>4. Position'
        BY <2>1, <2>3, PositionKept DEF EchoInv, EchoRest
    <2>5. Quiet' /\ Shape'
        BY <2>1 DEF EchoInv, EchoRest, Quiet, Shape, IsValid
    <2> QED BY <2>2, <2>4, <2>5 DEF EchoRest
<1> QED BY <1>1, <1>2, <1>3, <1>4 DEF EchoNext

\* The invariant of the datagram example, for any number of lost, duplicated,
\* late and foreign datagrams.
THEOREM EchoInvariance == EchoSpec => []EchoInv
<1>1. EchoInit => Whole /\ EchoRest
    <2> SUFFICES ASSUME EchoInit PROVE Whole /\ EchoRest
        OBVIOUS
    <2>1. Whole
        BY InitIsWhole DEF EchoInit
    <2>2. Net
        BY DEF EchoInit, Init, Net, PortsApart, Unused, Unbinds, Routed, At, Idle
    <2>3. Quiet /\ Shape
        BY EmptySeq DEF EchoInit, Init, Quiet, Shape, IsValid, Nothing
    <2>4. Position
        BY EchoAssumption DEF EchoInit, Init, Position, Running, Starting, Own, NoCall, IsValid
    <2> QED BY <2>1, <2>2, <2>3, <2>4 DEF EchoRest
<1>2. Whole /\ EchoRest => EchoInv
    BY WholeIsInv DEF EchoInv
<1> QED BY <1>1, <1>2, EchoStep, PTL DEF EchoSpec

\* Success means that the server received the program's own request and the
\* client the server's answer to it (example_udp_loopback.cpp:78-79, 93).
THEOREM SuccessMeansExchange == EchoSpec => []SuccessIsAnExchange
<1>1. EchoInv => SuccessIsAnExchange
    BY DEF EchoInv, EchoRest, Position, Leaving, Exchanged, Exchange, SuccessIsAnExchange
<1> QED BY <1>1, EchoInvariance, PTL

\* Without another program's datagram the answer is never wrong, and the
\* datagram main succeeds on left its sender empty, although a longer one would
\* put no byte into the empty buffer either
\* (example_udp_loopback.cpp:85-97, 106-118, udp_socket.hpp:144-149).
THEOREM OutcomesAreTrue == EchoSpec => []OutcomeIsTrue
<1>1. EchoInv => OutcomeIsTrue
    BY DEF EchoInv, EchoRest, Position, Leaving, Handed, OutcomeIsTrue, MismatchNeedsStray, EmptyMeansEmpty
<1> QED BY <1>1, EchoInvariance, PTL

\* main leaves no descriptor behind (example_udp_loopback.cpp:34, 118).
THEOREM AllIsClosed == EchoSpec => []NothingLeaks
<1>1. EchoInv => NothingLeaks
    <2> SUFFICES ASSUME EchoInv PROVE NothingLeaks
        OBVIOUS
    <2>1. EchoTypeOK
        <3>1. DOMAIN content = DOMAIN sends /\ content \in Seq(Contents) /\ sends \in Seq(SendRecords)
            BY SendsType DEF EchoInv, EchoRest, Shape, Inv
        <3>2. Len(content) = Len(sends)
            BY <3>1, LenProperties
        <3>3. exit \in {"running", "success", "failure", "mismatch", "not empty"}
            BY DEF EchoInv, EchoRest, Position, Leaving
        <3>4. pc \in {"bind", "time server", "endpoint", "request", "time client", "serve", "reply",
                      "collect", "empty", "receive empty", "close client", "close server", "returned"}
            BY DEF EchoInv, EchoRest, Position, Running, Leaving, Starting, Bound, Requesting, Serving,
                   Served, Replying, Collecting, Emptying
        <3> QED BY <3>2, <3>3, <3>4 DEF EchoTypeOK, EchoInv, EchoRest, Shape
    <2>2. ASSUME pc = "returned" PROVE inUse = {}
        <3>1. Leaving
            BY <2>2, Stages DEF EchoInv, EchoRest
        <3>2. \A o \in Sockets : ~IsValid(o)
            BY <2>2, <3>1 DEF Leaving, EchoInv, EchoRest, Quiet
        <3>3. \A t \in Threads : call[t] = Idle
            BY <3>1 DEF Leaving, NoCall, EchoInv, EchoRest, Quiet
        <3>4. \A n \in Natives : n \notin inUse
            BY <3>2, <3>3, UdpAssumption DEF EchoInv, Inv, OwnedOnce, IsValid, Idle
        <3> QED BY <3>4 DEF EchoInv, Inv, TypeOK
    <2> QED BY <2>1, <2>2 DEF NothingLeaks
<1> QED BY <1>1, EchoInvariance, PTL
=============================================================================
