-------------------------- MODULE TcpStreamProofs --------------------------
(***************************************************************************)
(* The two programs that use one connection from one thread: every use of  *)
(* Send, Receive, Shutdown and Close (TcpTransfer), and the loopback       *)
(* example (EchoLoopback).                                                 *)
(***************************************************************************)
EXTENDS TcpTransfer, EchoLoopback, SequenceTheorems, TLAPS

(***************************************************************************)
(* TcpTransfer implements ByteStream for any capacities, buffer sizes,     *)
(* stream lengths and numbers of failures. The received bytes of an end    *)
(* say nothing of the next ones: the invariant also knows what is in       *)
(* flight (InOrder), that nothing is lost between the two (Conserved), and *)
(* that a told end has nothing left to receive (ToldTrue).                 *)
(***************************************************************************)

\* What an end has received are its peer's first bytes; what is in flight to it
\* are the next ones (tcp_socket.hpp:64-123).
InOrder ==
    \A e \in Ends :
        /\ \A i \in 1..Len(got[e]) : got[e][i] = i
        /\ \A i \in 1..Len(flight[e]) : flight[e][i] = Len(got[Peer(e)]) + i

\* Every byte counted by a Send is received or in flight (tcp_socket.hpp:78-94).
Conserved == \A e \in Ends : sent[e] = Len(got[Peer(e)]) + Len(flight[e])

\* The peer of a told end has ended its stream (tcp_socket.hpp:96-98).
ToldTrue == \A e \in told : Peer(e) \in sendShut /\ flight[Peer(e)] = <<>>

Inv ==
    /\ NeverInterrupted
    /\ Capacity \in Nat
    /\ InOrder /\ Conserved /\ ToldTrue

-----------------------------------------------------------------------------
\* Positions in a concatenation and in a remainder.
LEMMA Shifts ==
    \A a, b, c \in Int : (a + b) + (c - b) = a + c /\ (a + b) + c = a + (b + c)
OBVIOUS

LEMMA PeerFacts ==
    \A e \in Ends : Peer(e) \in Ends /\ Peer(e) # e /\ Peer(Peer(e)) = e
BY DEF Ends, Peer

LEMMA BothEnds == \A e, p \in Ends : p = e \/ p = Peer(e)
BY DEF Ends, Peer

\* What a failed or interrupted native call does to the model's budgets.
LEMMA DisturbedFacts ==
    ASSUME TypeOK, NEW r, Disturbed(r)
    PROVE  /\ failures' \in 0..MaxFailures /\ interrupts' \in 0..MaxInterrupts
           /\ r.count = 0 /\ r.error \in {"failed", "interrupted"}
BY StreamAssumption DEF TypeOK, Disturbed, Failed

\* The bytes a Send is asked to send.
LEMMA UnsentFacts ==
    ASSUME TypeOK, NEW e \in Ends, NEW size \in 1..MaxBuffer, sent[e] + size <= MaxBytes
    PROVE  /\ Unsent(e, size) \in Seq(1..MaxBytes)
           /\ Len(Unsent(e, size)) = size
           /\ \A i \in 1..size : Unsent(e, size)[i] = sent[e] + i
<1>1. Unsent(e, size) \in [1..size -> 1..MaxBytes] /\ size \in Nat
    BY TransferAssumption DEF TypeOK, Unsent
<1>2. Unsent(e, size) \in Seq(1..MaxBytes)
    BY <1>1, SeqDef
<1>3. Len(Unsent(e, size)) = size
    BY <1>1, <1>2, LenProperties
<1> QED BY <1>2, <1>3, <1>1 DEF Unsent

\* A native send either puts the next bytes in flight, as many as it reports,
\* or reports an error and moves nothing (tcp_socket.hpp:66-94).
LEMMA SendEffect ==
    ASSUME Inv, NEW e \in Ends, NEW size \in 1..MaxBuffer, sent[e] + size <= MaxBytes,
           NEW r \in Results(size), NativeSend(e, Unsent(e, size), r)
    PROVE  /\ failures' \in 0..MaxFailures /\ interrupts' \in 0..MaxInterrupts
           /\ flight' \in [Ends -> Seq(1..MaxBytes)]
           /\ flight'[Peer(e)] = flight[Peer(e)]
           /\ Len(flight'[e]) = Len(flight[e]) + r.count
           /\ \A i \in 1..Len(flight'[e]) : flight'[e][i] = Len(got[Peer(e)]) + i
           /\ Len(flight'[e]) <= Capacity
           /\ r.count > 0 => e \notin sendShut
<1> USE PeerFacts
<1>1. ASSUME e \notin sendShut, r \in [count: 1..Len(Unsent(e, size)), error: {"none"}],
             Len(flight[e]) + r.count <= Capacity,
             flight' = [flight EXCEPT ![e] = @ \o SubSeq(Unsent(e, size), 1, r.count)],
             UNCHANGED <<failures, interrupts>>
      PROVE  /\ failures' \in 0..MaxFailures /\ interrupts' \in 0..MaxInterrupts
             /\ flight' \in [Ends -> Seq(1..MaxBytes)]
             /\ flight'[Peer(e)] = flight[Peer(e)]
             /\ Len(flight'[e]) = Len(flight[e]) + r.count
             /\ \A i \in 1..Len(flight'[e]) : flight'[e][i] = Len(got[Peer(e)]) + i
             /\ Len(flight'[e]) <= Capacity
    <2> DEFINE more == SubSeq(Unsent(e, size), 1, r.count)
    <2>1. r.count \in 1..size
        BY <1>1, UnsentFacts DEF Inv, NeverInterrupted
    <2>2. \A i \in 1..r.count : Unsent(e, size)[i] = sent[e] + i /\ Unsent(e, size)[i] \in 1..MaxBytes
        <3>1. /\ \A i \in 1..size : Unsent(e, size)[i] = sent[e] + i
              /\ sent[e] \in Nat
            BY UnsentFacts DEF Inv, NeverInterrupted, TypeOK
        <3> QED BY <2>1, <3>1, TransferAssumption
    <2>3. /\ more \in Seq(1..MaxBytes) /\ Len(more) = r.count
          /\ \A i \in 1..r.count : more[i] = sent[e] + i
        BY <2>1, <2>2, SubSeqProperties
    <2>4. flight[e] \in Seq(1..MaxBytes) /\ Len(flight[e]) \in Nat
        BY LenProperties DEF Inv, NeverInterrupted, TypeOK
    <2> HIDE DEF more
    <2>5. /\ flight[e] \o more \in Seq(1..MaxBytes)
          /\ Len(flight[e] \o more) = Len(flight[e]) + r.count
          /\ \A i \in 1..Len(flight[e]) + r.count :
                (flight[e] \o more)[i] = IF i <= Len(flight[e]) THEN flight[e][i] ELSE more[i - Len(flight[e])]
        <3>1. /\ flight[e] \o more \in Seq(1..MaxBytes)
              /\ Len(flight[e] \o more) = Len(flight[e]) + Len(more)
              /\ \A i \in 1..Len(flight[e]) + Len(more) :
                    (flight[e] \o more)[i] = IF i <= Len(flight[e]) THEN flight[e][i] ELSE more[i - Len(flight[e])]
            BY <2>3, <2>4, ConcatProperties
        <3> QED BY <2>3, <3>1
    <2>6. /\ flight'[e] = flight[e] \o more
          /\ flight'[Peer(e)] = flight[Peer(e)]
          /\ flight' \in [Ends -> Seq(1..MaxBytes)]
        BY <1>1, <2>5 DEF Inv, NeverInterrupted, TypeOK, more
    <2>7. \A i \in 1..Len(flight[e]) + r.count : (flight[e] \o more)[i] = Len(got[Peer(e)]) + i
        <3>1. sent[e] = Len(got[Peer(e)]) + Len(flight[e]) /\ Len(got[Peer(e)]) \in Nat
            BY LenProperties DEF Inv, Conserved, NeverInterrupted, TypeOK
        <3>2. \A i \in 1..Len(flight[e]) : flight[e][i] = Len(got[Peer(e)]) + i
            BY DEF Inv, InOrder
        <3>3. \A i \in (Len(flight[e]) + 1)..(Len(flight[e]) + r.count) :
                  more[i - Len(flight[e])] = Len(got[Peer(e)]) + i
            <4> SUFFICES ASSUME NEW i \in (Len(flight[e]) + 1)..(Len(flight[e]) + r.count)
                         PROVE  more[i - Len(flight[e])] = Len(got[Peer(e)]) + i
                OBVIOUS
            <4>1. i - Len(flight[e]) \in 1..r.count
                BY <2>1, <2>4
            <4>2. more[i - Len(flight[e])] = sent[e] + (i - Len(flight[e]))
                BY <2>3, <4>1
            <4>3. i \in Int /\ Len(flight[e]) \in Int /\ Len(got[Peer(e)]) \in Int
                BY <2>1, <2>4, <3>1
            <4>4. (Len(got[Peer(e)]) + Len(flight[e])) + (i - Len(flight[e])) = Len(got[Peer(e)]) + i
                BY <4>3, Shifts
            <4> QED BY <3>1, <4>2, <4>4
        <3>4. ASSUME NEW i \in 1..Len(flight[e]) + r.count
              PROVE  (flight[e] \o more)[i] = Len(got[Peer(e)]) + i
            <4>1. i \in Int /\ (i \in 1..Len(flight[e]) \/ i \in (Len(flight[e]) + 1)..(Len(flight[e]) + r.count))
                BY <2>1, <2>4
            <4>2. CASE i \in 1..Len(flight[e])
                BY <2>4, <2>5, <3>2, <4>1, <4>2
            <4>3. CASE i \in (Len(flight[e]) + 1)..(Len(flight[e]) + r.count)
                <5>1. ~(i <= Len(flight[e]))
                    BY <2>1, <2>4, <4>1, <4>3
                <5> QED BY <2>5, <3>3, <4>3, <5>1
            <4> QED BY <4>1, <4>2, <4>3
        <3> QED BY <3>4
    <2> QED BY <1>1, <2>1, <2>4, <2>5, <2>6, <2>7 DEF Inv, NeverInterrupted, TypeOK
<1>2. ASSUME UNCHANGED flight, r.count = 0
      PROVE  /\ flight' \in [Ends -> Seq(1..MaxBytes)]
             /\ flight'[Peer(e)] = flight[Peer(e)]
             /\ Len(flight'[e]) = Len(flight[e]) + r.count
             /\ \A i \in 1..Len(flight'[e]) : flight'[e][i] = Len(got[Peer(e)]) + i
             /\ Len(flight'[e]) <= Capacity
    BY <1>2, LenProperties DEF Inv, NeverInterrupted, TypeOK, InOrder
<1>3. CASE /\ r \in {Failed("broken_pipe"), Failed("reset"), Failed("timed_out")}
           /\ UNCHANGED <<flight, failures, interrupts>>
    BY <1>2, <1>3 DEF Failed, Inv, NeverInterrupted, TypeOK
<1>4. CASE Disturbed(r) /\ UNCHANGED flight
    BY <1>2, <1>4, DisturbedFacts DEF Inv, NeverInterrupted
<1> QED BY <1>1, <1>3, <1>4 DEF NativeSend

\* A native receive takes the oldest bytes in flight, as many as it reports, and
\* reports none without an error only at the end (tcp_socket.hpp:96-123).
LEMMA ReceiveEffect ==
    ASSUME Inv, NEW e \in Ends, NEW size \in 1..MaxBuffer,
           NEW r \in Results(size), NativeReceive(e, size, r)
    PROVE  /\ failures' \in 0..MaxFailures /\ interrupts' \in 0..MaxInterrupts
           /\ flight' \in [Ends -> Seq(1..MaxBytes)]
           /\ flight'[e] = flight[e]
           /\ r.count <= Len(flight[Peer(e)])
           /\ Len(flight'[Peer(e)]) = Len(flight[Peer(e)]) - r.count
           /\ \A i \in 1..Len(flight'[Peer(e)]) : flight'[Peer(e)][i] = Len(got[e]) + r.count + i
           /\ Arriving(e, r.count) \in Seq(1..MaxBytes) /\ Len(Arriving(e, r.count)) = r.count
           /\ \A i \in 1..r.count : Arriving(e, r.count)[i] = Len(got[e]) + i
           /\ r = [count |-> 0, error |-> "none"] /\ e \notin receiveShut
                 => Peer(e) \in sendShut /\ flight[Peer(e)] = <<>>
<1> DEFINE incoming == flight[Peer(e)]
<1>1. /\ incoming \in Seq(1..MaxBytes) /\ Len(incoming) \in Nat
      /\ \A i \in 1..Len(incoming) : incoming[i] = Len(got[e]) + i /\ incoming[i] \in 1..MaxBytes
      /\ Len(got[e]) \in Nat
      /\ r.count \in Nat
    <2>1. incoming \in Seq(1..MaxBytes) /\ got[e] \in Seq(1..MaxBytes)
        BY PeerFacts DEF Inv, NeverInterrupted, TypeOK
    <2>2. r.count \in Nat
        BY TransferAssumption DEF Results
    <2> QED BY <2>1, <2>2, PeerFacts, LenProperties, ElementOfSeq DEF Inv, InOrder
<1>2. ASSUME r.count <= Len(incoming)
      PROVE  /\ Arriving(e, r.count) \in Seq(1..MaxBytes) /\ Len(Arriving(e, r.count)) = r.count
             /\ \A i \in 1..r.count : Arriving(e, r.count)[i] = Len(got[e]) + i
    <2>1. \A i \in 1..r.count : incoming[i] = Len(got[e]) + i /\ incoming[i] \in 1..MaxBytes
        BY <1>1, <1>2
    <2> HIDE DEF incoming
    <2>2. /\ SubSeq(incoming, 1, r.count) \in Seq(1..MaxBytes)
          /\ Len(SubSeq(incoming, 1, r.count)) = r.count
          /\ \A i \in 1..r.count : SubSeq(incoming, 1, r.count)[i] = incoming[i]
        <3>1. /\ SubSeq(incoming, 1, r.count) \in Seq(1..MaxBytes)
              /\ Len(SubSeq(incoming, 1, r.count)) = IF 1 <= r.count THEN r.count - 1 + 1 ELSE 0
              /\ \A i \in 1..r.count - 1 + 1 : SubSeq(incoming, 1, r.count)[i] = incoming[1 + i - 1]
            BY <1>1, <2>1, SubSeqProperties
        <3> QED BY <1>1, <3>1
    <2> QED BY <2>1, <2>2 DEF Arriving, incoming
<1>3. ASSUME r \in [count: 1..size, error: {"none"}], r.count <= Len(incoming),
             flight' = [flight EXCEPT ![Peer(e)] = SubSeq(@, r.count + 1, Len(@))]
      PROVE  /\ flight' \in [Ends -> Seq(1..MaxBytes)]
             /\ flight'[e] = flight[e]
             /\ Len(flight'[Peer(e)]) = Len(flight[Peer(e)]) - r.count
             /\ \A i \in 1..Len(flight'[Peer(e)]) : flight'[Peer(e)][i] = Len(got[e]) + r.count + i
    <2> DEFINE rest == SubSeq(incoming, r.count + 1, Len(incoming))
    <2>1. flight' = [flight EXCEPT ![Peer(e)] = rest]
        BY <1>3
    <2> HIDE DEF incoming
    <2>2. /\ rest \in Seq(1..MaxBytes)
          /\ Len(rest) = Len(incoming) - r.count
          /\ \A i \in 1..Len(incoming) - r.count : rest[i] = incoming[r.count + i]
        <3>1. \A i \in (r.count + 1)..Len(incoming) : incoming[i] \in 1..MaxBytes
            BY <1>1
        <3>2. /\ rest \in Seq(1..MaxBytes)
              /\ Len(rest) = IF r.count + 1 <= Len(incoming) THEN Len(incoming) - (r.count + 1) + 1 ELSE 0
              /\ \A i \in 1..Len(incoming) - (r.count + 1) + 1 : rest[i] = incoming[r.count + 1 + i - 1]
            <4>1. r.count + 1 \in Int /\ Len(incoming) \in Int
                BY <1>1
            <4> QED BY <3>1, <4>1, SubSeqProperties
        <3>3. /\ Len(incoming) - (r.count + 1) + 1 = Len(incoming) - r.count
              /\ \A i \in 1..Len(incoming) - r.count : r.count + 1 + i - 1 = r.count + i
            BY <1>1
        <3> HIDE DEF rest
        <3>4. Len(rest) = Len(incoming) - r.count
            BY <1>1, <1>3, <3>2
        <3>5. ASSUME NEW i \in 1..Len(incoming) - r.count
              PROVE  rest[i] = incoming[r.count + i]
            <4>1. i \in 1..Len(incoming) - (r.count + 1) + 1
                BY <3>3
            <4>2. rest[i] = incoming[r.count + 1 + i - 1]
                BY <3>2, <4>1
            <4> QED BY <3>3, <4>2
        <3> QED BY <3>2, <3>4, <3>5
    <2> HIDE DEF rest
    <2>3. \A i \in 1..Len(incoming) - r.count : rest[i] = Len(got[e]) + r.count + i
        <3> SUFFICES ASSUME NEW i \in 1..Len(incoming) - r.count
                     PROVE  rest[i] = Len(got[e]) + r.count + i
            OBVIOUS
        <3>1. r.count + i \in 1..Len(incoming)
            BY <1>1, <1>3
        <3>2. rest[i] = Len(got[e]) + (r.count + i)
            BY <1>1, <2>2, <3>1
        <3>3. i \in Int /\ r.count \in Int /\ Len(got[e]) \in Int
            BY <1>1
        <3> QED BY <3>2, <3>3, Shifts
    <2>4. flight'[Peer(e)] = rest /\ flight'[e] = flight[e] /\ flight' \in [Ends -> Seq(1..MaxBytes)]
        BY <2>1, <2>2, PeerFacts DEF Inv, NeverInterrupted, TypeOK
    <2> QED BY <2>2, <2>3, <2>4 DEF incoming
<1>4. ASSUME UNCHANGED flight, r.count = 0
      PROVE  /\ flight' \in [Ends -> Seq(1..MaxBytes)]
             /\ flight'[e] = flight[e]
             /\ Len(flight'[Peer(e)]) = Len(flight[Peer(e)]) - r.count
             /\ \A i \in 1..Len(flight'[Peer(e)]) : flight'[Peer(e)][i] = Len(got[e]) + r.count + i
    BY <1>1, <1>4 DEF Inv, NeverInterrupted, TypeOK
<1>5. failures \in 0..MaxFailures /\ interrupts \in 0..MaxInterrupts
    BY DEF Inv, NeverInterrupted, TypeOK
<1>6. CASE /\ r \in [count: 1..size, error: {"none"}] /\ r.count <= Len(incoming)
           /\ flight' = [flight EXCEPT ![Peer(e)] = SubSeq(@, r.count + 1, Len(@))]
           /\ UNCHANGED <<failures, interrupts>>
    <2>1. r.count # 0
        BY <1>6
    <2> QED BY <1>2, <1>3, <1>5, <1>6, <2>1
<1>7. CASE incoming = <<>> /\ (Peer(e) \in sendShut \/ e \in receiveShut)
           /\ r = [count |-> 0, error |-> "none"]
           /\ UNCHANGED <<flight, failures, interrupts>>
    BY <1>1, <1>2, <1>4, <1>5, <1>7
<1>8. CASE r \in {Failed("reset"), Failed("timed_out")} /\ UNCHANGED <<flight, failures, interrupts>>
    <2>1. r.count = 0 /\ r # [count |-> 0, error |-> "none"]
        BY <1>8 DEF Failed
    <2> QED BY <1>1, <1>2, <1>4, <1>5, <1>8, <2>1
<1>9. CASE Disturbed(r) /\ UNCHANGED flight
    <2>1. /\ failures' \in 0..MaxFailures /\ interrupts' \in 0..MaxInterrupts
          /\ r.count = 0 /\ r.error # "none"
        BY <1>9, DisturbedFacts DEF Inv, NeverInterrupted
    <2> QED BY <1>1, <1>2, <1>4, <1>9, <2>1
<1> QED BY <1>6, <1>7, <1>8, <1>9 DEF NativeReceive

\* What the caller is told: a well formed result, and never an interruption.
LEMMA ReturnedResult ==
    ASSUME NeverInterrupted, NEW e \in Ends, NEW size \in 1..MaxBuffer, NEW r \in Results(size),
           ~Retried(r), Return(e, r)
    PROVE  /\ result' \in [Ends -> [count: 0..MaxBuffer, error: CallErrors \cup {"none", "bad_file_descriptor"}]]
           /\ \A p \in Ends : result'[p].error # "interrupted"
<1>1. r \in [count: 0..MaxBuffer, error: CallErrors \cup {"none", "bad_file_descriptor"}]
    BY TransferAssumption DEF Results
<1> QED BY <1>1 DEF NeverInterrupted, TypeOK, Return, Retried

\* The bytes an end has after a receive.
LEMMA GotEffect ==
    ASSUME Inv, NEW e \in Ends, NEW size \in 1..MaxBuffer,
           NEW r \in Results(size), NativeReceive(e, size, r),
           got' = [got EXCEPT ![e] = @ \o Arriving(e, r.count)]
    PROVE  /\ got' \in [Ends -> Seq(1..MaxBytes)]
           /\ got'[Peer(e)] = got[Peer(e)]
           /\ Len(got'[e]) = Len(got[e]) + r.count
           /\ \A i \in 1..Len(got'[e]) : got'[e][i] = i
<1> DEFINE more == Arriving(e, r.count)
<1>1. more \in Seq(1..MaxBytes) /\ Len(more) = r.count /\ \A i \in 1..r.count : more[i] = Len(got[e]) + i
    BY ReceiveEffect
<1>2. /\ got[e] \in Seq(1..MaxBytes) /\ Len(got[e]) \in Nat
      /\ r.count \in Nat
      /\ \A i \in 1..Len(got[e]) : got[e][i] = i
    BY TransferAssumption, LenProperties DEF Inv, NeverInterrupted, TypeOK, InOrder, Results
<1> HIDE DEF more
<1>3. /\ got[e] \o more \in Seq(1..MaxBytes)
      /\ Len(got[e] \o more) = Len(got[e]) + Len(more)
      /\ \A i \in 1..Len(got[e]) + Len(more) :
            (got[e] \o more)[i] = IF i <= Len(got[e]) THEN got[e][i] ELSE more[i - Len(got[e])]
    BY <1>1, <1>2, ConcatProperties
<1>4. ASSUME NEW i \in 1..Len(got[e]) + r.count
      PROVE  (got[e] \o more)[i] = i
    <2>1. i \in Int /\ Len(got[e]) \in Int
        BY <1>2
    <2>2. CASE i <= Len(got[e])
        BY <1>1, <1>2, <1>3, <2>1, <2>2
    <2>3. CASE ~(i <= Len(got[e]))
        <3>1. i - Len(got[e]) \in 1..r.count
            BY <1>2, <2>1, <2>3
        <3>2. (got[e] \o more)[i] = Len(got[e]) + (i - Len(got[e]))
            BY <1>1, <1>3, <2>3, <3>1
        <3>3. Len(got[e]) + (i - Len(got[e])) = i
            BY <2>1
        <3> QED BY <3>2, <3>3
    <2> QED BY <2>2, <2>3
<1>5. /\ got'[e] = got[e] \o more /\ got'[Peer(e)] = got[Peer(e)]
      /\ got' \in [Ends -> Seq(1..MaxBytes)]
    BY <1>3, PeerFacts DEF Inv, NeverInterrupted, TypeOK, more
<1> QED BY <1>1, <1>3, <1>4, <1>5

\* Receiving no byte appends nothing.
LEMMA NothingArrives ==
    ASSUME Inv, NEW e \in Ends, NEW size \in 1..MaxBuffer,
           NEW r \in Results(size), NativeReceive(e, size, r), r.count = 0
    PROVE  [got EXCEPT ![e] = @ \o Arriving(e, r.count)] = got
<1>1. Arriving(e, r.count) \in Seq(1..MaxBytes) /\ Len(Arriving(e, r.count)) = 0
    BY ReceiveEffect
<1>2. Arriving(e, r.count) = <<>>
    BY <1>1, EmptySeq
<1>3. got \in [Ends -> Seq(1..MaxBytes)]
    BY DEF Inv, NeverInterrupted, TypeOK
<1>4. got[e] \o Arriving(e, r.count) = got[e]
    BY <1>2, <1>3, ConcatEmptySeq
<1> QED BY <1>3, <1>4

\* A Send keeps the invariant.
LEMMA SendStep ==
    ASSUME Inv, NEW e \in Ends, NEW size \in 1..MaxBuffer, sent[e] + size <= MaxBytes,
           NEW r \in Results(size), NativeSend(e, Unsent(e, size), r),
           sent' = [sent EXCEPT ![e] = @ + r.count],
           result' \in [Ends -> [count: 0..MaxBuffer, error: CallErrors \cup {"none", "bad_file_descriptor"}]],
           \A p \in Ends : result'[p].error # "interrupted",
           UNCHANGED <<connection, sendShut, receiveShut, valid, got, told>>
    PROVE  Inv'
<1> USE PeerFacts
<1>1. /\ failures' \in 0..MaxFailures /\ interrupts' \in 0..MaxInterrupts
      /\ flight' \in [Ends -> Seq(1..MaxBytes)]
      /\ flight'[Peer(e)] = flight[Peer(e)]
      /\ Len(flight'[e]) = Len(flight[e]) + r.count
      /\ \A i \in 1..Len(flight'[e]) : flight'[e][i] = Len(got[Peer(e)]) + i
      /\ Len(flight'[e]) <= Capacity
      /\ r.count > 0 => e \notin sendShut
    BY SendEffect
<1>2. r.count \in 0..size /\ sent[e] \in 0..MaxBytes
    BY TransferAssumption DEF Results, Inv, NeverInterrupted, TypeOK
<1>3. /\ sent' \in [Ends -> 0..MaxBytes]
      /\ sent'[e] = sent[e] + r.count /\ sent'[Peer(e)] = sent[Peer(e)]
    <2>1. sent[e] + r.count \in 0..MaxBytes
        BY <1>2, TransferAssumption
    <2> QED BY <2>1 DEF Inv, NeverInterrupted, TypeOK
<1>4. NeverInterrupted'
    <2>1. \A p \in Ends : Len(flight'[p]) <= Capacity
        BY <1>1, BothEnds DEF Inv, NeverInterrupted, TypeOK
    <2>2. Capacity' = Capacity
        BY DEF Capacity
    <2> QED BY <1>1, <1>3, <2>1, <2>2, BothEnds DEF Inv, NeverInterrupted, TypeOK
<1>5. InOrder'
    <2>1. ASSUME NEW p \in Ends
          PROVE  /\ \A i \in 1..Len(got[p]) : got[p][i] = i
                 /\ \A i \in 1..Len(flight'[p]) : flight'[p][i] = Len(got[Peer(p)]) + i
        <3>1. CASE p = e
            BY <1>1, <3>1 DEF Inv, InOrder
        <3>2. CASE p = Peer(e)
            BY <1>1, <3>2 DEF Inv, InOrder
        <3> QED BY <3>1, <3>2, BothEnds
    <2> QED BY <2>1 DEF InOrder
<1>6. Conserved'
    <2>1. Len(got[Peer(e)]) \in Nat /\ Len(flight[e]) \in Nat /\ r.count \in Nat
        BY <1>2, LenProperties, TransferAssumption DEF Inv, NeverInterrupted, TypeOK
    <2>2. sent'[e] = Len(got[Peer(e)]) + Len(flight'[e])
        <3>1. sent[e] = Len(got[Peer(e)]) + Len(flight[e])
            BY DEF Inv, Conserved
        <3>2. Len(got[Peer(e)]) \in Int /\ Len(flight[e]) \in Int /\ r.count \in Int
            BY <2>1
        <3>3. sent'[e] = (Len(got[Peer(e)]) + Len(flight[e])) + r.count
            BY <1>3, <3>1
        <3>4. (Len(got[Peer(e)]) + Len(flight[e])) + r.count = Len(got[Peer(e)]) + (Len(flight[e]) + r.count)
            BY <3>2, Shifts
        <3> QED BY <1>1, <3>3, <3>4
    <2>3. sent'[Peer(e)] = Len(got[e]) + Len(flight'[Peer(e)])
        BY <1>1, <1>3 DEF Inv, Conserved
    <2>4. ASSUME NEW p \in Ends PROVE sent'[p] = Len(got[Peer(p)]) + Len(flight'[p])
        BY <2>2, <2>3, BothEnds
    <2> QED BY <2>4 DEF Conserved
<1>7. ToldTrue'
    <2>1. ASSUME Peer(e) \in told PROVE flight'[e] = <<>>
        <3>1. e \in sendShut /\ flight[e] = <<>>
            BY <2>1 DEF Inv, ToldTrue
        <3>2. r.count = 0
            BY <1>1, <1>2, <3>1, TransferAssumption
        <3>3. flight'[e] \in Seq(1..MaxBytes) /\ Len(flight'[e]) = 0
            BY <1>1, <3>1, <3>2
        <3> QED BY <3>3, EmptySeq
    <2>2. ASSUME NEW p \in told PROVE Peer(p) \in sendShut /\ flight'[Peer(p)] = <<>>
        <3>1. p \in Ends /\ Peer(p) \in sendShut /\ flight[Peer(p)] = <<>>
            BY DEF Inv, ToldTrue, NeverInterrupted, TypeOK
        <3>2. CASE p = e
            BY <1>1, <3>1, <3>2
        <3>3. CASE p = Peer(e)
            BY <2>1, <3>1, <3>3
        <3> QED BY <3>1, <3>2, <3>3, BothEnds
    <2> QED BY <2>2 DEF ToldTrue
<1> QED BY <1>4, <1>5, <1>6, <1>7 DEF Inv, Capacity

\* A Receive keeps the invariant.
LEMMA ReceiveStep ==
    ASSUME Inv, NEW e \in Ends, NEW size \in 1..MaxBuffer,
           NEW r \in Results(size), NativeReceive(e, size, r),
           got' = [got EXCEPT ![e] = @ \o Arriving(e, r.count)],
           \/ UNCHANGED told
           \/ r = [count |-> 0, error |-> "none"] /\ e \notin receiveShut /\ told' = told \cup {e},
           result' \in [Ends -> [count: 0..MaxBuffer, error: CallErrors \cup {"none", "bad_file_descriptor"}]],
           \A p \in Ends : result'[p].error # "interrupted",
           UNCHANGED <<connection, sendShut, receiveShut, valid, sent>>
    PROVE  Inv'
<1> USE PeerFacts
<1>1. /\ failures' \in 0..MaxFailures /\ interrupts' \in 0..MaxInterrupts
      /\ flight' \in [Ends -> Seq(1..MaxBytes)]
      /\ flight'[e] = flight[e]
      /\ r.count <= Len(flight[Peer(e)])
      /\ Len(flight'[Peer(e)]) = Len(flight[Peer(e)]) - r.count
      /\ \A i \in 1..Len(flight'[Peer(e)]) : flight'[Peer(e)][i] = Len(got[e]) + r.count + i
      /\ r = [count |-> 0, error |-> "none"] /\ e \notin receiveShut
            => Peer(e) \in sendShut /\ flight[Peer(e)] = <<>>
    BY ReceiveEffect
<1>2. /\ got' \in [Ends -> Seq(1..MaxBytes)]
      /\ got'[Peer(e)] = got[Peer(e)]
      /\ Len(got'[e]) = Len(got[e]) + r.count
      /\ \A i \in 1..Len(got'[e]) : got'[e][i] = i
    BY GotEffect
<1>3. r.count \in Nat /\ Len(flight[Peer(e)]) \in Nat /\ Len(got[e]) \in Nat
    BY TransferAssumption, LenProperties DEF Results, Inv, NeverInterrupted, TypeOK
<1>4. NeverInterrupted'
    <2>1. \A p \in Ends : Len(flight'[p]) <= Capacity
        <3>1. Len(flight'[Peer(e)]) <= Capacity
            <4>1. Len(flight[Peer(e)]) <= Capacity /\ Capacity \in Nat
                BY DEF Inv, NeverInterrupted, TypeOK
            <4>2. Len(flight[Peer(e)]) - r.count <= Capacity
                BY <1>3, <4>1
            <4> QED BY <1>1, <4>2
        <3> QED BY <1>1, <3>1, BothEnds DEF Inv, NeverInterrupted, TypeOK
    <2>2. told' \subseteq Ends
        BY DEF Inv, NeverInterrupted, TypeOK
    <2>3. Capacity' = Capacity
        BY DEF Capacity
    <2> QED BY <1>1, <1>2, <2>1, <2>2, <2>3 DEF Inv, NeverInterrupted, TypeOK
<1>5. InOrder'
    <2> DEFINE Ordered(p) == /\ \A i \in 1..Len(got'[p]) : got'[p][i] = i
                             /\ \A i \in 1..Len(flight'[p]) : flight'[p][i] = Len(got'[Peer(p)]) + i
    <2>1. Ordered(e)
        BY <1>1, <1>2 DEF Inv, InOrder
    <2>2. Ordered(Peer(e))
        <3>1. Peer(Peer(e)) = e
            OBVIOUS
        <3>2. \A i \in 1..Len(got[Peer(e)]) : got[Peer(e)][i] = i
            BY DEF Inv, InOrder
        <3> QED BY <1>1, <1>2, <3>1, <3>2
    <2> HIDE DEF Ordered
    <2>3. ASSUME NEW p \in Ends PROVE Ordered(p)
        BY <2>1, <2>2, BothEnds
    <2> QED BY <2>3 DEF InOrder, Ordered
<1>6. Conserved'
    <2>1. sent'[Peer(e)] = Len(got'[e]) + Len(flight'[Peer(e)])
        <3>1. sent[Peer(e)] = Len(got[e]) + Len(flight[Peer(e)])
            BY DEF Inv, Conserved
        <3>2. Len(got[e]) + Len(flight[Peer(e)])
                  = (Len(got[e]) + r.count) + (Len(flight[Peer(e)]) - r.count)
            <4>1. Len(got[e]) \in Int /\ Len(flight[Peer(e)]) \in Int /\ r.count \in Int
                BY <1>3
            <4> QED BY <4>1, Shifts
        <3> QED BY <1>1, <1>2, <3>1, <3>2
    <2>2. sent'[e] = Len(got'[Peer(e)]) + Len(flight'[e])
        BY <1>1, <1>2 DEF Inv, Conserved
    <2>3. ASSUME NEW p \in Ends PROVE sent'[p] = Len(got'[Peer(p)]) + Len(flight'[p])
        BY <2>1, <2>2, BothEnds
    <2> QED BY <2>3 DEF Conserved
<1>7. ToldTrue'
    <2>1. ASSUME e \in told' PROVE Peer(e) \in sendShut /\ flight'[Peer(e)] = <<>>
        <3>1. Peer(e) \in sendShut /\ flight[Peer(e)] = <<>>
            BY <1>1, <2>1 DEF Inv, ToldTrue
        <3>2. Len(flight'[Peer(e)]) = 0 /\ flight'[Peer(e)] \in Seq(1..MaxBytes)
            BY <1>1, <1>3, <3>1
        <3> QED BY <3>1, <3>2, EmptySeq
    <2>2. ASSUME Peer(e) \in told' PROVE e \in sendShut /\ flight'[e] = <<>>
        BY <1>1, <2>2 DEF Inv, ToldTrue
    <2>3. ASSUME NEW p \in told' PROVE Peer(p) \in sendShut /\ flight'[Peer(p)] = <<>>
        <3>1. p \in Ends
            BY DEF Inv, NeverInterrupted, TypeOK
        <3> QED BY <2>1, <2>2, <3>1, BothEnds
    <2> QED BY <2>3 DEF ToldTrue
<1> QED BY <1>4, <1>5, <1>6, <1>7 DEF Inv, Capacity

\* So does a step that moves no byte: an early return, Shutdown or Close.
LEMMA StillStep ==
    ASSUME Inv,
           UNCHANGED <<connection, flight, sent, got, told>>,
           sendShut \subseteq sendShut', sendShut' \subseteq Ends, receiveShut' \subseteq Ends,
           failures' \in 0..MaxFailures, interrupts' \in 0..MaxInterrupts, valid' \subseteq Ends,
           result' \in [Ends -> [count: 0..MaxBuffer, error: CallErrors \cup {"none", "bad_file_descriptor"}]],
           \A p \in Ends : result'[p].error # "interrupted"
    PROVE  Inv'
<1>1. Capacity' = Capacity
    BY DEF Capacity
<1>2. NeverInterrupted'
    BY <1>1 DEF Inv, NeverInterrupted, TypeOK
<1>3. InOrder' /\ Conserved' /\ ToldTrue'
    BY DEF Inv, InOrder, Conserved, ToldTrue
<1> QED BY <1>1, <1>2, <1>3 DEF Inv

\* Every call keeps the invariant (tcp_socket.hpp:66-151, 163).
LEMMA InvStep == Inv /\ [Next]_vars => Inv'
<1> SUFFICES ASSUME Inv, [Next]_vars PROVE Inv'
    OBVIOUS
<1> DEFINE ResultType == [count: 0..MaxBuffer, error: CallErrors \cup {"none", "bad_file_descriptor"}]
           KnownResult == result' \in [Ends -> ResultType] /\ \A p \in Ends : result'[p].error # "interrupted"
<1>1. ASSUME NEW e \in Ends, NEW r \in ResultType, r.error # "interrupted", Return(e, r) PROVE KnownResult
    BY <1>1 DEF Return, Inv, NeverInterrupted, TypeOK
<1>2. ASSUME UNCHANGED result PROVE KnownResult
    BY <1>2 DEF Inv, NeverInterrupted, TypeOK
<1>3. /\ Failed("bad_file_descriptor") \in ResultType /\ Failed("failed") \in ResultType
      /\ [count |-> 0, error |-> "none"] \in ResultType
    BY TransferAssumption DEF Failed, CallErrors
<1>4. /\ sendShut \subseteq Ends /\ receiveShut \subseteq Ends /\ valid \subseteq Ends
      /\ failures \in 0..MaxFailures /\ interrupts \in 0..MaxInterrupts
    BY DEF Inv, NeverInterrupted, TypeOK
<1>5. ASSUME NEW e \in Ends, NEW size, ReturnsEarly(e, size) PROVE Inv'
    <2>1. KnownResult
        BY <1>1, <1>3, <1>5 DEF ReturnsEarly, Failed
    <2> HIDE DEF KnownResult, ResultType
    <2>2. UNCHANGED <<stream, valid, sent, got, told>>
        BY <1>5 DEF ReturnsEarly
    <2> QED BY <1>4, <2>1, <2>2, StillStep DEF stream, KnownResult, ResultType
<1>6. ASSUME NEW e \in Ends, NEW size \in 0..MaxBuffer, CallSend(e, size) PROVE Inv'
    <2>1. CASE ReturnsEarly(e, size)
        BY <1>5, <2>1
    <2>2. ASSUME size > 0, sent[e] + size <= MaxBytes, UNCHANGED <<valid, got, told>>,
                 NEW r \in Results(size), Send(e, Unsent(e, size), r),
                 sent' = [sent EXCEPT ![e] = @ + r.count], Return(e, r)
          PROVE  Inv'
        <3>1. size \in 1..MaxBuffer
            BY <2>2, TransferAssumption
        <3>2. KnownResult
            BY <2>2, <3>1, ReturnedResult DEF Send, Inv
        <3> QED BY <2>2, <3>1, <3>2, SendStep DEF Send
    <2>3. ASSUME size > 0, sent[e] + size <= MaxBytes, UNCHANGED <<valid, got, told>>,
                 SendRetry(e, Unsent(e, size)), UNCHANGED <<sent, result>>
          PROVE  Inv'
        <3>1. size \in 1..MaxBuffer
            BY <2>3, TransferAssumption
        <3>2. Len(Unsent(e, size)) = size
            BY <2>3, <3>1, UnsentFacts DEF Inv, NeverInterrupted
        <3>3. PICK r \in Results(size) : NativeSend(e, Unsent(e, size), r) /\ Retried(r)
            BY <2>3, <3>2 DEF SendRetry
        <3>4. r.count = 0
            BY <3>3 DEF Results, Retried
        <3>5. sent' = [sent EXCEPT ![e] = @ + r.count]
            BY <2>3, <3>4 DEF Inv, NeverInterrupted, TypeOK
        <3> QED BY <1>2, <2>3, <3>1, <3>3, <3>5, SendStep DEF SendRetry
    <2> QED BY <1>6, <2>1, <2>2, <2>3 DEF CallSend
<1>7. ASSUME NEW e \in Ends, NEW size \in 0..MaxBuffer, CallReceive(e, size) PROVE Inv'
    <2>1. CASE ReturnsEarly(e, size)
        BY <1>5, <2>1
    <2>2. ASSUME size > 0, UNCHANGED <<valid, sent>>,
                 NEW r \in Results(size), Receive(e, size, r),
                 got' = [got EXCEPT ![e] = @ \o Arriving(e, r.count)],
                 told' = IF r = [count |-> 0, error |-> "none"] /\ e \notin receiveShut
                         THEN told \cup {e} ELSE told,
                 Return(e, r)
          PROVE  Inv'
        <3>1. size \in 1..MaxBuffer
            BY <2>2, TransferAssumption
        <3>2. KnownResult
            BY <2>2, <3>1, ReturnedResult DEF Receive, Inv
        <3> QED BY <2>2, <3>1, <3>2, ReceiveStep DEF Receive
    <2>3. ASSUME size > 0, UNCHANGED <<valid, sent>>, ReceiveRetry(e, size), UNCHANGED <<got, told, result>>
          PROVE  Inv'
        <3>1. size \in 1..MaxBuffer
            BY <2>3, TransferAssumption
        <3>2. PICK r \in Results(size) : NativeReceive(e, size, r) /\ Retried(r)
            BY <2>3 DEF ReceiveRetry
        <3>3. r.count = 0
            BY <3>2 DEF Results, Retried
        <3>4. got' = [got EXCEPT ![e] = @ \o Arriving(e, r.count)]
            BY <2>3, <3>1, <3>2, <3>3, NothingArrives
        <3> QED BY <1>2, <2>3, <3>1, <3>2, <3>4, ReceiveStep DEF ReceiveRetry
    <2> QED BY <1>7, <2>1, <2>2, <2>3 DEF CallReceive
<1>8. ASSUME NEW e \in Ends, NEW direction, CallShutdown(e, direction) PROVE Inv'
    <2>1. KnownResult
        BY <1>1, <1>3, <1>8 DEF CallShutdown, Failed
    <2>2. /\ UNCHANGED <<connection, flight, sent, got, told, valid>>
          /\ sendShut \subseteq sendShut' /\ sendShut' \subseteq Ends /\ receiveShut' \subseteq Ends
          /\ failures' \in 0..MaxFailures /\ interrupts' \in 0..MaxInterrupts
        BY <1>4, <1>8, DisturbedFacts DEF CallShutdown, Shutdown, stream, Inv, NeverInterrupted
    <2> QED BY <1>4, <2>1, <2>2, StillStep
<1>9. ASSUME NEW e \in Ends, Close(e) PROVE Inv'
    <2>1. /\ UNCHANGED <<connection, flight, sent, got, told, result>> /\ valid' \subseteq Ends
          /\ sendShut \subseteq sendShut' /\ sendShut' \subseteq Ends /\ receiveShut' \subseteq Ends
          /\ failures' \in 0..MaxFailures /\ interrupts' \in 0..MaxInterrupts
        BY <1>4, <1>9 DEF Close, Shutdown, stream
    <2> QED BY <1>2, <2>1, StillStep
<1>10. CASE UNCHANGED vars
    BY <1>2, <1>4, <1>10, StillStep DEF vars, stream
<1> QED BY <1>6, <1>7, <1>8, <1>9, <1>10 DEF Next

\* Initially nothing was sent (tcp_socket.hpp:24-37).
LEMMA InitInv == Init => Inv
<1> SUFFICES ASSUME Init PROVE Inv
    OBVIOUS
<1>1. Capacity \in Nat
    BY StreamAssumption DEF Init, StreamInit, Capacity
<1>2. \A e \in Ends : flight[e] = <<>> /\ got[e] = <<>> /\ sent[e] = 0
    BY DEF Init, StreamInit
<1>3. /\ flight \in [Ends -> Seq(1..MaxBytes)] /\ got \in [Ends -> Seq(1..MaxBytes)]
      /\ \A e \in Ends : Len(flight[e]) = 0 /\ Len(got[e]) = 0
    BY EmptySeq DEF Init, StreamInit
<1>4. NeverInterrupted
    BY <1>1, <1>3, StreamAssumption, TransferAssumption DEF Init, StreamInit, NeverInterrupted, TypeOK
<1>5. InOrder /\ Conserved /\ ToldTrue
    BY <1>2, <1>3, PeerFacts DEF Init, InOrder, Conserved, ToldTrue
<1> QED BY <1>1, <1>4, <1>5 DEF Inv

\* The invariant of a connection, for every instance.
THEOREM Invariance == Spec => []Inv
BY InitInv, InvStep, PTL DEF Spec

\* Results are well formed and no Send or Receive reports an interruption, which
\* its loop must have retried (tcp_socket.hpp:81-93, 110-122).
THEOREM InterruptionsAreRetried == Spec => []NeverInterrupted
<1>1. Inv => NeverInterrupted
    BY DEF Inv
<1> QED BY <1>1, Invariance, PTL

-----------------------------------------------------------------------------
\* Under the invariant, what ByteStream sees of the received bytes is their number.
LEMMA FirstBytes ==
    ASSUME NEW g \in [Ends -> Seq(1..MaxBytes)], \A e \in Ends : \A i \in 1..Len(g[e]) : g[e][i] = i
    PROVE  [e \in Ends |-> IF g[e] = [i \in 1..Len(g[e]) |-> i] THEN Len(g[e]) ELSE MaxBytes + 1]
               = [e \in Ends |-> Len(g[e])]
<1>1. ASSUME NEW e \in Ends PROVE g[e] = [i \in 1..Len(g[e]) |-> i]
    <2>1. g[e] \in Seq(1..MaxBytes)
        OBVIOUS
    <2>2. g[e] \in [1..Len(g[e]) -> 1..MaxBytes]
        BY <2>1, LenProperties
    <2> QED BY <2>2
<1> QED BY <1>1

\* A received byte count never exceeds what the peer has sent.
LEMMA Counts ==
    ASSUME Inv
    PROVE  /\ got \in [Ends -> Seq(1..MaxBytes)]
           /\ \A e \in Ends : /\ Len(got[e]) \in Nat /\ Len(flight[Peer(e)]) \in Nat
                              /\ sent[Peer(e)] = Len(got[e]) + Len(flight[Peer(e)])
                              /\ sent[e] \in Nat
           /\ sent \in [Ends -> Nat]
<1>1. sent \in [Ends -> Nat] /\ got \in [Ends -> Seq(1..MaxBytes)] /\ flight \in [Ends -> Seq(1..MaxBytes)]
    BY DEF Inv, NeverInterrupted, TypeOK
<1> QED BY <1>1, PeerFacts, LenProperties DEF Inv, Conserved

LEMMA OtherIsPeer == \A e \in Ends : Abs!Other(e) = Peer(e)
BY PeerFacts, BothEnds DEF Abs!Other

\* The bytes received, as ByteStream counts them.
counted == [e \in Ends |-> Len(got[e])]

LEMMA CountedNow ==
    ASSUME Inv
    PROVE  [e \in Ends |-> IF got[e] = [i \in 1..Len(got[e]) |-> i] THEN Len(got[e]) ELSE MaxBytes + 1] = counted
BY Counts, FirstBytes DEF Inv, InOrder, counted

LEMMA InitAbs == Init => Abs!Init
<1> SUFFICES ASSUME Init PROVE Abs!Init
    OBVIOUS
<1>1. counted = [e \in Ends |-> 0]
    BY EmptySeq DEF counted, Init
<1> QED BY <1>1, InitInv, CountedNow DEF Init, StreamInit, Abs!Init

\* A step on a connection is a step of ByteStream or leaves it alone.
LEMMA AbsStep == Inv /\ Inv' /\ [Next]_vars => [Abs!Next]_(Abs!vars)
<1> SUFFICES ASSUME Inv, Inv', [Next]_vars PROVE [Abs!Next]_(Abs!vars)
    OBVIOUS
<1>1. /\ [e \in Ends |-> IF got[e] = [i \in 1..Len(got[e]) |-> i] THEN Len(got[e]) ELSE MaxBytes + 1] = counted
      /\ [e \in Ends |-> IF got'[e] = [i \in 1..Len(got'[e]) |-> i] THEN Len(got'[e]) ELSE MaxBytes + 1] = counted'
    BY CountedNow, FirstBytes DEF Inv, InOrder, NeverInterrupted, TypeOK, counted
<1>2. ASSUME UNCHANGED <<sent, got, sendShut, receiveShut, told>> PROVE UNCHANGED Abs!vars
    BY <1>2 DEF Abs!vars
<1>3. ASSUME NEW e \in Ends,
             sendShut' \in {sendShut, sendShut \cup {e}}, receiveShut' \in {receiveShut, receiveShut \cup {e}},
             UNCHANGED <<sent, got, told>>
      PROVE  Abs!Next
    <2>1. counted' = counted
        BY <1>3 DEF counted
    <2> QED BY <1>1, <1>3, <2>1 DEF Abs!Next, Abs!End
<1>4. ASSUME NEW e \in Ends, NEW size \in 0..MaxBuffer, CallSend(e, size) PROVE [Abs!Next]_(Abs!vars)
    <2>1. CASE ReturnsEarly(e, size) \/ (SendRetry(e, Unsent(e, size)) /\ UNCHANGED <<sent, result, valid, got, told>>)
        BY <1>2, <2>1 DEF ReturnsEarly, SendRetry, stream
    <2>2. ASSUME size > 0, sent[e] + size <= MaxBytes, UNCHANGED <<valid, got, told>>,
                 NEW r \in Results(size), Send(e, Unsent(e, size), r),
                 sent' = [sent EXCEPT ![e] = @ + r.count]
          PROVE  [Abs!Next]_(Abs!vars)
        <3>1. size \in 1..MaxBuffer
            BY <2>2, TransferAssumption
        <3>2. r.count > 0 => e \notin sendShut
            BY <2>2, <3>1, SendEffect DEF Send
        <3>3. r.count \in Nat
            BY <3>1, TransferAssumption DEF Results
        <3>4. CASE r.count = 0
            BY <1>2, <2>2, <3>4, Counts DEF Send
        <3>5. CASE r.count > 0
            <4>1. /\ sent' \in [Ends -> Nat] /\ sent'[e] > sent[e]
                  /\ \A p \in Ends \ {e} : sent'[p] = sent[p]
                BY <2>2, <3>3, <3>5, Counts
            <4>2. counted' = counted
                BY <2>2 DEF counted
            <4>3. Abs!Write(e)
                BY <1>1, <2>2, <3>2, <3>5, <4>1, <4>2 DEF Abs!Write, Send
            <4> QED BY <4>3 DEF Abs!Next
        <3> QED BY <3>3, <3>4, <3>5
    <2> QED BY <1>4, <2>1, <2>2 DEF CallSend
<1>5. ASSUME NEW e \in Ends, NEW size \in 0..MaxBuffer, CallReceive(e, size) PROVE [Abs!Next]_(Abs!vars)
    <2>1. CASE ReturnsEarly(e, size) \/ (ReceiveRetry(e, size) /\ UNCHANGED <<got, told, result, valid, sent>>)
        BY <1>2, <2>1 DEF ReturnsEarly, ReceiveRetry, stream
    <2>2. ASSUME size > 0, UNCHANGED <<valid, sent>>,
                 NEW r \in Results(size), Receive(e, size, r),
                 got' = [got EXCEPT ![e] = @ \o Arriving(e, r.count)],
                 told' = IF r = [count |-> 0, error |-> "none"] /\ e \notin receiveShut
                         THEN told \cup {e} ELSE told
          PROVE  [Abs!Next]_(Abs!vars)
        <3>1. size \in 1..MaxBuffer
            BY <2>2, TransferAssumption
        <3>2. /\ r.count <= Len(flight[Peer(e)])
              /\ r = [count |-> 0, error |-> "none"] /\ e \notin receiveShut
                    => Peer(e) \in sendShut /\ flight[Peer(e)] = <<>>
            BY <2>2, <3>1, ReceiveEffect DEF Receive
        <3>3. r.count \in Nat
            BY <3>1, TransferAssumption DEF Results
        <3>4. CASE r.count = 0
            <4>1. UNCHANGED got
                BY <2>2, <3>1, <3>4, NothingArrives DEF Receive
            <4>2. CASE told' = told
                BY <1>2, <2>2, <4>1, <4>2 DEF Receive
            <4>3. CASE r = [count |-> 0, error |-> "none"] /\ e \notin receiveShut
                <5>1. counted[e] = sent[Peer(e)]
                    BY <3>2, <4>3, Counts, EmptySeq DEF counted
                <5>2. counted' = counted
                    BY <4>1 DEF counted
                <5>3. Abs!Tell(e)
                    BY <1>1, <2>2, <3>2, <4>3, <5>1, <5>2, OtherIsPeer DEF Abs!Tell, Receive
                <5> QED BY <5>3 DEF Abs!Next
            <4> QED BY <2>2, <4>2, <4>3
        <3>5. CASE r.count > 0
            <4>1. told' = told /\ e \notin told
                <5>1. r # [count |-> 0, error |-> "none"]
                    BY <3>5
                <5>2. ASSUME e \in told PROVE FALSE
                    BY <3>2, <3>3, <3>5, <5>2, EmptySeq DEF Inv, ToldTrue
                <5> QED BY <2>2, <5>1, <5>2
            <4>2. Len(got'[e]) = Len(got[e]) + r.count /\ got'[Peer(e)] = got[Peer(e)]
                BY <2>2, <3>1, GotEffect DEF Receive
            <4>3. /\ counted'[e] \in (counted[e] + 1)..sent[Peer(e)]
                  /\ \A p \in Ends \ {e} : counted'[p] = counted[p]
                <5>1. Len(got[e]) + r.count \in (Len(got[e]) + 1)..(Len(got[e]) + Len(flight[Peer(e)]))
                    BY <3>2, <3>3, <3>5, Counts
                <5>2. sent[Peer(e)] = Len(got[e]) + Len(flight[Peer(e)])
                    BY Counts
                <5> QED BY <4>2, <5>1, <5>2, BothEnds DEF counted
            <4>4. counted' \in [Ends -> Nat]
                <5>1. \A p \in Ends : Len(got'[p]) \in Nat
                    BY LenProperties DEF Inv, NeverInterrupted, TypeOK
                <5> QED BY <5>1 DEF counted
            <4>5. Abs!Deliver(e)
                BY <1>1, <2>2, <4>1, <4>3, <4>4, OtherIsPeer DEF Abs!Deliver, Receive
            <4> QED BY <4>5 DEF Abs!Next
        <3> QED BY <3>3, <3>4, <3>5
    <2> QED BY <1>5, <2>1, <2>2 DEF CallReceive
<1>6. ASSUME NEW e \in Ends, NEW direction, CallShutdown(e, direction) PROVE [Abs!Next]_(Abs!vars)
    <2>1. CASE UNCHANGED <<sendShut, receiveShut>>
        BY <1>2, <1>6, <2>1 DEF CallShutdown, Shutdown, stream
    <2>2. CASE Shutdown(e, direction)
        BY <1>3, <1>6, <2>2 DEF CallShutdown, Shutdown
    <2> QED BY <1>6, <2>1, <2>2 DEF CallShutdown, stream
<1>7. ASSUME NEW e \in Ends, Close(e) PROVE [Abs!Next]_(Abs!vars)
    <2>1. CASE UNCHANGED stream
        BY <1>2, <1>7, <2>1 DEF Close, stream
    <2>2. CASE Shutdown(e, "both")
        BY <1>3, <1>7, <2>2 DEF Close, Shutdown
    <2> QED BY <1>7, <2>1, <2>2 DEF Close
<1>8. CASE UNCHANGED vars
    BY <1>2, <1>8 DEF vars, stream
<1> QED BY <1>4, <1>5, <1>6, <1>7, <1>8 DEF Next

\* TcpSocket's Send, Receive, Shutdown and Close implement the byte stream their
\* comments promise (tcp_socket.hpp:22-23, 64-65, 96-98, 125).
THEOREM Refinement == Spec => ImplementsByteStream
BY InitAbs, AbsStep, Invariance, PTL DEF Spec, ImplementsByteStream, Abs!Spec

-----------------------------------------------------------------------------
(***************************************************************************)
(* The loopback example for any message, buffer and capacity, any failures *)
(* and any interruptions. That the echo is the request is not inductive:   *)
(* it depends on where the message is cut at every moment. The invariant   *)
(* (LoopbackInv) says, for each place main may be at, which bytes are in   *)
(* either direction of the connection and in the server's chunk, and which *)
(* sides are shut down; only so does a Receive of nothing mean that        *)
(* everything has arrived.                                                 *)
(***************************************************************************)

\* The n bytes of the message after the first a.
From(a, n) == [i \in 1..n |-> a + i]

LEMMA FromType ==
    ASSUME NEW a \in Nat, NEW n \in Nat
    PROVE  /\ From(a, n) \in Seq(Nat) /\ Len(From(a, n)) = n
           /\ \A i \in 1..n : From(a, n)[i] = a + i
<1>1. From(a, n) \in [1..n -> Nat]
    BY DEF From
<1> QED BY <1>1 DEF From

\* A sequence is known by its length and its elements.
LEMMA IsFrom ==
    ASSUME NEW a \in Nat, NEW n \in Nat, NEW s \in Seq(Nat), Len(s) = n,
           \A i \in 1..n : s[i] = a + i
    PROVE  s = From(a, n)
<1>1. s = [i \in 1..n |-> s[i]]
    BY LenProperties
<1> QED BY <1>1 DEF From

LEMMA FromNone ==
    ASSUME NEW a \in Nat
    PROVE  From(a, 0) = <<>>
BY DEF From

\* The bytes of a piece from the i-th to the j-th.
LEMMA FromSlice ==
    ASSUME NEW a \in Nat, NEW n \in Nat, NEW j \in 0..n, NEW k \in 0..j, NEW i \in Int, i = k + 1
    PROVE  SubSeq(From(a, n), i, j) = From(a + k, j - k)
<1> DEFINE s == From(a, n)
<1>1. \A x \in 1..n : s[x] = a + x
    BY FromType
<1> HIDE DEF s
<1>2. \A x \in i..j : s[x] \in Nat
    BY <1>1
<1>3. /\ SubSeq(s, i, j) \in Seq(Nat)
      /\ Len(SubSeq(s, i, j)) = IF i <= j THEN j - i + 1 ELSE 0
      /\ \A x \in 1..(j - i + 1) : SubSeq(s, i, j)[x] = s[i + x - 1]
    BY <1>2, SubSeqProperties
<1>4. /\ j - i + 1 = j - k /\ (~(i <= j) => j - k = 0)
      /\ \A x \in 1..(j - k) : i + x - 1 \in 1..n /\ a + (i + x - 1) = (a + k) + x
      /\ j - k \in Nat /\ a + k \in Nat
    OBVIOUS
<1>5. Len(SubSeq(s, i, j)) = j - k
    BY <1>3, <1>4
<1>6. \A x \in 1..(j - k) : SubSeq(s, i, j)[x] = (a + k) + x
    BY <1>1, <1>3, <1>4
<1> QED BY <1>3, <1>4, <1>5, <1>6, IsFrom DEF s

LEMMA FromFirst ==
    ASSUME NEW a \in Nat, NEW n \in Nat, NEW j \in 0..n
    PROVE  SubSeq(From(a, n), 1, j) = From(a, j)
<1>1. ASSUME NEW k \in Nat, k = 0 PROVE SubSeq(From(a, n), 1, j) = From(a + k, j - k)
    <2>1. k \in 0..j /\ 1 = k + 1 /\ 1 \in Int
        BY <1>1
    <2> QED BY <2>1, FromSlice
<1>2. a + 0 = a /\ j - 0 = j
    OBVIOUS
<1> QED BY <1>1, <1>2

LEMMA FromRest ==
    ASSUME NEW a \in Nat, NEW n \in Nat, NEW k \in 0..n
    PROVE  SubSeq(From(a, n), k + 1, n) = From(a + k, n - k)
<1>1. n \in 0..n /\ k + 1 \in Int
    OBVIOUS
<1> QED BY <1>1, FromSlice

LEMMA FromMiddle ==
    ASSUME NEW n \in Nat, NEW j \in 0..n, NEW k \in 0..j
    PROVE  SubSeq(From(0, n), k + 1, j) = From(k, j - k)
<1>1. ASSUME NEW z \in Nat, z = 0 PROVE SubSeq(From(z, n), k + 1, j) = From(z + k, j - k)
    <2>1. k + 1 \in Int
        OBVIOUS
    <2> QED BY <2>1, FromSlice
<1>2. 0 + k = k
    OBVIOUS
<1> QED BY <1>1, <1>2

\* The first bytes and those that follow, joined.
LEMMA FromOn ==
    ASSUME NEW a \in Nat, NEW m \in Nat
    PROVE  From(0, a) \o From(a, m) = From(0, a + m)
<1> DEFINE s == From(0, a)
           t == From(a, m)
           b == a + m
<1>0. b \in Nat /\ b = a + m
    OBVIOUS
<1>1. s \in Seq(Nat) /\ Len(s) = a /\ \A i \in 1..a : s[i] = 0 + i
    BY FromType
<1>2. t \in Seq(Nat) /\ Len(t) = m /\ \A i \in 1..m : t[i] = a + i
    BY FromType
<1> HIDE DEF s, t, b
<1>3. /\ s \o t \in Seq(Nat) /\ Len(s \o t) = Len(s) + Len(t)
      /\ \A i \in 1..(Len(s) + Len(t)) : (s \o t)[i] = IF i <= Len(s) THEN s[i] ELSE t[i - Len(s)]
    BY <1>1, <1>2, ConcatProperties
<1>4. Len(s \o t) = b /\ \A i \in 1..b : (s \o t)[i] = IF i <= a THEN s[i] ELSE t[i - a]
    BY <1>0, <1>1, <1>2, <1>3
<1>5. ASSUME NEW i \in 1..b PROVE (s \o t)[i] = 0 + i
    <2>1. CASE i <= a
        BY <1>0, <1>1, <1>4, <2>1
    <2>2. CASE ~(i <= a)
        <3>1. i - a \in 1..m /\ a + (i - a) = 0 + i
            BY <1>0, <2>2
        <3> QED BY <1>2, <1>4, <2>2, <3>1
    <2> QED BY <2>1, <2>2
<1> QED BY <1>0, <1>3, <1>4, <1>5, IsFrom DEF s, t, b

LEMMA MessageIsFrom == Message = From(0, MessageSize)
<1>1. \A i \in 1..MessageSize : 0 + i = i
    BY EchoAssumption
<1> QED BY <1>1 DEF Message, From

\* a, b, c and d are places of the message, in this order.
Places(a, b, c, d) ==
    /\ a \in Nat /\ b \in Nat /\ c \in Nat /\ d \in Nat
    /\ a <= b /\ b <= c /\ c <= d /\ d <= MessageSize

\* The message cut into five pieces, at a, b, c and d.
LEMMA FivePieces ==
    ASSUME NEW a, NEW b, NEW c, NEW d, Places(a, b, c, d)
    PROVE  From(0, a) \o From(a, b - a) \o From(b, c - b) \o From(c, d - c)
               \o From(d, MessageSize - d) = Message
<1>1. ASSUME NEW x \in Nat, NEW y \in Nat, x <= y
      PROVE  From(0, x) \o From(x, y - x) = From(0, y)
    <2>1. y - x \in Nat /\ x + (y - x) = y
        BY <1>1
    <2>2. From(0, x) \o From(x, y - x) = From(0, x + (y - x))
        BY <2>1, FromOn
    <2> QED BY <2>1, <2>2
<1>2. /\ a \in Nat /\ b \in Nat /\ c \in Nat /\ d \in Nat /\ MessageSize \in Nat
      /\ a <= b /\ b <= c /\ c <= d /\ d <= MessageSize
    BY EchoAssumption DEF Places
<1>3. From(0, a) \o From(a, b - a) = From(0, b)
    BY <1>1, <1>2
<1>4. From(0, b) \o From(b, c - b) = From(0, c)
    BY <1>1, <1>2
<1>5. From(0, c) \o From(c, d - c) = From(0, d)
    BY <1>1, <1>2
<1>6. From(0, d) \o From(d, MessageSize - d) = From(0, MessageSize)
    BY <1>1, <1>2
<1> QED BY <1>3, <1>4, <1>5, <1>6, MessageIsFrom

-----------------------------------------------------------------------------
(***************************************************************************)
(* Where main is and where the message is cut.                             *)
(***************************************************************************)

Typed ==
    /\ LoopbackTypeOK
    /\ Capacity \in Nat
    /\ flight \in [Ends -> Seq(Nat)]
    /\ chunk \in Seq(Nat)
    /\ receiveShut = {}

\* Nothing is wrong so far, and main has a verdict when it has returned.
Right == matches /\ exit # "mismatch"

\* d bytes are on their way back, those after the first a; the bytes from the
\* c-th to the d-th are on their way to the server.
UnderWay(a, b, c, d) ==
    /\ flight["server"] = From(a, b - a)
    /\ flight["client"] = From(c, d - c)

Connecting == pc = "connect" /\ offset = 0 /\ echoed = 0 /\ sendShut = {} /\ UnderWay(0, 0, 0, 0)

Requesting == pc = "request" /\ echoed = 0 /\ sendShut = {} /\ UnderWay(0, 0, 0, offset)

Requested ==
    /\ pc = "finish request" /\ offset = 0 /\ echoed = 0 /\ sendShut = {}
    /\ UnderWay(0, 0, 0, MessageSize)

Serving ==
    /\ pc = "serve" /\ offset = 0 /\ echoed = 0 /\ sendShut = {"client"}
    /\ \E k \in 0..MessageSize : UnderWay(0, k, k, MessageSize)

Echoing ==
    /\ pc = "echo" /\ echoed = 0 /\ sendShut = {"client"}
    /\ \E k \in 0..MessageSize : \E m \in k..MessageSize :
        /\ offset < m - k
        /\ chunk = From(k, m - k)
        /\ UnderWay(0, k + offset, m, MessageSize)

Served ==
    /\ pc = "finish response" /\ offset = 0 /\ echoed = 0 /\ sendShut = {"client"}
    /\ UnderWay(0, MessageSize, MessageSize, MessageSize)

Collecting ==
    /\ pc = "collect" /\ offset = 0 /\ sendShut = {"client", "server"}
    /\ UnderWay(echoed, MessageSize, MessageSize, MessageSize)

Collected ==
    /\ pc = "compare" /\ offset = 0 /\ echoed = MessageSize
    /\ UnderWay(MessageSize, MessageSize, MessageSize, MessageSize)

Place ==
    \/ Connecting \/ Requesting \/ Requested \/ Serving \/ Echoing \/ Served \/ Collecting
    \/ Collected \/ pc = "returned"

LoopbackInv == Typed /\ Right /\ Place

-----------------------------------------------------------------------------
(***************************************************************************)
(* What a call does to the bytes under way.                                *)
(***************************************************************************)

LEMMA EndsFacts ==
    /\ "client" \in Ends /\ "server" \in Ends /\ \A e \in Ends : e = "client" \/ e = "server"
    /\ Peer("client") = "server" /\ Peer("server") = "client"
    /\ \A e \in Ends : Peer(e) \in Ends /\ Peer(e) # e
BY DEF Ends, Peer

LEMMA DisturbedResult ==
    ASSUME NEW r, Disturbed(r)
    PROVE  r.count = 0 /\ r.error \in {"failed", "interrupted"}
BY DEF Disturbed, Failed

\* A Send of m bytes after the first b, when the first b are under way: those
\* that are taken follow them.
LEMMA LoopbackSends ==
    ASSUME Typed, NEW e \in Ends, NEW b \in Nat, NEW m \in Nat, flight[e] = From(0, b),
           NEW r, NativeSend(e, From(b, m), r)
    PROVE  /\ r.count \in 0..m
           /\ flight' \in [Ends -> Seq(Nat)]
           /\ flight'[e] = From(0, b + r.count) /\ flight'[Peer(e)] = flight[Peer(e)]
           /\ Len(flight'[e]) <= Capacity
           /\ r.error = "interrupted" => flight' = flight
<1>1. flight \in [Ends -> Seq(Nat)] /\ Peer(e) \in Ends /\ Peer(e) # e /\ Len(flight[e]) <= Capacity
    BY EndsFacts DEF Typed, LoopbackTypeOK
<1>2. Len(From(b, m)) = m
    BY FromType
<1>3. CASE /\ r \in [count: 1..Len(From(b, m)), error: {"none"}]
           /\ Len(flight[e]) + r.count <= Capacity
           /\ flight' = [flight EXCEPT ![e] = @ \o SubSeq(From(b, m), 1, r.count)]
    <2>1. r.count \in 0..m /\ r.count \in Nat /\ b + r.count \in Nat /\ r.error = "none"
        BY <1>2, <1>3
    <2>2. SubSeq(From(b, m), 1, r.count) = From(b, r.count)
        BY <2>1, FromFirst
    <2>3. From(0, b) \o From(b, r.count) = From(0, b + r.count)
        BY <2>1, FromOn
    <2>4. flight' = [flight EXCEPT ![e] = From(0, b + r.count)]
        BY <1>3, <2>2, <2>3
    <2>5. From(0, b + r.count) \in Seq(Nat) /\ Len(From(0, b + r.count)) = b + r.count
          /\ Len(flight[e]) = b
        BY <2>1, FromType
    <2>6. /\ flight' \in [Ends -> Seq(Nat)]
          /\ flight'[e] = From(0, b + r.count) /\ flight'[Peer(e)] = flight[Peer(e)]
        BY <1>1, <2>4, <2>5
    <2>7. b + r.count <= Capacity
        BY <1>3, <2>5
    <2> QED BY <2>1, <2>5, <2>6, <2>7
<1>4. ASSUME r.count = 0, flight' = flight
      PROVE  /\ r.count \in 0..m /\ b + r.count = b
    BY <1>4
<1>5. CASE r \in {Failed("broken_pipe"), Failed("reset"), Failed("timed_out")} /\ UNCHANGED flight
    BY <1>1, <1>4, <1>5 DEF Failed
<1>6. CASE Disturbed(r) /\ UNCHANGED flight
    BY <1>1, <1>4, <1>6, DisturbedResult
<1>7. \/ /\ r \in [count: 1..Len(From(b, m)), error: {"none"}]
         /\ Len(flight[e]) + r.count <= Capacity
         /\ flight' = [flight EXCEPT ![e] = @ \o SubSeq(From(b, m), 1, r.count)]
      \/ r \in {Failed("broken_pipe"), Failed("reset"), Failed("timed_out")} /\ UNCHANGED flight
      \/ Disturbed(r) /\ UNCHANGED flight
    BY DEF NativeSend
<1> QED BY <1>3, <1>5, <1>6, <1>7

\* A Receive when the n bytes after the first a are under way: it takes the
\* first of them, and nothing without an error only when there are none and
\* the peer sends no more.
LEMMA LoopbackReceives ==
    ASSUME Typed, NEW e \in Ends, NEW p, p = Peer(e), NEW a \in Nat, NEW n \in Nat,
           flight[p] = From(a, n), NEW size \in Nat, NEW r, NativeReceive(e, size, r)
    PROVE  /\ r.count \in 0..n /\ r.count <= size
           /\ flight' \in [Ends -> Seq(Nat)]
           /\ flight'[p] = From(a + r.count, n - r.count) /\ flight'[e] = flight[e]
           /\ Len(flight'[p]) <= Capacity
           /\ Arriving(e, r.count) = From(a, r.count)
           /\ r.count = 0 /\ r.error = "none" => n = 0 /\ p \in sendShut
           /\ r.error = "interrupted" => flight' = flight
<1>1. flight \in [Ends -> Seq(Nat)] /\ p \in Ends /\ p # e /\ Len(flight[p]) <= Capacity
      /\ Len(flight[p]) = n /\ receiveShut = {} /\ Capacity \in Nat
    BY EndsFacts, FromType DEF Typed, LoopbackTypeOK
<1>2. CASE /\ r \in [count: 1..size, error: {"none"}]
           /\ r.count <= Len(flight[p])
           /\ flight' = [flight EXCEPT ![p] = SubSeq(@, r.count + 1, Len(@))]
    <2> DEFINE k == r.count
    <2>1. k \in 0..n /\ k \in 1..size /\ r.error = "none" /\ a + k \in Nat /\ n - k \in Nat /\ n - k <= n
          /\ k \in Nat
        BY <1>1, <1>2
    <2> HIDE DEF k
    <2>2. SubSeq(From(a, n), k + 1, n) = From(a + k, n - k) /\ SubSeq(From(a, n), 1, k) = From(a, k)
        BY <2>1, FromRest, FromFirst
    <2>3. flight' = [flight EXCEPT ![p] = From(a + k, n - k)]
        BY <1>1, <1>2, <2>2 DEF k
    <2>4. From(a + k, n - k) \in Seq(Nat) /\ Len(From(a + k, n - k)) = n - k
        BY <2>1, FromType
    <2>5. Len(flight'[p]) <= Capacity /\ flight'[p] = From(a + k, n - k) /\ flight'[e] = flight[e]
          /\ flight' \in [Ends -> Seq(Nat)]
        BY <1>1, <2>1, <2>3, <2>4
    <2>6. Arriving(e, k) = From(a, k)
        BY <2>2 DEF Arriving
    <2> QED BY <2>1, <2>5, <2>6 DEF k
<1>3. ASSUME r.count = 0, flight' = flight
      PROVE  /\ r.count \in 0..n /\ r.count <= size
             /\ flight' \in [Ends -> Seq(Nat)]
             /\ flight'[p] = From(a + r.count, n - r.count) /\ flight'[e] = flight[e]
             /\ Len(flight'[p]) <= Capacity
             /\ Arriving(e, r.count) = From(a, r.count)
    <2>1. r.count \in 0..n /\ a + r.count = a /\ n - r.count = n
        BY <1>3
    <2>2. SubSeq(From(a, n), 1, r.count) = From(a, r.count)
        BY <2>1, FromFirst
    <2> QED BY <1>1, <1>3, <2>1, <2>2 DEF Arriving
<1>4. CASE /\ flight[p] = <<>> /\ (p \in sendShut \/ e \in receiveShut)
           /\ r = [count |-> 0, error |-> "none"] /\ UNCHANGED flight
    <2>1. n = 0 /\ p \in sendShut /\ r.count = 0 /\ r.error = "none"
        BY <1>1, <1>4
    <2> QED BY <1>3, <1>4, <2>1
<1>5. CASE r \in {Failed("reset"), Failed("timed_out")} /\ UNCHANGED flight
    BY <1>3, <1>5 DEF Failed
<1>6. CASE Disturbed(r) /\ UNCHANGED flight
    BY <1>3, <1>6, DisturbedResult
<1>7. \/ /\ r \in [count: 1..size, error: {"none"}]
         /\ r.count <= Len(flight[p])
         /\ flight' = [flight EXCEPT ![p] = SubSeq(@, r.count + 1, Len(@))]
      \/ /\ flight[p] = <<>> /\ (p \in sendShut \/ e \in receiveShut)
         /\ r = [count |-> 0, error |-> "none"] /\ UNCHANGED flight
      \/ r \in {Failed("reset"), Failed("timed_out")} /\ UNCHANGED flight
      \/ Disturbed(r) /\ UNCHANGED flight
    BY DEF NativeReceive
<1> QED BY <1>2, <1>4, <1>5, <1>6, <1>7

-----------------------------------------------------------------------------
(***************************************************************************)
(* The two loops of main.                                                  *)
(***************************************************************************)

Carried ==
    /\ flight' \in [Ends -> Seq(Nat)]
    /\ \A e \in Ends : Len(flight'[e]) <= Capacity
    /\ UNCHANGED <<connection, receiveShut>>

LEMMA CarriedFrom ==
    ASSUME Typed, NEW e \in Ends, NEW p \in Ends, p = Peer(e), flight' \in [Ends -> Seq(Nat)],
           flight'[e] = flight[e] \/ Len(flight'[e]) <= Capacity,
           flight'[p] = flight[p] \/ Len(flight'[p]) <= Capacity,
           UNCHANGED <<connection, receiveShut>>
    PROVE  Carried
BY DEF Carried, Typed, LoopbackTypeOK, Ends, Peer

Quits == pc' = "returned" /\ exit' = "failure"

\* SendAll is at the m bytes after the first a, of which `offset` are under way
\* with those before them.
Handing(e, bytes, a, m, b) ==
    /\ a \in Nat /\ m \in Nat /\ b \in Nat
    /\ bytes = From(a, m) /\ offset < m /\ b = a + offset /\ flight[e] = From(0, b)

\* One round of it.
LEMMA SendAllEffect ==
    ASSUME Typed, NEW e \in Ends, NEW a, NEW m, NEW bytes, NEW b, Handing(e, bytes, a, m, b),
           NEW next, SendAll(e, bytes, next)
    PROVE  /\ Carried /\ flight'[Peer(e)] = flight[Peer(e)]
           /\ UNCHANGED <<sendShut, chunk, echoed, matches>>
           /\ \/ flight' = flight /\ UNCHANGED <<offset, pc, exit>>
              \/ Quits /\ offset' = offset
              \/ \E k \in Nat :
                    /\ offset + k < m /\ flight'[e] = From(0, b + k)
                    /\ offset' = offset + k /\ pc' = pc /\ exit' = exit
              \/ flight'[e] = From(0, a + m) /\ offset' = 0 /\ pc' = next /\ exit' = exit
<1>0. /\ a \in Nat /\ m \in Nat /\ b \in Nat
      /\ bytes = From(a, m) /\ offset < m /\ b = a + offset /\ flight[e] = From(0, b)
    BY DEF Handing
<1>1. offset \in Nat /\ offset \in 0..m /\ m - offset \in Nat
    <2>1. offset \in 0..(MessageSize - 1) /\ MessageSize \in Nat
        BY EchoAssumption DEF Typed, LoopbackTypeOK
    <2>2. offset \in Nat
        BY <2>1
    <2> QED BY <1>0, <2>2
<1>2. Len(bytes) = m
    BY <1>0, FromType
<1>3. Rest(bytes) = From(b, m - offset)
    <2>1. SubSeq(From(a, m), offset + 1, m) = From(a + offset, m - offset)
        BY <1>0, <1>1, FromRest
    <2> QED BY <1>0, <1>2, <2>1 DEF Rest
<1>4. Peer(e) \in Ends
    BY EndsFacts
<1>5. ASSUME NEW r, Send(e, Rest(bytes), r), UNCHANGED <<chunk, echoed, matches>>,
             IF r.count = 0 THEN Returns("failure") /\ UNCHANGED offset
             ELSE IF offset + r.count < Len(bytes) THEN offset' = offset + r.count /\ Goes(pc)
             ELSE offset' = 0 /\ Goes(next)
      PROVE  /\ Carried /\ flight'[Peer(e)] = flight[Peer(e)]
             /\ UNCHANGED <<sendShut, chunk, echoed, matches>>
             /\ \/ Quits /\ offset' = offset
                \/ \E k \in Nat :
                      /\ offset + k < m /\ flight'[e] = From(0, b + k)
                      /\ offset' = offset + k /\ pc' = pc /\ exit' = exit
                \/ flight'[e] = From(0, a + m) /\ offset' = 0 /\ pc' = next /\ exit' = exit
    <2>1. NativeSend(e, From(b, m - offset), r) /\ UNCHANGED <<connection, sendShut, receiveShut>>
        BY <1>3, <1>5 DEF Send
    <2>2. /\ r.count \in 0..(m - offset) /\ flight' \in [Ends -> Seq(Nat)]
          /\ flight'[e] = From(0, b + r.count) /\ flight'[Peer(e)] = flight[Peer(e)]
          /\ Len(flight'[e]) <= Capacity
        BY <1>0, <1>1, <2>1, LoopbackSends
    <2>3. Carried
        BY <1>4, <2>1, <2>2, CarriedFrom
    <2>4. CASE r.count = 0
        BY <1>5, <2>1, <2>2, <2>3, <2>4 DEF Returns, Quits
    <2>5. CASE r.count # 0 /\ offset + r.count < Len(bytes)
        <3>1. r.count \in Nat /\ offset + r.count < m
            BY <1>0, <1>1, <1>2, <2>2, <2>5
        <3>2. offset' = offset + r.count /\ Goes(pc)
            BY <1>5, <2>5
        <3> QED BY <1>5, <2>1, <2>2, <2>3, <3>1, <3>2 DEF Goes
    <2>6. CASE r.count # 0 /\ ~(offset + r.count < Len(bytes))
        <3>1. b + r.count = a + m
            <4>1. r.count \in Nat /\ r.count <= m - offset
                BY <1>1, <2>2
            <4>2. ~(offset + r.count < m)
                BY <1>2, <2>6
            <4> QED BY <1>0, <1>1, <4>1, <4>2
        <3> QED BY <1>5, <2>1, <2>2, <2>3, <2>6, <3>1 DEF Goes
    <2> QED BY <2>4, <2>5, <2>6
<1>6. CASE SendRetry(e, Rest(bytes)) /\ UNCHANGED main
    <2>1. PICK r : NativeSend(e, From(b, m - offset), r) /\ r.error = "interrupted"
        BY <1>3, <1>6 DEF SendRetry, Retried
    <2>2. flight' = flight
        BY <1>0, <1>1, <2>1, LoopbackSends
    <2>3. UNCHANGED <<connection, sendShut, receiveShut>>
        BY <1>6 DEF SendRetry
    <2> QED BY <1>4, <1>6, <2>2, <2>3 DEF main, Carried, Typed, LoopbackTypeOK
<1> QED BY <1>5, <1>6 DEF SendAll

\* One round of a loop of Receive when the n bytes after the first a arrive.
LEMMA ReceiveLoopEffect ==
    ASSUME Typed, NEW e \in Ends, NEW p \in Ends, p = Peer(e), NEW a \in Nat, NEW n \in Nat,
           flight[p] = From(a, n), NEW next, ReceiveLoop(e, next)
    PROVE  /\ Carried /\ flight'[e] = flight[e] /\ UNCHANGED <<sendShut, offset>>
           /\ \/ flight' = flight /\ UNCHANGED <<pc, exit, chunk, echoed, matches>>
              \/ Quits /\ UNCHANGED <<chunk, echoed, matches>>
              \/ \E k \in 1..n :
                    /\ k <= BufferSize /\ flight'[p] = From(a + k, n - k)
                    /\ \/ e = "server" /\ TakeRequest(From(a, k))
                       \/ e = "client" /\ TakeEcho(From(a, k))
              \/ /\ n = 0 /\ p \in sendShut /\ flight'[p] = From(a, n)
                 /\ pc' = next /\ UNCHANGED <<exit, chunk, echoed, matches>>
<1>1. ASSUME NEW r \in Results(BufferSize), Receive(e, BufferSize, r), UNCHANGED offset,
             \/ r.count > 0 /\ e = "server" /\ TakeRequest(Arriving(e, r.count))
             \/ r.count > 0 /\ e = "client" /\ TakeEcho(Arriving(e, r.count))
             \/ /\ r.count = 0
                /\ IF r.error # "none" THEN Returns("failure") ELSE Goes(next)
                /\ UNCHANGED <<chunk, echoed, matches>>
      PROVE  /\ Carried /\ flight'[e] = flight[e] /\ UNCHANGED <<sendShut, offset>>
             /\ \/ Quits /\ UNCHANGED <<chunk, echoed, matches>>
                \/ \E k \in 1..n :
                      /\ k <= BufferSize /\ flight'[p] = From(a + k, n - k)
                      /\ \/ e = "server" /\ TakeRequest(From(a, k))
                         \/ e = "client" /\ TakeEcho(From(a, k))
                \/ /\ n = 0 /\ p \in sendShut /\ flight'[p] = From(a, n)
                   /\ pc' = next /\ UNCHANGED <<exit, chunk, echoed, matches>>
    <2>1. NativeReceive(e, BufferSize, r) /\ UNCHANGED <<connection, sendShut, receiveShut>>
        BY <1>1 DEF Receive
    <2>2. /\ r.count \in 0..n /\ r.count <= BufferSize
          /\ flight' \in [Ends -> Seq(Nat)]
          /\ flight'[p] = From(a + r.count, n - r.count) /\ flight'[e] = flight[e]
          /\ Len(flight'[p]) <= Capacity
          /\ Arriving(e, r.count) = From(a, r.count)
          /\ r.count = 0 /\ r.error = "none" => n = 0 /\ p \in sendShut
        BY <2>1, LoopbackReceives, EchoAssumption
    <2>3. Carried
        BY <2>1, <2>2, CarriedFrom
    <2>4. CASE r.count > 0
        <3>1. r.count \in 1..n
            BY <2>2, <2>4
        <3>2. \/ e = "server" /\ TakeRequest(From(a, r.count))
              \/ e = "client" /\ TakeEcho(From(a, r.count))
            BY <1>1, <2>2, <2>4
        <3> QED BY <1>1, <2>1, <2>2, <2>3, <3>1, <3>2
    <2>5. CASE r.count = 0 /\ r.error # "none"
        BY <1>1, <2>1, <2>2, <2>3, <2>5 DEF Returns, Quits
    <2>6. CASE r.count = 0 /\ r.error = "none"
        <3>1. a + r.count = a /\ n - r.count = n
            BY <2>6
        <3> QED BY <1>1, <2>1, <2>2, <2>3, <2>6, <3>1 DEF Goes
    <2>7. r.count > 0 \/ r.count = 0
        BY <2>2
    <2> QED BY <2>4, <2>5, <2>6, <2>7
<1>2. CASE ReceiveRetry(e, BufferSize) /\ UNCHANGED main
    <2>1. PICK r : NativeReceive(e, BufferSize, r) /\ r.error = "interrupted"
        BY <1>2 DEF ReceiveRetry, Retried
    <2>2. flight' = flight
        BY <2>1, LoopbackReceives, EchoAssumption
    <2>3. UNCHANGED <<connection, sendShut, receiveShut>>
        BY <1>2 DEF ReceiveRetry
    <2> QED BY <1>2, <2>2, <2>3 DEF main, Carried, Typed, LoopbackTypeOK
<1> QED BY <1>1, <1>2 DEF ReceiveLoop

-----------------------------------------------------------------------------
(***************************************************************************)
(* Every statement of main preserves the invariant.                        *)
(***************************************************************************)

LEMMA TypedNext ==
    ASSUME Typed, Carried, offset' \in 0..(MessageSize - 1), echoed' \in 0..MessageSize,
           chunk' = chunk \/ (chunk' \in Seq(Nat) /\ Len(chunk') <= BufferSize),
           matches' \in BOOLEAN,
           pc' \in {"connect", "request", "finish request", "serve", "echo", "finish response",
                    "collect", "compare", "returned"},
           exit' \in {"running", "success", "failure", "mismatch"}
    PROVE  Typed'
<1>1. Capacity' = Capacity
    BY DEF Carried, Capacity
<1>2. chunk' \in Seq(Nat) /\ Len(chunk') <= BufferSize
    BY DEF Typed, LoopbackTypeOK
<1>3. receiveShut' = {} /\ Capacity \in Nat /\ flight' \in [Ends -> Seq(Nat)]
      /\ \A e \in Ends : Len(flight'[e]) <= Capacity
    BY DEF Typed, Carried
<1>4. LoopbackTypeOK'
    BY <1>1, <1>2, <1>3 DEF LoopbackTypeOK
<1> QED BY <1>1, <1>2, <1>3, <1>4 DEF Typed

LEMMA Sizes ==
    ASSUME Typed
    PROVE  /\ MessageSize \in Nat /\ MessageSize > 0 /\ BufferSize \in Nat
           /\ offset \in Nat /\ offset \in 0..(MessageSize - 1) /\ echoed \in 0..MessageSize
           /\ 0 \in 0..(MessageSize - 1) /\ 0 \in 0..MessageSize
<1>1. MessageSize \in Nat /\ MessageSize > 0 /\ BufferSize \in Nat
    BY EchoAssumption
<1>2. offset \in 0..(MessageSize - 1) /\ echoed \in 0..MessageSize
    BY DEF Typed, LoopbackTypeOK
<1>3. offset \in Nat /\ 0 \in 0..(MessageSize - 1) /\ 0 \in 0..MessageSize
    BY <1>1, <1>2
<1> QED BY <1>1, <1>2, <1>3

LEMMA Verdicts ==
    ASSUME Typed
    PROVE  matches \in BOOLEAN /\ exit \in {"running", "success", "failure", "mismatch"}
BY DEF Typed, LoopbackTypeOK

LEMMA CarriedStill ==
    ASSUME Typed, UNCHANGED <<flight, connection, receiveShut>>
    PROVE  Carried
BY DEF Carried, Typed, LoopbackTypeOK

LEMMA QuitsInv ==
    ASSUME Typed, Right, Carried, Quits, UNCHANGED <<offset, chunk, echoed, matches>>
    PROVE  LoopbackInv'
<1>1. Typed'
    BY TypedNext, Sizes, Verdicts DEF Quits
<1> QED BY <1>1 DEF LoopbackInv, Right, Quits, Place

LEMMA CheckFailsInv ==
    ASSUME Typed, Right, CheckFails
    PROVE  LoopbackInv'
BY CarriedStill, QuitsInv DEF CheckFails, Quits, Returns

LEMMA LoopbackStart == LoopbackInit => LoopbackInv
<1> SUFFICES ASSUME LoopbackInit PROVE LoopbackInv
    OBVIOUS
<1>1. Capacity \in Nat /\ 0 <= Capacity
    <2>1. connection \in [capacity: CapacitiesUntimed, timeouts: {FALSE}]
                         \cup [capacity: CapacitiesTimed, timeouts: {TRUE}]
        BY DEF LoopbackInit, StreamInit
    <2>2. connection.capacity \in CapacitiesUntimed \cup CapacitiesTimed
        BY <2>1
    <2>3. connection.capacity \in Nat
        BY <2>2, StreamAssumption
    <2> QED BY <2>3 DEF Capacity
<1>2. <<>> \in Seq(Nat) /\ Len(<<>>) = 0
    OBVIOUS
<1>3. Typed
    BY <1>1, <1>2, EchoAssumption DEF LoopbackInit, StreamInit, Typed, LoopbackTypeOK
<1>4. UnderWay(0, 0, 0, 0)
    <2>1. flight["client"] = <<>> /\ flight["server"] = <<>>
        BY EndsFacts DEF LoopbackInit, StreamInit
    <2>2. From(0, 0 - 0) = <<>>
        BY FromNone
    <2> QED BY <2>1, <2>2 DEF UnderWay
<1>5. Connecting
    BY <1>4 DEF LoopbackInit, StreamInit, Connecting
<1> QED BY <1>3, <1>5 DEF LoopbackInv, Right, Place, LoopbackInit

LEMMA ConnectInv ==
    ASSUME LoopbackInv, Connect
    PROVE  LoopbackInv'
<1>1. Connecting
    BY DEF LoopbackInv, Place, Connect, Requesting, Requested, Serving, Echoing, Served, Collecting, Collected
<1>2. CASE CheckFails
    BY <1>2, CheckFailsInv DEF LoopbackInv
<1>3. CASE Goes("request") /\ UNCHANGED <<stream, offset, chunk, echoed, matches>>
    <2>1. Carried
        BY <1>3, CarriedStill DEF LoopbackInv, stream
    <2>2. Typed'
        BY <1>3, <2>1, TypedNext, Sizes, Verdicts DEF LoopbackInv, Goes
    <2>3. Requesting'
        BY <1>1, <1>3 DEF Connecting, Requesting, UnderWay, Goes, stream
    <2> QED BY <1>3, <2>2, <2>3 DEF LoopbackInv, Right, Place, Goes
<1> QED BY <1>2, <1>3 DEF Connect

LEMMA SendRequestInv ==
    ASSUME LoopbackInv, SendRequest
    PROVE  LoopbackInv'
<1>1. Requesting /\ SendAll("client", Message, "finish request") /\ Typed /\ Right
    BY DEF LoopbackInv, Place, SendRequest, Connecting, Requested, Serving, Echoing, Served, Collecting, Collected
<1>2. MessageSize \in Nat /\ offset \in Nat /\ offset < MessageSize
    <2>1. MessageSize \in Nat /\ offset \in 0..(MessageSize - 1)
        BY <1>1, Sizes
    <2> QED BY <2>1
<1>3. /\ flight["client"] = From(0, offset) /\ flight["server"] = From(0, 0 - 0)
      /\ offset = 0 + offset /\ MessageSize = 0 + MessageSize
    <2>1. offset - 0 = offset /\ offset = 0 + offset /\ MessageSize = 0 + MessageSize
        BY <1>2
    <2> QED BY <1>1, <2>1 DEF Requesting, UnderWay
<1>4. /\ Carried /\ flight'["server"] = flight["server"]
      /\ UNCHANGED <<sendShut, chunk, echoed, matches>>
      /\ \/ flight' = flight /\ UNCHANGED <<offset, pc, exit>>
         \/ Quits /\ offset' = offset
         \/ \E k \in Nat :
               /\ offset + k < MessageSize /\ flight'["client"] = From(0, offset + k)
               /\ offset' = offset + k /\ pc' = pc /\ exit' = exit
         \/ flight'["client"] = From(0, MessageSize) /\ offset' = 0 /\ pc' = "finish request" /\ exit' = exit
    <2>1. SendAll("client", Message, "finish request") /\ Typed
        BY <1>1
    <2>2. "client" \in Ends /\ Peer("client") = "server" /\ Message = From(0, MessageSize)
        BY EndsFacts, MessageIsFrom
    <2>3. Handing("client", Message, 0, MessageSize, offset)
        BY <1>2, <1>3, <2>2 DEF Handing
    <2>4. /\ Carried /\ flight'["server"] = flight["server"]
          /\ UNCHANGED <<sendShut, chunk, echoed, matches>>
          /\ \/ flight' = flight /\ UNCHANGED <<offset, pc, exit>>
             \/ Quits /\ offset' = offset
             \/ \E k \in Nat :
                   /\ offset + k < MessageSize /\ flight'["client"] = From(0, offset + k)
                   /\ offset' = offset + k /\ pc' = pc /\ exit' = exit
             \/ /\ flight'["client"] = From(0, 0 + MessageSize)
                /\ offset' = 0 /\ pc' = "finish request" /\ exit' = exit
        BY <2>1, <2>2, <2>3, SendAllEffect
    <2> QED BY <1>3, <2>4
<1>5. CASE flight' = flight /\ UNCHANGED <<offset, pc, exit>>
    <2>1. Typed'
        BY <1>1, <1>4, <1>5, TypedNext, Sizes, Verdicts DEF Requesting
    <2>2. Requesting'
        BY <1>1, <1>4, <1>5 DEF Requesting, UnderWay
    <2> QED BY <1>1, <1>4, <1>5, <2>1, <2>2 DEF LoopbackInv, Right, Place
<1>6. CASE Quits /\ offset' = offset
    BY <1>1, <1>4, <1>6, QuitsInv
<1>7. ASSUME NEW k \in Nat, offset + k < MessageSize, flight'["client"] = From(0, offset + k),
             offset' = offset + k, pc' = pc, exit' = exit
      PROVE  LoopbackInv'
    <2>1. offset' \in 0..(MessageSize - 1) /\ offset' - 0 = offset'
        BY <1>2, <1>7
    <2>2. Typed'
        BY <1>1, <1>4, <1>7, <2>1, TypedNext, Sizes, Verdicts DEF Requesting
    <2>3. Requesting'
        BY <1>1, <1>3, <1>4, <1>7, <2>1 DEF Requesting, UnderWay
    <2> QED BY <1>1, <1>4, <1>7, <2>2, <2>3 DEF LoopbackInv, Right, Place
<1>8. CASE flight'["client"] = From(0, MessageSize) /\ offset' = 0 /\ pc' = "finish request" /\ exit' = exit
    <2>1. Typed'
        BY <1>1, <1>4, <1>8, TypedNext, Sizes, Verdicts
    <2>2. MessageSize = MessageSize - 0
        BY <1>2
    <2>3. Requested'
        BY <1>1, <1>3, <1>4, <1>8, <2>2 DEF Requesting, Requested, UnderWay
    <2> QED BY <1>1, <1>4, <1>8, <2>1, <2>3 DEF LoopbackInv, Right, Place
<1> QED BY <1>4, <1>5, <1>6, <1>7, <1>8

LEMMA FinishRequestInv ==
    ASSUME LoopbackInv, FinishRequest
    PROVE  LoopbackInv'
<1>1. Requested /\ HalfClose("client", "serve") /\ Typed /\ Right
    BY DEF LoopbackInv, Place, FinishRequest, Connecting, Requesting, Serving, Echoing, Served, Collecting, Collected
<1>2. CASE CheckFails
    BY <1>1, <1>2, CheckFailsInv
<1>3. CASE Shutdown("client", "send") /\ Goes("serve") /\ UNCHANGED <<offset, chunk, echoed, matches>>
    <2>1. Carried
        BY <1>1, <1>3, CarriedStill DEF Shutdown
    <2>2. Typed'
        BY <1>1, <1>3, <2>1, TypedNext, Sizes, Verdicts DEF Goes
    <2>3. Serving'
        <3>1. 0 \in 0..MessageSize
            BY <1>1, Sizes
        <3>2. UnderWay(0, 0, 0, MessageSize)' /\ sendShut' = {"client"}
            BY <1>1, <1>3 DEF Requested, UnderWay, Shutdown
        <3> QED BY <1>1, <1>3, <3>1, <3>2 DEF Requested, Serving, Goes
    <2> QED BY <1>1, <1>3, <2>2, <2>3 DEF LoopbackInv, Right, Place, Goes
<1> QED BY <1>1, <1>2, <1>3 DEF HalfClose

LEMMA ServeInv ==
    ASSUME LoopbackInv, Serve
    PROVE  LoopbackInv'
<1>1. Serving /\ ReceiveLoop("server", "finish response") /\ Typed /\ Right
    BY DEF LoopbackInv, Place, Serve, Connecting, Requesting, Requested, Echoing, Served, Collecting, Collected
<1>2. MessageSize \in Nat /\ 0 \in 0..(MessageSize - 1) /\ 0 \in 0..MessageSize
    <2>1. Typed
        BY <1>1
    <2> QED BY <2>1, Sizes
<1>3. PICK k \in 0..MessageSize : UnderWay(0, k, k, MessageSize)
    BY <1>1 DEF Serving
<1> DEFINE n == MessageSize - k
<1>4. k \in Nat /\ n \in Nat /\ k - 0 = k
    BY <1>2
<1>5. flight["client"] = From(k, n) /\ flight["server"] = From(0, k - 0)
    BY <1>3 DEF UnderWay
<1> HIDE DEF n
<1>6. /\ Carried /\ flight'["server"] = flight["server"] /\ UNCHANGED <<sendShut, offset>>
      /\ \/ flight' = flight /\ UNCHANGED <<pc, exit, chunk, echoed, matches>>
         \/ Quits /\ UNCHANGED <<chunk, echoed, matches>>
         \/ \E j \in 1..n :
               /\ j <= BufferSize /\ flight'["client"] = From(k + j, n - j)
               /\ \/ "server" = "server" /\ TakeRequest(From(k, j))
                  \/ "server" = "client" /\ TakeEcho(From(k, j))
         \/ /\ n = 0 /\ "client" \in sendShut /\ flight'["client"] = From(k, n)
            /\ pc' = "finish response" /\ UNCHANGED <<exit, chunk, echoed, matches>>
    <2>1. "server" \in Ends /\ "client" \in Ends /\ "client" = Peer("server")
        BY EndsFacts
    <2> QED BY <1>1, <1>4, <1>5, <2>1, ReceiveLoopEffect, ZenonT(60)
<1>7. CASE flight' = flight /\ UNCHANGED <<pc, exit, chunk, echoed, matches>>
    <2>1. Typed'
        BY <1>1, <1>6, <1>7, TypedNext, Sizes, Verdicts DEF Serving
    <2>2. Serving'
        BY <1>1, <1>3, <1>6, <1>7 DEF Serving, UnderWay
    <2> QED BY <1>1, <1>7, <2>1, <2>2 DEF LoopbackInv, Right, Place
<1>8. CASE Quits /\ UNCHANGED <<chunk, echoed, matches>>
    BY <1>1, <1>6, <1>8, QuitsInv
<1>9. ASSUME NEW j \in 1..n, j <= BufferSize, flight'["client"] = From(k + j, n - j),
             TakeRequest(From(k, j))
      PROVE  LoopbackInv'
    <2> DEFINE m == k + j
    <2>1. /\ j \in Nat /\ m \in k..MessageSize /\ m - k = j /\ 0 < j
          /\ n - j = MessageSize - m /\ (k + 0) - 0 = k - 0
        BY <1>2, <1>4 DEF n
    <2> HIDE DEF m
    <2>2. From(k, j) \in Seq(Nat) /\ Len(From(k, j)) = j
        BY <1>4, <2>1, FromType
    <2>3. chunk' = From(k, j) /\ pc' = "echo" /\ UNCHANGED <<exit, echoed, matches>>
        BY <1>9 DEF TakeRequest, Goes
    <2>4. Typed'
        BY <1>1, <1>6, <1>9, <2>2, <2>3, TypedNext, Sizes, Verdicts
    <2>5. UnderWay(0, k + 0, m, MessageSize)'
        BY <1>5, <1>6, <1>9, <2>1 DEF UnderWay, m
    <2>6. offset' = 0 /\ echoed' = 0 /\ sendShut' = {"client"}
        BY <1>1, <1>6, <2>3 DEF Serving
    <2>7. Echoing'
        BY <2>1, <2>3, <2>5, <2>6 DEF Echoing
    <2> QED BY <1>1, <2>3, <2>4, <2>7 DEF LoopbackInv, Right, Place
<1>10. CASE /\ n = 0 /\ flight'["client"] = From(k, n)
            /\ pc' = "finish response" /\ UNCHANGED <<exit, chunk, echoed, matches>>
    <2>1. k = MessageSize /\ MessageSize - MessageSize = n
        <3>1. n = 0
            BY <1>10
        <3> QED BY <1>2, <1>4, <3>1 DEF n
    <2>2. Typed'
        BY <1>1, <1>6, <1>10, TypedNext, Sizes, Verdicts
    <2>3. UnderWay(0, MessageSize, MessageSize, MessageSize)'
        BY <1>5, <1>6, <1>10, <2>1 DEF UnderWay
    <2>4. Served'
        BY <1>1, <1>6, <1>10, <2>3 DEF Serving, Served
    <2> QED BY <1>1, <1>10, <2>2, <2>4 DEF LoopbackInv, Right, Place
<1> QED BY <1>6, <1>7, <1>8, <1>9, <1>10

LEMMA EchoInv ==
    ASSUME LoopbackInv, Echo
    PROVE  LoopbackInv'
<1>1. Echoing /\ SendAll("server", chunk, "serve") /\ Typed /\ Right
    BY DEF LoopbackInv, Place, Echo, Connecting, Requesting, Requested, Serving, Served, Collecting, Collected
<1>2. MessageSize \in Nat /\ offset \in Nat /\ 0 \in 0..(MessageSize - 1)
    <2>1. Typed
        BY <1>1
    <2> QED BY <2>1, Sizes
<1>3. PICK k \in 0..MessageSize : \E m \in k..MessageSize :
          offset < m - k /\ chunk = From(k, m - k) /\ UnderWay(0, k + offset, m, MessageSize)
    BY <1>1 DEF Echoing
<1>4. PICK m \in k..MessageSize :
          offset < m - k /\ chunk = From(k, m - k) /\ UnderWay(0, k + offset, m, MessageSize)
    BY <1>3
<1> DEFINE n == m - k
           b == k + offset
<1>5. k \in Nat /\ m \in 0..MessageSize /\ n \in Nat /\ b \in Nat /\ offset < n /\ b - 0 = b
    BY <1>2, <1>4
<1>6. chunk = From(k, n) /\ flight["server"] = From(0, b) /\ flight["client"] = From(m, MessageSize - m)
    BY <1>4, <1>5 DEF UnderWay
<1>7. b = k + offset
    OBVIOUS
<1> HIDE DEF n, b
<1>8. /\ Carried /\ flight'["client"] = flight["client"]
      /\ UNCHANGED <<sendShut, chunk, echoed, matches>>
      /\ \/ flight' = flight /\ UNCHANGED <<offset, pc, exit>>
         \/ Quits /\ offset' = offset
         \/ \E j \in Nat :
               /\ offset + j < n /\ flight'["server"] = From(0, b + j)
               /\ offset' = offset + j /\ pc' = pc /\ exit' = exit
         \/ flight'["server"] = From(0, k + n) /\ offset' = 0 /\ pc' = "serve" /\ exit' = exit
    <2>1. "server" \in Ends /\ "client" = Peer("server")
        BY EndsFacts
    <2>2. Handing("server", chunk, k, n, b)
        BY <1>2, <1>5, <1>6, <1>7 DEF Handing
    <2> QED BY <1>1, <1>5, <2>1, <2>2, SendAllEffect
<1>9. CASE flight' = flight /\ UNCHANGED <<offset, pc, exit>>
    <2>1. Typed'
        BY <1>1, <1>8, <1>9, TypedNext, Sizes, Verdicts DEF Echoing
    <2>2. Echoing'
        BY <1>1, <1>4, <1>8, <1>9 DEF Echoing, UnderWay
    <2> QED BY <1>1, <1>8, <1>9, <2>1, <2>2 DEF LoopbackInv, Right, Place
<1>10. CASE Quits /\ offset' = offset
    BY <1>1, <1>8, <1>10, QuitsInv
<1>11. ASSUME NEW j \in Nat, offset + j < n, flight'["server"] = From(0, b + j),
              offset' = offset + j, pc' = pc, exit' = exit
       PROVE  LoopbackInv'
    <2>1. /\ offset + j \in 0..(MessageSize - 1) /\ (k + (offset + j)) - 0 = b + j
          /\ offset + j < m - k
        BY <1>2, <1>5, <1>11 DEF n, b
    <2>2. Typed'
        BY <1>1, <1>8, <1>11, <2>1, TypedNext, Sizes, Verdicts DEF Echoing
    <2>3. UnderWay(0, k + offset, m, MessageSize)'
        BY <1>6, <1>8, <1>11, <2>1 DEF UnderWay
    <2>4. Echoing'
        BY <1>1, <1>4, <1>8, <1>11, <2>1, <2>3 DEF Echoing
    <2> QED BY <1>1, <1>8, <1>11, <2>2, <2>4 DEF LoopbackInv, Right, Place
<1>12. CASE flight'["server"] = From(0, k + n) /\ offset' = 0 /\ pc' = "serve" /\ exit' = exit
    <2>1. k + n = m - 0
        BY <1>2, <1>5 DEF n
    <2>2. Typed'
        BY <1>1, <1>2, <1>8, <1>12, TypedNext, Sizes, Verdicts
    <2>3. UnderWay(0, m, m, MessageSize)'
        BY <1>6, <1>8, <1>12, <2>1 DEF UnderWay
    <2>4. Serving'
        BY <1>1, <1>5, <1>8, <1>12, <2>3 DEF Echoing, Serving
    <2> QED BY <1>1, <1>8, <1>12, <2>2, <2>4 DEF LoopbackInv, Right, Place
<1> QED BY <1>8, <1>9, <1>10, <1>11, <1>12

LEMMA FinishResponseInv ==
    ASSUME LoopbackInv, FinishResponse
    PROVE  LoopbackInv'
<1>1. Served /\ HalfClose("server", "collect") /\ Typed /\ Right
    BY DEF LoopbackInv, Place, FinishResponse, Connecting, Requesting, Requested, Serving, Echoing, Collecting, Collected
<1>2. CASE CheckFails
    BY <1>1, <1>2, CheckFailsInv
<1>3. CASE Shutdown("server", "send") /\ Goes("collect") /\ UNCHANGED <<offset, chunk, echoed, matches>>
    <2>1. Carried
        BY <1>1, <1>3, CarriedStill DEF Shutdown
    <2>2. Typed'
        BY <1>1, <1>3, <2>1, TypedNext, Sizes, Verdicts DEF Goes
    <2>3. UnderWay(echoed, MessageSize, MessageSize, MessageSize)' /\ sendShut' = {"client", "server"}
        BY <1>1, <1>3 DEF Served, UnderWay, Shutdown
    <2>4. Collecting'
        BY <1>1, <1>3, <2>3 DEF Served, Collecting, Goes
    <2> QED BY <1>1, <1>3, <2>2, <2>4 DEF LoopbackInv, Right, Place, Goes
<1> QED BY <1>1, <1>2, <1>3 DEF HalfClose

\* What arrives at the client is compared with the bytes it must be.
LEMMA CollectInv ==
    ASSUME LoopbackInv, Collect
    PROVE  LoopbackInv'
<1>1. Collecting /\ ReceiveLoop("client", "compare") /\ Typed /\ Right
    BY DEF LoopbackInv, Place, Collect, Connecting, Requesting, Requested, Serving, Echoing, Served, Collected
<1>2. MessageSize \in Nat /\ 0 \in 0..(MessageSize - 1) /\ echoed \in 0..MessageSize
    <2>1. Typed
        BY <1>1
    <2> QED BY <2>1, Sizes
<1> DEFINE n == MessageSize - echoed
<1>3. echoed \in Nat /\ n \in Nat
    BY <1>2
<1>4. flight["server"] = From(echoed, n) /\ flight["client"] = From(MessageSize, MessageSize - MessageSize)
    BY <1>1 DEF Collecting, UnderWay
<1> HIDE DEF n
<1>5. /\ Carried /\ flight'["client"] = flight["client"] /\ UNCHANGED <<sendShut, offset>>
      /\ \/ flight' = flight /\ UNCHANGED <<pc, exit, chunk, echoed, matches>>
         \/ Quits /\ UNCHANGED <<chunk, echoed, matches>>
         \/ \E k \in 1..n :
               /\ k <= BufferSize /\ flight'["server"] = From(echoed + k, n - k)
               /\ \/ "client" = "server" /\ TakeRequest(From(echoed, k))
                  \/ "client" = "client" /\ TakeEcho(From(echoed, k))
         \/ /\ n = 0 /\ "server" \in sendShut /\ flight'["server"] = From(echoed, n)
            /\ pc' = "compare" /\ UNCHANGED <<exit, chunk, echoed, matches>>
    <2>1. "server" \in Ends /\ "client" \in Ends /\ "server" = Peer("client")
        BY EndsFacts
    <2> QED BY <1>1, <1>3, <1>4, <2>1, ReceiveLoopEffect, ZenonT(60)
<1>6. CASE flight' = flight /\ UNCHANGED <<pc, exit, chunk, echoed, matches>>
    <2>1. Typed'
        BY <1>1, <1>5, <1>6, TypedNext, Sizes, Verdicts DEF Collecting
    <2>2. Collecting'
        BY <1>1, <1>5, <1>6 DEF Collecting, UnderWay
    <2> QED BY <1>1, <1>6, <2>1, <2>2 DEF LoopbackInv, Right, Place
<1>7. CASE Quits /\ UNCHANGED <<chunk, echoed, matches>>
    BY <1>1, <1>5, <1>7, QuitsInv
<1>8. ASSUME NEW k \in 1..n, flight'["server"] = From(echoed + k, n - k),
             TakeEcho(From(echoed, k))
      PROVE  LoopbackInv'
    <2> DEFINE m == echoed + k
    <2>1. /\ k \in Nat /\ m \in 0..MessageSize /\ echoed \in 0..m /\ m - echoed = k
          /\ n - k = MessageSize - m /\ m <= MessageSize
        BY <1>2, <1>3 DEF n
    <2> HIDE DEF m
    <2>2. Len(From(echoed, k)) = k
        BY <1>3, <2>1, FromType
    <2>3. SubSeq(Message, echoed + 1, m) = From(echoed, k)
        BY <1>2, <2>1, FromMiddle, MessageIsFrom
    <2>4. echoed' = m /\ pc' = pc /\ UNCHANGED <<exit, chunk>>
        BY <1>8, <2>2 DEF TakeEcho, Goes, m
    <2>5. matches' = (matches /\ m <= MessageSize /\ From(echoed, k) = SubSeq(Message, echoed + 1, m))
        BY <1>8, <2>2 DEF TakeEcho, m
    <2>6. matches' = TRUE /\ matches
        BY <1>1, <2>1, <2>3, <2>5 DEF Right
    <2>7. Typed'
        BY <1>1, <1>5, <2>1, <2>4, <2>6, TypedNext, Sizes, Verdicts DEF Collecting
    <2>8. UnderWay(echoed, MessageSize, MessageSize, MessageSize)'
        BY <1>4, <1>5, <1>8, <2>1, <2>4 DEF UnderWay, m
    <2>9. Collecting'
        BY <1>1, <1>5, <2>4, <2>8 DEF Collecting
    <2> QED BY <1>1, <2>4, <2>6, <2>7, <2>9 DEF LoopbackInv, Right, Place
<1>9. CASE /\ n = 0 /\ flight'["server"] = From(echoed, n)
           /\ pc' = "compare" /\ UNCHANGED <<exit, chunk, echoed, matches>>
    <2>1. echoed = MessageSize /\ MessageSize - MessageSize = n
        <3>1. n = 0
            BY <1>9
        <3> QED BY <1>2, <1>3, <3>1 DEF n
    <2>2. Typed'
        BY <1>1, <1>5, <1>9, TypedNext, Sizes, Verdicts
    <2>3. UnderWay(MessageSize, MessageSize, MessageSize, MessageSize)'
        BY <1>4, <1>5, <1>9, <2>1 DEF UnderWay
    <2>4. Collected'
        BY <1>1, <1>5, <1>9, <2>1, <2>3 DEF Collecting, Collected
    <2> QED BY <1>1, <1>9, <2>2, <2>4 DEF LoopbackInv, Right, Place
<1> QED BY <1>5, <1>6, <1>7, <1>8, <1>9

LEMMA CompareInv ==
    ASSUME LoopbackInv, Compare
    PROVE  LoopbackInv'
<1>1. Collected /\ Typed /\ Right
    BY DEF LoopbackInv, Place, Compare, Connecting, Requesting, Requested, Serving, Echoing, Served, Collecting
<1>2. UNCHANGED <<stream, offset, chunk, echoed, matches>> /\ pc' = "returned" /\ exit' = "success"
    BY <1>1 DEF Compare, Returns, Collected, Right
<1>3. Typed'
    BY <1>1, <1>2, CarriedStill, TypedNext, Sizes, Verdicts DEF stream
<1> QED BY <1>1, <1>2, <1>3 DEF LoopbackInv, Right, Place

LEMMA StutterInv ==
    ASSUME LoopbackInv, UNCHANGED loopbackVars
    PROVE  LoopbackInv'
BY DEF LoopbackInv, loopbackVars, stream, main, Typed, LoopbackTypeOK, Capacity, Right, Place, UnderWay, Connecting,
       Requesting, Requested, Serving, Echoing, Served, Collecting, Collected

\* Wherever main is, the message is cut where LoopbackInv says, and the sides that have
\* finished sending are those whose part has been received to the end
\* (example_tcp_loopback.cpp:85-144).
THEOREM LoopbackInvariance == LoopbackSpec => []LoopbackInv
<1>1. LoopbackInv /\ [LoopbackNext]_loopbackVars => LoopbackInv'
    BY ConnectInv, SendRequestInv, FinishRequestInv, ServeInv, EchoInv, FinishResponseInv,
       CollectInv, CompareInv, StutterInv DEF LoopbackNext
<1> QED BY LoopbackStart, <1>1, PTL DEF LoopbackSpec

-----------------------------------------------------------------------------
(***************************************************************************)
(* What the invariant says of the echo.                                    *)
(***************************************************************************)

\* The part of the server's chunk that is still to be echoed, and the part of
\* the message that the client is still to send.
ToEcho == IF pc = "echo" THEN SubSeq(chunk, offset + 1, Len(chunk)) ELSE <<>>

ToSend ==
    IF pc = "connect" THEN Message
    ELSE IF pc = "request" THEN SubSeq(Message, offset + 1, MessageSize) ELSE <<>>

\* The client has the bytes up to a, the server is to echo those from b to c,
\* and the client is to send those after d.
InHand(a, b, c, d) ==
    /\ UnderWay(a, b, c, d) /\ echoed = a
    /\ ToEcho = From(b, c - b) /\ ToSend = From(d, MessageSize - d)

Whole ==
    SubSeq(Message, 1, echoed) \o flight["server"] \o ToEcho \o flight["client"] \o ToSend = Message

\* The five pieces main and the connection hold are the message.
LEMMA PiecesAre ==
    ASSUME NEW a, NEW b, NEW c, NEW d, Places(a, b, c, d),
           InHand(a, b, c, d)
    PROVE  Whole
<1>1. SubSeq(Message, 1, echoed) = From(0, a)
    <2>1. a \in 0..MessageSize /\ MessageSize \in Nat /\ echoed = a
        BY EchoAssumption DEF Places, InHand
    <2>2. SubSeq(From(0, MessageSize), 1, a) = From(0, a)
        BY <2>1, FromFirst
    <2> QED BY <2>1, <2>2, MessageIsFrom
<1>2. From(0, a) \o From(a, b - a) \o From(b, c - b) \o From(c, d - c)
          \o From(d, MessageSize - d) = Message
    BY FivePieces
<1> QED BY <1>1, <1>2 DEF UnderWay, InHand, Whole

LEMMA NothingLostInv == LoopbackInv => NothingLostOrDoubled
<1> DEFINE S == MessageSize
<1> SUFFICES ASSUME LoopbackInv, pc # "returned" PROVE Whole
    BY DEF NothingLostOrDoubled, Whole, ToEcho, ToSend
<1>1. S \in Nat /\ offset \in 0..(S - 1) /\ offset \in Nat /\ echoed \in 0..S
    <2>1. Typed
        BY DEF LoopbackInv
    <2> QED BY <2>1, Sizes
<1>2. /\ 0 \in Nat /\ echoed \in Nat /\ S \in 0..S /\ offset \in 0..S
      /\ 0 <= 0 /\ 0 <= S /\ S <= S /\ 0 <= offset /\ offset <= S /\ echoed <= S
      /\ S - S = 0 /\ S - 0 = S
    BY <1>1
<1>3. pc # "echo" => \A x \in Nat : ToEcho = From(x, x - x)
    <2>1. \A x \in Nat : x - x = 0
        OBVIOUS
    <2> QED BY <2>1, FromNone DEF ToEcho
<1>4. pc \notin {"connect", "request"} => ToSend = From(S, S - S)
    BY <1>1, <1>2, FromNone DEF ToSend
<1>5. pc = "connect" => ToSend = From(0, S - 0)
    BY <1>2, MessageIsFrom DEF ToSend
<1>6. pc = "request" => ToSend = From(offset, S - offset)
    BY <1>1, <1>2, FromMiddle, MessageIsFrom DEF ToSend
<1>7. CASE Connecting
    <2>1. UnderWay(0, 0, 0, 0) /\ echoed = 0 /\ ToEcho = From(0, 0 - 0) /\ ToSend = From(0, S - 0)
        BY <1>3, <1>5, <1>7 DEF Connecting
    <2>2. Places(0, 0, 0, 0)
        BY <1>1 DEF Places
    <2>3. InHand(0, 0, 0, 0)
        BY <2>1 DEF InHand
    <2> QED BY <2>2, <2>3, PiecesAre
<1>8. CASE Requesting
    <2>1. /\ UnderWay(0, 0, 0, offset) /\ echoed = 0
          /\ ToEcho = From(0, 0 - 0) /\ ToSend = From(offset, S - offset)
        BY <1>3, <1>6, <1>8 DEF Requesting
    <2>2. Places(0, 0, 0, offset)
        BY <1>1 DEF Places
    <2>3. InHand(0, 0, 0, offset)
        BY <2>1 DEF InHand
    <2> QED BY <2>2, <2>3, PiecesAre
<1>9. CASE Requested
    <2>1. UnderWay(0, 0, 0, S) /\ echoed = 0 /\ ToEcho = From(0, 0 - 0) /\ ToSend = From(S, S - S)
        BY <1>3, <1>4, <1>9 DEF Requested
    <2>2. Places(0, 0, 0, S)
        BY <1>1 DEF Places
    <2>3. InHand(0, 0, 0, S)
        BY <2>1 DEF InHand
    <2> QED BY <2>2, <2>3, PiecesAre
<1>10. CASE Serving
    <2>1. PICK k \in 0..S : UnderWay(0, k, k, S)
        BY <1>10 DEF Serving
    <2>2. k \in Nat /\ 0 <= k /\ k <= k /\ k <= S
        BY <1>1
    <2>3. echoed = 0 /\ ToEcho = From(k, k - k) /\ ToSend = From(S, S - S)
        BY <1>3, <1>4, <1>10, <2>2 DEF Serving
    <2>4. Places(0, k, k, S)
        BY <1>1, <2>1, <2>2, <2>3 DEF Places
    <2>5. InHand(0, k, k, S)
        BY <2>1, <2>2, <2>3 DEF InHand
    <2> QED BY <2>4, <2>5, PiecesAre
<1>11. CASE Echoing
    <2>1. PICK k \in 0..S : \E m \in k..S :
              offset < m - k /\ chunk = From(k, m - k) /\ UnderWay(0, k + offset, m, S)
        BY <1>11 DEF Echoing
    <2>2. PICK m \in k..S :
              offset < m - k /\ chunk = From(k, m - k) /\ UnderWay(0, k + offset, m, S)
        BY <2>1
    <2> DEFINE n == m - k
               b == k + offset
    <2>3. /\ k \in Nat /\ m \in Nat /\ n \in Nat /\ b \in Nat /\ offset \in 0..n
          /\ 0 <= b /\ b <= m /\ m <= S /\ n - offset = m - b
        BY <1>1, <2>2
    <2>4. chunk = From(k, n) /\ UnderWay(0, b, m, S)
        BY <2>2
    <2> HIDE DEF n
    <2>5. SubSeq(chunk, offset + 1, Len(chunk)) = From(b, n - offset)
        <3>1. Len(chunk) = n
            BY <2>3, <2>4, FromType
        <3> QED BY <2>3, <2>4, <3>1, FromRest
    <2>6. echoed = 0 /\ ToEcho = From(b, m - b) /\ ToSend = From(S, S - S)
        BY <1>4, <1>11, <2>3, <2>5 DEF Echoing, ToEcho
    <2> HIDE DEF b
    <2>7. Places(0, b, m, S)
        BY <1>1, <2>1, <2>2, <2>3, <2>4, <2>5, <2>6 DEF Places
    <2>8. InHand(0, b, m, S)
        BY <2>1, <2>2, <2>3, <2>4, <2>5, <2>6 DEF InHand
    <2> QED BY <2>7, <2>8, PiecesAre
<1>12. CASE Served
    <2>1. UnderWay(0, S, S, S) /\ echoed = 0 /\ ToEcho = From(S, S - S) /\ ToSend = From(S, S - S)
        BY <1>1, <1>3, <1>4, <1>12 DEF Served
    <2>2. Places(0, S, S, S)
        BY <1>1 DEF Places
    <2>3. InHand(0, S, S, S)
        BY <2>1 DEF InHand
    <2> QED BY <2>2, <2>3, PiecesAre
<1>13. CASE Collecting
    <2>1. UnderWay(echoed, S, S, S) /\ ToEcho = From(S, S - S) /\ ToSend = From(S, S - S)
        BY <1>1, <1>3, <1>4, <1>13 DEF Collecting
    <2>2. Places(echoed, S, S, S)
        BY <1>1 DEF Places
    <2>3. InHand(echoed, S, S, S)
        BY <2>1 DEF InHand
    <2> QED BY <2>2, <2>3, PiecesAre
<1>14. CASE Collected
    <2>1. UnderWay(S, S, S, S) /\ echoed = S /\ ToEcho = From(S, S - S) /\ ToSend = From(S, S - S)
        BY <1>1, <1>3, <1>4, <1>14 DEF Collected
    <2>2. Places(S, S, S, S)
        BY <1>1 DEF Places
    <2>3. InHand(S, S, S, S)
        BY <2>1 DEF InHand
    <2> QED BY <2>2, <2>3, PiecesAre
<1> QED BY <1>7, <1>8, <1>9, <1>10, <1>11, <1>12, <1>13, <1>14 DEF LoopbackInv, Place

\* However the request and the echo are cut into pieces, main never finds that
\* they differ, and at every moment before it returns no byte is missing or
\* there twice (example_tcp_loopback.cpp:85-144).
THEOREM EchoHolds == LoopbackSpec => []EchoIsRequest
<1>1. LoopbackInv => EchoIsRequest
    BY NothingLostInv DEF EchoIsRequest, LoopbackInv, Typed, Right, NeverMismatched
<1> QED BY <1>1, LoopbackInvariance, PTL
=============================================================================
