------------------------ MODULE BenchThroughputProofs ------------------------
(***************************************************************************)
(* The counting and the reports of Throughput for any chunk size, number   *)
(* of chunks, capacities and numbers of failures. CountsAgree needs the    *)
(* place in the current chunk (WholeChunks, InChunk) to bound what is      *)
(* sent; the reports need to know that a socket is shut down only by a     *)
(* thread that has recorded an error of its own (ShutsAreErrors).          *)
(***************************************************************************)
EXTENDS BenchThroughput, SequenceTheorems, TLAPS

\* SendAll finishes chunk after chunk (bench_tcp.cpp:244-248).
WholeChunks == \E k \in 0..Chunks : sent = k * ChunkBytes
InChunk == offset > 0 => sent < total

\* How a thread leaves its loop: with an error, or because it has done its part
\* (bench_tcp.cpp:223-239, 244-249).
Exits ==
    \A e \in Ends :
        /\ pc[e] \in {"ready", "loop"} => error[e] = "none"
        /\ pc[e] = "shutdown" => error[e] # "none"
        /\ pc[e] \in {"finish", "done"} => error[e] # "none" \/ ~MoreLeft(e)

\* Only a thread with an error shuts its socket down (bench_tcp.cpp:238, 249).
ShutsAreErrors ==
    \A e \in sendShut \cup receiveShut : error[e] # "none" /\ pc[e] \in {"finish", "done"}

\* The worker is joined first (bench_tcp.cpp:251-252).
Joined == pc["client"] = "done" => pc["server"] = "done"

FlightType == flight \in [Ends -> Seq({"byte"})] /\ Capacity \in Nat

Inv ==
    /\ TypeOK /\ FlightType
    /\ CountsAgree /\ WholeChunks /\ InChunk
    /\ Exits /\ ShutsAreErrors /\ Joined /\ CauseIsReported

-----------------------------------------------------------------------------
LEMMA EndsFacts ==
    /\ "client" \in Ends /\ "server" \in Ends /\ \A e \in Ends : e = "client" \/ e = "server"
    /\ Peer("client") = "server" /\ Peer("server") = "client"
BY DEF Ends, Peer

\* Sums of what is received, in flight and sent.
LEMMA Sums ==
    \A r, f, s, o, x \in Int : r + f = s + o =>
        /\ r + (f + x) = s + (o + x)
        /\ (r + x) + (f - x) = s + o
        /\ \A n \in Int : x <= f /\ s + o <= n => r + x <= n
OBVIOUS

\* Another chunk fits while fewer than Chunks are sent.
LEMMA NextChunk ==
    ASSUME NEW k \in Nat, NEW n \in Nat, NEW c \in Nat \ {0}, k * c < n * c
    PROVE  k + 1 <= n /\ (k + 1) * c <= n * c /\ (k + 1) * c = k * c + c
<1>1. k < n
    <2>1. CASE n <= k
        <3>1. n * c <= k * c
            BY <2>1
        <3> QED BY <3>1
    <2> QED BY <2>1
<1>2. (k + 1) * c <= n * c
    BY <1>1
<1> QED BY <1>1, <1>2

LEMMA TotalNat == total \in Nat /\ ChunkBytes \in Nat \ {0} /\ Chunks \in Nat \ {0}
BY ThroughputAssumption DEF total

LEMMA BytesFacts ==
    ASSUME NEW n \in Nat
    PROVE  Bytes(n) \in Seq({"byte"}) /\ Len(Bytes(n)) = n /\ \A i \in 1..n : Bytes(n)[i] = "byte"
<1>1. Bytes(n) \in [1..n -> {"byte"}]
    BY DEF Bytes
<1>2. Bytes(n) \in Seq({"byte"})
    BY <1>1, SeqDef
<1>3. Len(Bytes(n)) = n
    BY <1>1, <1>2, LenProperties
<1> QED BY <1>1, <1>2, <1>3 DEF Bytes

LEMMA LenNat ==
    ASSUME FlightType
    PROVE  \A e \in Ends : flight[e] \in Seq({"byte"}) /\ Len(flight[e]) \in Nat
BY LenProperties DEF FlightType

LEMMA DisturbedFacts ==
    ASSUME TypeOK, NEW r, Disturbed(r)
    PROVE  /\ failures' \in 0..MaxFailures /\ interrupts' \in 0..MaxInterrupts
           /\ r.count = 0 /\ r.error \in {"failed", "interrupted"}
BY StreamAssumption DEF TypeOK, Disturbed, Failed

\* A ::send of n bytes: what it puts in flight, and why it fails.
LEMMA SendEffect ==
    ASSUME TypeOK, FlightType, NEW n \in Nat \ {0},
           NEW r \in Results(n), NativeSend("client", Bytes(n), r)
    PROVE  /\ failures' \in 0..MaxFailures /\ interrupts' \in 0..MaxInterrupts
           /\ flight' \in [Ends -> Seq({"byte"})]
           /\ flight'["server"] = flight["server"]
           /\ Len(flight'["client"]) = Len(flight["client"]) + r.count
           /\ Len(flight'["client"]) <= Capacity
           /\ r.count = 0 => \/ r.error \in {"failed", "timed_out", "interrupted"}
                             \/ r.error \in CallErrors /\ sendShut \cup receiveShut # {}
<1> USE EndsFacts
<1>1. flight["client"] \in Seq({"byte"}) /\ Len(flight["client"]) \in Nat
    BY LenNat
<1>2. CASE /\ r \in [count: 1..Len(Bytes(n)), error: {"none"}]
           /\ Len(flight["client"]) + r.count <= Capacity
           /\ flight' = [flight EXCEPT !["client"] = @ \o SubSeq(Bytes(n), 1, r.count)]
           /\ UNCHANGED <<failures, interrupts>>
    <2> DEFINE more == SubSeq(Bytes(n), 1, r.count)
    <2>1. r.count \in 1..n
        BY <1>2, BytesFacts
    <2>2. \A i \in 1..r.count : Bytes(n)[i] \in {"byte"}
        BY <2>1, BytesFacts
    <2>3. more \in Seq({"byte"}) /\ Len(more) = r.count
        BY <2>1, <2>2, SubSeqProperties
    <2> HIDE DEF more
    <2>4. /\ flight["client"] \o more \in Seq({"byte"})
          /\ Len(flight["client"] \o more) = Len(flight["client"]) + Len(more)
        BY ONLY <1>1, <2>3, ConcatProperties
    <2>5. flight' = [flight EXCEPT !["client"] = flight["client"] \o more]
        BY <1>2 DEF more
    <2> QED BY <1>2, <2>1, <2>3, <2>4, <2>5 DEF FlightType, TypeOK
<1>4. CASE /\ \/ "client" \in sendShut /\ r = Failed("broken_pipe")
              \/ "server" \in receiveShut /\ r = Failed("reset")
              \/ r = Failed("timed_out")
           /\ UNCHANGED <<flight, failures, interrupts>>
    <2>1. r.count = 0
        BY <1>4 DEF Failed
    <2>2. \/ r.error = "timed_out"
          \/ r.error \in CallErrors /\ sendShut \cup receiveShut # {}
        BY <1>4 DEF Failed, CallErrors
    <2> QED BY <1>1, <1>4, <2>1, <2>2 DEF FlightType, TypeOK
<1>5. CASE Disturbed(r) /\ UNCHANGED flight
    BY <1>1, <1>5, DisturbedFacts DEF FlightType, TypeOK
<1> QED BY <1>2, <1>4, <1>5 DEF NativeSend

\* A ::recv: what it takes out of flight, and why it comes back empty.
LEMMA ReceiveEffect ==
    ASSUME TypeOK, FlightType,
           NEW r \in Results(ChunkBytes), NativeReceive("server", ChunkBytes, r)
    PROVE  /\ failures' \in 0..MaxFailures /\ interrupts' \in 0..MaxInterrupts
           /\ flight' \in [Ends -> Seq({"byte"})]
           /\ flight'["server"] = flight["server"]
           /\ r.count \in 0..Len(flight["client"])
           /\ Len(flight'["client"]) = Len(flight["client"]) - r.count
           /\ r.count = 0 => \/ r.error \in {"failed", "timed_out", "interrupted"}
                             \/ r.error \in CallErrors \cup {"none"} /\ sendShut \cup receiveShut # {}
<1> USE EndsFacts, TotalNat
<1>1. flight["client"] \in Seq({"byte"}) /\ Len(flight["client"]) \in Nat
    BY LenNat
<1>2. CASE /\ r \in [count: 1..ChunkBytes, error: {"none"}]
           /\ r.count <= Len(flight["client"])
           /\ flight' = [flight EXCEPT !["client"] = SubSeq(@, r.count + 1, Len(@))]
           /\ UNCHANGED <<failures, interrupts>>
    <2> DEFINE rest == SubSeq(flight["client"], r.count + 1, Len(flight["client"]))
    <2>1. r.count \in 1..ChunkBytes
        BY <1>2
    <2>2. \A i \in (r.count + 1)..Len(flight["client"]) : flight["client"][i] \in {"byte"}
        BY <1>1, <2>1, ElementOfSeq
    <2>3. /\ rest \in Seq({"byte"})
          /\ Len(rest) = IF r.count + 1 <= Len(flight["client"])
                         THEN Len(flight["client"]) - (r.count + 1) + 1 ELSE 0
        BY <1>1, <2>1, <2>2, SubSeqProperties
    <2> HIDE DEF rest
    <2>4. Len(rest) = Len(flight["client"]) - r.count
        BY <1>1, <1>2, <2>1, <2>3
    <2>5. flight' = [flight EXCEPT !["client"] = rest]
        BY <1>2 DEF rest
    <2> QED BY <1>1, <1>2, <2>1, <2>3, <2>4, <2>5 DEF FlightType, TypeOK
<1>3. CASE /\ \/ r = [count |-> 0, error |-> "none"] /\ ("client" \in sendShut \/ "server" \in receiveShut)
              \/ "client" \in receiveShut /\ r = Failed("reset")
              \/ r = Failed("timed_out")
           /\ UNCHANGED <<flight, failures, interrupts>>
    <2>1. r.count = 0
        BY <1>3 DEF Failed
    <2>2. \/ r.error = "timed_out"
          \/ r.error \in CallErrors \cup {"none"} /\ sendShut \cup receiveShut # {}
        BY <1>3 DEF Failed, CallErrors
    <2> QED BY <1>1, <1>3, <2>1, <2>2 DEF FlightType, TypeOK
<1>4. CASE Disturbed(r) /\ UNCHANGED flight
    BY <1>1, <1>4, DisturbedFacts DEF FlightType, TypeOK
<1> QED BY <1>2, <1>3, <1>4 DEF NativeReceive

\* What is sent, counted chunks and the current one, never exceeds `total`.
LEMMA SentBound ==
    ASSUME Inv
    PROVE  /\ sent + offset <= total
           /\ sent < total => /\ sent + ChunkBytes <= total
                              /\ \E k \in 0..Chunks : sent + ChunkBytes = k * ChunkBytes
<1> USE TotalNat
<1>1. PICK k \in 0..Chunks : sent = k * ChunkBytes
    BY DEF Inv, WholeChunks
<1>2. ASSUME sent < total
      PROVE  sent + ChunkBytes <= total /\ k + 1 \in 0..Chunks /\ sent + ChunkBytes = (k + 1) * ChunkBytes
    <2>1. k \in Nat /\ Chunks \in Nat /\ ChunkBytes \in Nat \ {0} /\ k * ChunkBytes < Chunks * ChunkBytes
        BY <1>1, <1>2 DEF total
    <2>2. k + 1 <= Chunks /\ (k + 1) * ChunkBytes <= Chunks * ChunkBytes
              /\ (k + 1) * ChunkBytes = k * ChunkBytes + ChunkBytes
        BY <2>1, NextChunk
    <2> QED BY <1>1, <2>1, <2>2 DEF total
<1>3. sent + offset <= total
    <2>1. sent \in Nat /\ sent <= total /\ offset \in 0..(ChunkBytes - 1)
        BY DEF Inv, TypeOK
    <2>2. CASE offset = 0
        BY <2>1, <2>2
    <2>3. CASE offset > 0
        <3>1. sent + ChunkBytes <= total
            BY <1>2, <2>3 DEF Inv, InChunk
        <3> QED BY <2>1, <3>1
    <2> QED BY <2>1, <2>2, <2>3
<1> QED BY <1>2, <1>3

\* A step that moves no byte and changes no count keeps what the counts say.
LEMMA CountsKept ==
    ASSUME Inv, UNCHANGED <<connection, flight, sent, offset, received>>
    PROVE  FlightType' /\ CountsAgree' /\ WholeChunks' /\ InChunk' /\ (\A e \in Ends : Len(flight'[e]) <= Capacity')
<1>1. Capacity' = Capacity /\ UNCHANGED <<flight, sent, offset, received, total>>
    BY DEF Capacity, total
<1> QED BY <1>1 DEF Inv, FlightType, CountsAgree, WholeChunks, InChunk, TypeOK

\* The error with which thread e breaks out of its loop has a recorded cause.
LEMMA BreakHasCause ==
    ASSUME Inv, NEW e \in Ends, NEW r, pc[e] = "loop", Breaks(e, r),
           \/ r.error \in {"failed", "timed_out"}
           \/ r.error \in CallErrors \cup {"none"} /\ sendShut \cup receiveShut # {},
           UNCHANGED <<sendShut, receiveShut, sent, received>>
    PROVE  /\ error' \in [Ends -> CallErrors \cup {"none", "io_error"}]
           /\ pc' \in [Ends -> {"ready", "loop", "shutdown", "finish", "done"}]
           /\ Exits' /\ ShutsAreErrors' /\ CauseIsReported'
           /\ (e = "client" \/ pc["client"] # "done" => Joined')
<1> DEFINE said == IF r.error = "none" THEN "io_error" ELSE r.error
<1>1. said \in (CallErrors \cup {"io_error"}) \ {"none"}
    BY DEF CallErrors
<1>2. error' = [error EXCEPT ![e] = said] /\ pc' = [pc EXCEPT ![e] = "shutdown"]
    BY DEF Breaks, Goto
<1> HIDE DEF said
<1>3. /\ error'[e] = said /\ pc'[e] = "shutdown"
      /\ \A p \in Ends \ {e} : error'[p] = error[p] /\ pc'[p] = pc[p]
    BY <1>2 DEF Inv, TypeOK
<1>4. Exits'
    BY <1>1, <1>3 DEF Inv, Exits, MoreLeft, total
<1>5. ShutsAreErrors'
    <2>1. e \notin sendShut \cup receiveShut
        BY DEF Inv, ShutsAreErrors
    <2> QED BY <1>3, <2>1 DEF Inv, ShutsAreErrors, TypeOK
<1>6. CauseIsReported'
    <2>1. CASE r.error \in {"failed", "timed_out"}
        BY <1>3, <2>1 DEF CauseIsReported, said
    <2>2. CASE sendShut \cup receiveShut # {}
        <3>1. PICK p \in Ends : error[p] \in {"failed", "timed_out"}
            BY <2>2 DEF Inv, ShutsAreErrors, CauseIsReported, TypeOK
        <3>2. p # e
            BY <3>1 DEF Inv, Exits
        <3> QED BY <1>3, <3>1, <3>2 DEF CauseIsReported
    <2> QED BY <2>1, <2>2
<1>7. e = "client" \/ pc["client"] # "done" => Joined'
    BY <1>3, EndsFacts DEF Inv, Joined
<1> QED BY <1>1, <1>2, <1>4, <1>5, <1>6, <1>7 DEF Inv, TypeOK

\* SendAll keeps the invariant, whatever a Send does (bench_tcp.cpp:244-248).
LEMMA SendChunkStep == ASSUME Inv, SendChunk PROVE Inv'
<1> USE EndsFacts, TotalNat
<1> DEFINE left == ChunkBytes - offset
<1>1. /\ pc["client"] = "loop" /\ sent < total
      /\ UNCHANGED <<received, ready, finished>>
    BY DEF SendChunk, MoreLeft
<1>2. left \in Nat \ {0} /\ offset \in 0..(ChunkBytes - 1) /\ sent \in Nat /\ received \in Nat
    BY DEF Inv, TypeOK
<1>3. PICK r \in Results(left) :
          /\ NativeSend("client", Bytes(left), r)
          /\ UNCHANGED <<connection, sendShut, receiveShut>>
          /\ \/ ~Retried(r) /\ Breaks("client", r) /\ UNCHANGED <<sent, offset>>
             \/ /\ r.count \in 1..(left - 1)
                /\ offset' = offset + r.count
                /\ UNCHANGED <<pc, sent, error>>
             \/ /\ r.count = left
                /\ offset' = 0
                /\ sent' = sent + ChunkBytes
                /\ UNCHANGED <<pc, error>>
             \/ r.count = 0 /\ UNCHANGED <<pc, sent, offset, error>>
    <2>1. CASE SendRetry("client", Bytes(left)) /\ UNCHANGED <<pc, sent, offset, error>>
        <3>1. Len(Bytes(left)) = left
            BY <1>2, BytesFacts
        <3>2. PICK r \in Results(left) : NativeSend("client", Bytes(left), r) /\ Retried(r)
            BY <2>1, <3>1 DEF SendRetry
        <3>3. r.count = 0
            BY <3>2 DEF Results, Retried
        <3> QED BY <2>1, <3>2, <3>3 DEF SendRetry
    <2>2. CASE \E r \in Results(left) :
                  /\ Send("client", Bytes(left), r)
                  /\ \/ Breaks("client", r) /\ UNCHANGED <<sent, offset>>
                     \/ /\ r.count \in 1..(left - 1)
                        /\ offset' = offset + r.count
                        /\ UNCHANGED <<pc, sent, error>>
                     \/ /\ r.count = left
                        /\ offset' = 0
                        /\ sent' = sent + ChunkBytes
                        /\ UNCHANGED <<pc, error>>
        BY <2>2 DEF Send
    <2> QED BY <2>1, <2>2 DEF SendChunk
<1>4. /\ failures' \in 0..MaxFailures /\ interrupts' \in 0..MaxInterrupts
      /\ flight' \in [Ends -> Seq({"byte"})]
      /\ flight'["server"] = flight["server"]
      /\ Len(flight'["client"]) = Len(flight["client"]) + r.count
      /\ Len(flight'["client"]) <= Capacity
      /\ r.count = 0 => \/ r.error \in {"failed", "timed_out", "interrupted"}
                        \/ r.error \in CallErrors /\ sendShut \cup receiveShut # {}
    BY <1>2, <1>3, SendEffect DEF Inv
<1>5. Capacity' = Capacity
    BY <1>3 DEF Capacity
<1>6. r.count \in Nat /\ Len(flight["client"]) \in Nat
    BY <1>2, <1>3, LenNat DEF Inv, Results
<1> HIDE DEF left
<1>7. /\ error' \in [Ends -> CallErrors \cup {"none", "io_error"}]
      /\ pc' \in [Ends -> {"ready", "loop", "shutdown", "finish", "done"}]
      /\ Exits' /\ ShutsAreErrors' /\ CauseIsReported' /\ Joined'
    <2>1. CASE ~Retried(r) /\ Breaks("client", r) /\ UNCHANGED <<sent, offset>>
        <3>1. \/ r.error \in {"failed", "timed_out"}
              \/ r.error \in CallErrors \cup {"none"} /\ sendShut \cup receiveShut # {}
            BY <1>4, <2>1 DEF Breaks, Retried
        <3> QED BY <1>1, <1>3, <2>1, <3>1, BreakHasCause
    <2>2. CASE UNCHANGED <<pc, error>>
        <3>1. Exits'
            <4>1. ASSUME NEW e \in Ends, pc[e] \in {"finish", "done"}
                  PROVE  error[e] # "none" \/ ~MoreLeft(e)'
                BY <1>1, <4>1 DEF Inv, Exits, MoreLeft, total
            <4> QED BY <2>2, <4>1 DEF Inv, Exits
        <3> QED BY <1>3, <2>2, <3>1 DEF Inv, TypeOK, ShutsAreErrors, CauseIsReported, Joined
    <2> QED BY <1>3, <2>1, <2>2
<1>8. /\ sent' \in 0..total /\ offset' \in 0..(ChunkBytes - 1)
      /\ WholeChunks' /\ InChunk' /\ CountsAgree'
    <2>1. CASE r.count = 0 /\ UNCHANGED <<sent, offset>>
        <3>1. Len(flight'["client"]) = Len(flight["client"])
            BY <1>4, <1>6, <2>1
        <3>2. WholeChunks' /\ InChunk' /\ CountsAgree'
            BY <1>1, <2>1, <3>1 DEF Inv, WholeChunks, InChunk, CountsAgree, total
        <3> QED BY <2>1, <3>2 DEF Inv, TypeOK
    <2>2. CASE /\ r.count \in 1..(left - 1) /\ offset' = offset + r.count
               /\ UNCHANGED <<pc, sent, error>>
        <3>1. sent' \in 0..total /\ WholeChunks' /\ InChunk'
            BY <1>1, <2>2 DEF Inv, TypeOK, WholeChunks, InChunk, total
        <3>2. offset' \in 0..(ChunkBytes - 1)
            BY <1>2, <1>6, <2>2 DEF left
        <3>3. CountsAgree'
            <4>1. received + Len(flight["client"]) = sent + offset
                BY DEF Inv, CountsAgree
            <4>2. received + (Len(flight["client"]) + r.count) = sent + (offset + r.count)
                <5>1. {received, Len(flight["client"]), sent, offset, r.count} \subseteq Int
                    BY <1>2, <1>6
                <5> QED BY <4>1, <5>1, Sums
            <4> QED BY <1>1, <1>4, <2>2, <4>2 DEF CountsAgree
        <3> QED BY <3>1, <3>2, <3>3
    <2>3. CASE r.count = left /\ offset' = 0 /\ sent' = sent + ChunkBytes /\ UNCHANGED <<pc, error>>
        <3>1. sent' \in 0..total /\ WholeChunks'
            BY <1>1, <1>2, <2>3, SentBound DEF WholeChunks
        <3>2. offset' \in 0..(ChunkBytes - 1) /\ InChunk'
            BY <2>3 DEF InChunk
        <3>3. CountsAgree'
            <4>1. received + Len(flight["client"]) = sent + offset
                BY DEF Inv, CountsAgree
            <4>2. received + (Len(flight["client"]) + (ChunkBytes - offset)) = (sent + ChunkBytes) + 0
                <5> DEFINE f == Len(flight["client"])
                <5>1. f \in Nat /\ received + f = sent + offset
                    BY <1>6, <4>1
                <5> HIDE DEF f
                <5>2. received + (f + (ChunkBytes - offset)) = (sent + ChunkBytes) + 0
                    BY <1>2, <5>1
                <5> QED BY <5>2 DEF f
            <4> QED BY <1>1, <1>4, <2>3, <4>2 DEF CountsAgree, left
        <3> QED BY <3>1, <3>2, <3>3
    <2> QED BY <1>3, <2>1, <2>2, <2>3 DEF Breaks
<1>9. TypeOK'
    <2>1. \A e \in Ends : Len(flight'[e]) <= Capacity
        BY <1>4 DEF Inv, TypeOK
    <2> QED BY <1>1, <1>3, <1>4, <1>5, <1>7, <1>8, <2>1 DEF Inv, TypeOK, total
<1> QED BY <1>4, <1>5, <1>7, <1>8, <1>9 DEF Inv, FlightType

\* So does the worker's Receive (bench_tcp.cpp:223-237).
LEMMA ReceiveSomeStep == ASSUME Inv, ReceiveSome PROVE Inv'
<1> USE EndsFacts, TotalNat
<1>1. /\ pc["server"] = "loop" /\ received < total
      /\ UNCHANGED <<sent, offset, ready, finished>>
    BY DEF ReceiveSome, MoreLeft
<1>2. PICK r \in Results(ChunkBytes) :
          /\ NativeReceive("server", ChunkBytes, r)
          /\ UNCHANGED <<connection, sendShut, receiveShut>>
          /\ \/ ~Retried(r) /\ Breaks("server", r) /\ UNCHANGED received
             \/ received' = received + r.count /\ UNCHANGED <<pc, error>>
    <2>1. CASE ReceiveRetry("server", ChunkBytes) /\ UNCHANGED <<pc, received, error>>
        <3>1. PICK r \in Results(ChunkBytes) : NativeReceive("server", ChunkBytes, r) /\ Retried(r)
            BY <2>1 DEF ReceiveRetry
        <3>2. r.count = 0
            BY <3>1 DEF Results, Retried
        <3>3. received' = received + r.count
            BY <2>1, <3>2 DEF Inv, TypeOK
        <3> QED BY <2>1, <3>1, <3>3 DEF ReceiveRetry
    <2>2. CASE \E r \in Results(ChunkBytes) :
                  /\ Receive("server", ChunkBytes, r)
                  /\ \/ Breaks("server", r) /\ UNCHANGED received
                     \/ r.count > 0 /\ received' = received + r.count /\ UNCHANGED <<pc, error>>
        BY <2>2 DEF Receive
    <2> QED BY <2>1, <2>2 DEF ReceiveSome
<1>3. /\ failures' \in 0..MaxFailures /\ interrupts' \in 0..MaxInterrupts
      /\ flight' \in [Ends -> Seq({"byte"})]
      /\ flight'["server"] = flight["server"]
      /\ r.count \in 0..Len(flight["client"])
      /\ Len(flight'["client"]) = Len(flight["client"]) - r.count
      /\ r.count = 0 => \/ r.error \in {"failed", "timed_out", "interrupted"}
                        \/ r.error \in CallErrors \cup {"none"} /\ sendShut \cup receiveShut # {}
    BY <1>2, ReceiveEffect DEF Inv
<1>4. Capacity' = Capacity
    BY <1>2 DEF Capacity
<1>5. /\ r.count \in Nat /\ Len(flight["client"]) \in Nat /\ sent \in Nat /\ offset \in Nat /\ received \in Nat
    BY <1>3, LenNat DEF Inv, TypeOK
<1>6. CASE ~Retried(r) /\ Breaks("server", r) /\ UNCHANGED received
    <2>1. r.count = 0
        BY <1>6 DEF Breaks
    <2>2. \/ r.error \in {"failed", "timed_out"}
          \/ r.error \in CallErrors \cup {"none"} /\ sendShut \cup receiveShut # {}
        BY <1>3, <1>6, <2>1 DEF Retried
    <2>3. pc["client"] # "done"
        BY <1>1 DEF Inv, Joined
    <2>4. /\ error' \in [Ends -> CallErrors \cup {"none", "io_error"}]
          /\ pc' \in [Ends -> {"ready", "loop", "shutdown", "finish", "done"}]
          /\ Exits' /\ ShutsAreErrors' /\ CauseIsReported' /\ Joined'
        BY <1>1, <1>2, <1>6, <2>2, <2>3, BreakHasCause
    <2>5. CountsAgree' /\ WholeChunks' /\ InChunk'
        BY <1>1, <1>3, <1>5, <1>6, <2>1 DEF Inv, CountsAgree, WholeChunks, InChunk, total
    <2>6. \A e \in Ends : Len(flight'[e]) <= Capacity
        <3>1. Len(flight'["client"]) = Len(flight["client"])
            BY <1>3, <1>5, <2>1
        <3> QED BY <1>3, <3>1 DEF Inv, TypeOK
    <2>7. TypeOK'
        BY <1>1, <1>2, <1>3, <1>4, <1>6, <2>4, <2>6 DEF Inv, TypeOK, total
    <2> QED BY <1>3, <1>4, <2>4, <2>5, <2>7 DEF Inv, FlightType
<1>7. CASE received' = received + r.count /\ UNCHANGED <<pc, error>>
    <2> received + Len(flight["client"]) = sent + offset
        BY DEF Inv, CountsAgree
    <2> {received, Len(flight["client"]), sent, offset, r.count, total} \subseteq Int
        BY <1>5
    <2>1. CountsAgree'
        <3>1. (received + r.count) + (Len(flight["client"]) - r.count) = sent + offset
            BY Sums
        <3> QED BY <1>1, <1>3, <1>7, <3>1 DEF CountsAgree
    <2>2. WholeChunks' /\ InChunk'
        BY <1>1 DEF Inv, WholeChunks, InChunk, total
    <2>3. received' \in 0..total
        <3>1. sent + offset <= total /\ r.count <= Len(flight["client"])
            BY <1>3, <1>5, SentBound
        <3>2. received + r.count <= total
            BY <3>1, Sums
        <3> QED BY <1>5, <1>7, <3>2
    <2>4. \A e \in Ends : Len(flight'[e]) <= Capacity
        <3>1. Len(flight["client"]) <= Capacity /\ Capacity \in Nat
            BY DEF Inv, TypeOK, FlightType
        <3>2. Len(flight'["client"]) <= Capacity
            BY <1>3, <1>5, <3>1
        <3> QED BY <1>3, <3>2 DEF Inv, TypeOK
    <2>5. TypeOK'
        BY <1>1, <1>2, <1>3, <1>4, <1>7, <2>3, <2>4 DEF Inv, TypeOK, total
    <2>6. Exits'
        <3>1. ASSUME NEW e \in Ends, pc[e] \in {"finish", "done"}
              PROVE  error[e] # "none" \/ ~MoreLeft(e)'
            BY <1>1, <3>1 DEF Inv, Exits, MoreLeft, total
        <3> QED BY <1>7, <3>1 DEF Inv, Exits
    <2>7. ShutsAreErrors' /\ CauseIsReported' /\ Joined'
        BY <1>2, <1>7 DEF Inv, ShutsAreErrors, CauseIsReported, Joined
    <2> QED BY <1>3, <1>4, <2>1, <2>2, <2>5, <2>6, <2>7 DEF Inv, FlightType
<1> QED BY <1>2, <1>6, <1>7

\* And so do the latches, the ends of the loops and the shutdowns.
LEMMA InvStep == Inv /\ [Next]_vars => Inv'
<1> SUFFICES ASSUME Inv, [Next]_vars PROVE Inv'
    OBVIOUS
<1> USE EndsFacts
<1>1. ASSUME UNCHANGED <<connection, flight, failures, interrupts, sent, offset, received, error>>,
             sendShut' \subseteq Ends, receiveShut' \subseteq Ends, ready' \in {0, 1}, finished' \in {0, 1},
             pc' \in [Ends -> {"ready", "loop", "shutdown", "finish", "done"}],
             Exits', ShutsAreErrors', Joined'
      PROVE  Inv'
    <2>1. UNCHANGED total
        BY DEF total
    <2>2. FlightType' /\ CountsAgree' /\ WholeChunks' /\ InChunk' /\ (\A e \in Ends : Len(flight'[e]) <= Capacity')
        BY <1>1, CountsKept
    <2>3. TypeOK'
        BY <1>1, <2>1, <2>2 DEF Inv, TypeOK
    <2>4. CauseIsReported'
        BY <1>1 DEF Inv, CauseIsReported
    <2> QED BY <1>1, <2>2, <2>3, <2>4 DEF Inv
<1>2. /\ sendShut \subseteq Ends /\ receiveShut \subseteq Ends /\ ready \in {0, 1} /\ finished \in {0, 1}
      /\ pc \in [Ends -> {"ready", "loop", "shutdown", "finish", "done"}]
    BY DEF Inv, TypeOK
<1>3. \A e \in Ends : UNCHANGED <<sent, received>> => (MoreLeft(e)' <=> MoreLeft(e))
    BY DEF MoreLeft, total
<1>4. ASSUME NEW e \in Ends, Start(e) PROVE Inv'
    <2>1. /\ pc'[e] = "loop" /\ pc[e] = "ready" /\ \A p \in Ends \ {e} : pc'[p] = pc[p]
          /\ pc' \in [Ends -> {"ready", "loop", "shutdown", "finish", "done"}]
        BY <1>2, <1>4 DEF Start, Goto
    <2>2. Exits' /\ ShutsAreErrors' /\ Joined'
        BY <1>2, <1>3, <1>4, <2>1 DEF Inv, Exits, ShutsAreErrors, Joined, Start, stream
    <2> QED BY <1>1, <1>2, <1>4, <2>1, <2>2 DEF Start, stream
<1>5. ASSUME NEW e \in Ends, LoopEnds(e) PROVE Inv'
    <2>1. /\ pc'[e] = "finish" /\ pc[e] = "loop" /\ \A p \in Ends \ {e} : pc'[p] = pc[p]
          /\ pc' \in [Ends -> {"ready", "loop", "shutdown", "finish", "done"}]
        BY <1>2, <1>5 DEF LoopEnds, Goto
    <2>2. Exits' /\ ShutsAreErrors' /\ Joined'
        BY <1>2, <1>3, <1>5, <2>1 DEF Inv, Exits, ShutsAreErrors, Joined, LoopEnds, stream
    <2> QED BY <1>1, <1>2, <1>5, <2>1, <2>2 DEF LoopEnds, stream
<1>6. ASSUME NEW e \in Ends, ShutdownOnError(e) PROVE Inv'
    <2>1. /\ pc'[e] = "finish" /\ pc[e] = "shutdown" /\ \A p \in Ends \ {e} : pc'[p] = pc[p]
          /\ pc' \in [Ends -> {"ready", "loop", "shutdown", "finish", "done"}]
          /\ UNCHANGED <<sent, received, error>>
        BY <1>2, <1>6 DEF ShutdownOnError, Goto
    <2>2. /\ UNCHANGED <<connection, flight, failures, interrupts>>
          /\ sendShut' \subseteq sendShut \cup {e} /\ receiveShut' \subseteq receiveShut \cup {e}
        BY <1>6 DEF ShutdownOnError, Shutdown, stream
    <2>3. error[e] # "none"
        BY <2>1 DEF Inv, Exits
    <2>4. Exits' /\ ShutsAreErrors' /\ Joined'
        BY <1>2, <1>3, <2>1, <2>2, <2>3 DEF Inv, Exits, ShutsAreErrors, Joined
    <2> QED BY <1>1, <1>2, <1>6, <2>1, <2>2, <2>4 DEF ShutdownOnError
<1>7. ASSUME NEW e \in Ends, Finish(e) PROVE Inv'
    <2>1. /\ pc'[e] = "done" /\ pc[e] = "finish" /\ \A p \in Ends \ {e} : pc'[p] = pc[p]
          /\ pc' \in [Ends -> {"ready", "loop", "shutdown", "finish", "done"}]
          /\ e = "client" => pc["server"] = "done"
        BY <1>2, <1>7 DEF Finish, Goto
    <2>2. Exits' /\ ShutsAreErrors' /\ Joined'
        BY <1>2, <1>3, <1>7, <2>1 DEF Inv, Exits, ShutsAreErrors, Joined, Finish, stream
    <2> QED BY <1>1, <1>2, <1>7, <2>1, <2>2 DEF Finish, stream
<1>8. CASE UNCHANGED vars
    <2>1. Exits' /\ ShutsAreErrors' /\ Joined'
        BY <1>3, <1>8 DEF Inv, Exits, ShutsAreErrors, Joined, vars, stream, threads
    <2> QED BY <1>1, <1>2, <1>8, <2>1 DEF vars, stream, threads
<1> QED BY <1>4, <1>5, <1>6, <1>7, <1>8, SendChunkStep, ReceiveSomeStep DEF Next, Step

LEMMA InitInv == Init => Inv
<1> SUFFICES ASSUME Init PROVE Inv
    OBVIOUS
<1> USE TotalNat, EndsFacts
<1>1. Capacity \in Nat
    BY StreamAssumption DEF Init, StreamInit, Capacity
<1>2. flight \in [Ends -> Seq({"byte"})] /\ \A e \in Ends : Len(flight[e]) = 0
    BY EmptySeq DEF Init, StreamInit
<1>3. TypeOK /\ FlightType
    BY <1>1, <1>2, StreamAssumption DEF Init, StreamInit, TypeOK, FlightType
<1>4. CountsAgree /\ WholeChunks /\ InChunk
    <2>1. 0 \in 0..Chunks /\ 0 = 0 * ChunkBytes
        OBVIOUS
    <2> QED BY <1>2, <2>1 DEF Init, CountsAgree, WholeChunks, InChunk
<1>5. Exits /\ ShutsAreErrors /\ Joined /\ CauseIsReported
    BY DEF Init, StreamInit, Exits, ShutsAreErrors, Joined, CauseIsReported
<1> QED BY <1>3, <1>4, <1>5 DEF Inv

\* The invariant of a measurement, for every instance.
THEOREM Invariance == Spec => []Inv
BY InitInv, InvStep, PTL DEF Spec

\* The worker counts exactly the bytes the main thread has sent, less those on
\* their way (bench_tcp.cpp:223-237, 244-248).
THEOREM BytesAreCounted == Spec => []CountsAgree
<1>1. Inv => CountsAgree
    BY DEF Inv
<1> QED BY <1>1, Invariance, PTL

\* Throughput reports the cause of an error, or a time in which all bytes
\* arrived (bench_tcp.cpp:253-264).
THEOREM ReportsAreTrue == Spec => []ReportIsTrue
<1>1. Inv => ReportIsTrue
    <2> SUFFICES ASSUME Inv PROVE ReportIsTrue
        OBVIOUS
    <2>1. SuccessIsComplete
        <3> SUFFICES ASSUME pc["client"] = "done", \A e \in Ends : error[e] = "none"
                     PROVE  received = total
            BY DEF SuccessIsComplete
        <3>1. pc["server"] = "done"
            BY DEF Inv, Joined
        <3>2. ~(received < total)
            BY <3>1, EndsFacts DEF Inv, Exits, MoreLeft
        <3> QED BY <3>2, TotalNat DEF Inv, TypeOK
    <2> QED BY <2>1 DEF Inv, ReportIsTrue
<1> QED BY <1>1, Invariance, PTL
=============================================================================
