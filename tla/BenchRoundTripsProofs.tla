----------------------- MODULE BenchRoundTripsProofs -----------------------
(***************************************************************************)
(* The echo of RoundTrips and its reports for any message size, number of  *)
(* rounds, capacities and numbers of failures. The reply can only be the   *)
(* request because the two threads take turns: the invariant (Exchange)    *)
(* says, for every place the client may be at, where the server is and     *)
(* which bytes of which round are in its buffer and in flight.             *)
(***************************************************************************)
EXTENDS BenchRoundTrips, SequenceTheorems, TLAPS

\* Bytes <<round, place>>; Zeroed has round and place 0.
Bytes == (0..Rounds) \X (0..MessageBytes)

DataType == buffer \in [Ends -> [1..MessageBytes -> Bytes]] /\ Capacity \in Nat

\* A sequence of bytes of round r, those after place `from` up to place `to`.
Piece(s, r, from, to) == Len(s) = to - from /\ \A i \in 1..Len(s) : s[i] = <<r, from + i>>

\* The first n bytes of e's buffer are those of round r.
Has(b, r, n) == \A i \in 1..n : b[i] = <<r, i>>
Holds(e, r, n) == Has(buffer[e], r, n)

\* The n bytes s are those of round r after place k.
Run(s, r, k, n) == \A i \in 1..n : s[i] = <<r, k + i>>

\* t starts with the n elements of s after the k-th.
Part(s, t, k, n) == \A i \in 1..n : t[i] = s[k + i]

\* c has the first k elements of b, and n of s behind them.
Adds(b, c, k, n, s) == (\A i \in 1..k : c[i] = b[i]) /\ \A i \in 1..n : c[k + i] = s[i]

Fine(e) == error[e] = "none"

\* The server has part of the request, up to place `to` of which is sent.
ServerReceiving(r, to) ==
    /\ pc["server"] = "receive" /\ round["server"] = r
    /\ Piece(flight["client"], r, offset["server"], to)
    /\ Holds("server", r, offset["server"])

\* It is sending the echo and has handed over k bytes of it.
ServerSending(r, k) ==
    /\ pc["server"] = "send" /\ round["server"] = r /\ offset["server"] = k
    /\ flight["client"] = <<>> /\ Holds("server", r, MessageBytes)

\* It has sent the whole echo.
ServerAhead(r, k) ==
    /\ k = MessageBytes /\ offset["server"] = 0 /\ flight["client"] = <<>>
    /\ round["server"] = r + 1
    /\ IF r = Rounds THEN pc["server"] \in {"join", "done"} ELSE pc["server"] = "receive"

\* The client sends its request: no echo is under way (bench_tcp.cpp:175-184).
ClientSending ==
    LET r == round["client"] IN
    /\ pc["client"] = "send" /\ flight["server"] = <<>>
    /\ r > 1 => Holds("client", r - 1, MessageBytes)
    /\ Fine("server") => ServerReceiving(r, offset["client"])

\* The client waits for the echo, of which k bytes are sent (bench_tcp.cpp:160-167).
ClientReceiving ==
    LET r == round["client"] IN
    /\ pc["client"] = "receive" /\ Holds("client", r, offset["client"])
    /\ \E k \in 0..MessageBytes :
        /\ Piece(flight["server"], r, offset["client"], k)
        /\ Fine("server") =>
              (ServerReceiving(r, MessageBytes) /\ k = 0) \/ ServerSending(r, k) \/ ServerAhead(r, k)

ClientDone ==
    /\ pc["client"] \in {"join", "done"} /\ round["client"] = Rounds + 1
    /\ Holds("client", Rounds, MessageBytes)
    /\ Fine("server") =>
          /\ pc["server"] \in {"join", "done"} /\ round["server"] = Rounds + 1
          /\ flight["client"] = <<>> /\ flight["server"] = <<>>

Exchange == Fine("client") => ClientSending \/ ClientReceiving \/ ClientDone

\* A thread is in its loop as long as it has no error and rounds are left.
Looping ==
    \A e \in Ends :
        /\ pc[e] \in {"send", "receive"} => Fine(e) /\ round[e] \in 1..Rounds
        /\ pc[e] = "shutdown" => ~Fine(e)

\* Only a thread with an error shuts its socket down (bench_tcp.cpp:169, 188).
ShutsAreErrors == \A e \in sendShut \cup receiveShut : ~Fine(e)

Inv == TypeOK /\ DataType /\ Looping /\ ShutsAreErrors /\ CauseIsReported /\ Exchange

-----------------------------------------------------------------------------
LEMMA EndsFacts ==
    /\ "client" \in Ends /\ "server" \in Ends /\ \A e \in Ends : e = "client" \/ e = "server"
    /\ Peer("client") = "server" /\ Peer("server") = "client"
BY DEF Ends, Peer

LEMMA FlightFacts ==
    ASSUME TypeOK, NEW e \in Ends
    PROVE  flight[e] \in Seq(Bytes) /\ Len(flight[e]) \in Nat /\ Peer(e) \in Ends /\ Peer(e) # e
BY LenProperties DEF TypeOK, Bytes, Ends, Peer

LEMMA DisturbedFacts ==
    ASSUME TypeOK, NEW r, Disturbed(r)
    PROVE  /\ failures' \in 0..MaxFailures /\ interrupts' \in 0..MaxInterrupts
           /\ r.count = 0 /\ r.error \in {"failed", "interrupted"}
BY StreamAssumption DEF TypeOK, Disturbed, Failed

\* What is left of n bytes after the first k.
LEMMA AfterFacts ==
    ASSUME NEW s, NEW n \in Nat, NEW k \in 0..n, \A i \in 1..n : s[i] \in Bytes
    PROVE  /\ SubSeq(s, k + 1, n) \in Seq(Bytes)
           /\ Len(SubSeq(s, k + 1, n)) = n - k
           /\ Part(s, SubSeq(s, k + 1, n), k, n - k)
<1> USE DEF Part
<1>1. ASSUME NEW m \in Int, m = k + 1
      PROVE  /\ SubSeq(s, m, n) \in Seq(Bytes)
             /\ Len(SubSeq(s, m, n)) = n - k
             /\ Part(s, SubSeq(s, m, n), k, n - k)
    <2>1. \A i \in m..n : s[i] \in Bytes
        BY <1>1
    <2>2. /\ SubSeq(s, m, n) \in Seq(Bytes)
          /\ Len(SubSeq(s, m, n)) = IF m <= n THEN n - m + 1 ELSE 0
          /\ \A i \in 1..(n - m + 1) : SubSeq(s, m, n)[i] = s[m + i - 1]
        BY <2>1, SubSeqProperties
    <2>3. /\ n - m + 1 = n - k /\ (~(m <= n) => n - k = 0)
          /\ \A i \in 1..(n - k) : m + i - 1 = k + i
        BY <1>1
    <2> QED BY <2>2, <2>3
<1> QED BY <1>1

\* The rest of a message that SendAll gives to Send.
LEMMA RestFacts ==
    ASSUME TypeOK, NEW e \in Ends, NEW message \in [1..MessageBytes -> Bytes]
    PROVE  /\ Rest(e, message) \in Seq(Bytes)
           /\ Len(Rest(e, message)) = MessageBytes - offset[e]
           /\ Part(message, Rest(e, message), offset[e], MessageBytes - offset[e])
<1>1. MessageBytes \in Nat /\ offset[e] \in 0..MessageBytes
    BY RoundTripsAssumption DEF TypeOK
<1>2. \A i \in 1..MessageBytes : message[i] \in Bytes
    OBVIOUS
<1> QED BY <1>1, <1>2, AfterFacts DEF Rest

\* Why a call comes back empty.
Caused(r) ==
    \/ r.error \in {"failed", "timed_out", "interrupted"}
    \/ r.error \in CallErrors \cup {"none"} /\ sendShut \cup receiveShut # {}

\* A ::send of some bytes: the first of them join those in flight.
LEMMA SendEffect ==
    ASSUME TypeOK, DataType, NEW e \in Ends, NEW bytes \in Seq(Bytes), NEW most \in Nat,
           NEW r \in Results(most), NativeSend(e, bytes, r)
    PROVE  /\ failures' \in 0..MaxFailures /\ interrupts' \in 0..MaxInterrupts
           /\ flight' \in [Ends -> Seq(Bytes)]
           /\ flight'[Peer(e)] = flight[Peer(e)]
           /\ r.count \in 0..Len(bytes)
           /\ Len(flight'[e]) = Len(flight[e]) + r.count /\ Len(flight'[e]) <= Capacity
           /\ Adds(flight[e], flight'[e], Len(flight[e]), r.count, bytes)
           /\ r.count = 0 => flight' = flight /\ Caused(r)
           /\ r.count > 0 => r.error = "none"
<1> USE DEF Adds
<1>1. /\ flight[e] \in Seq(Bytes) /\ Len(flight[e]) \in Nat /\ Peer(e) \in Ends /\ Peer(e) # e
      /\ Len(bytes) \in Nat
    BY FlightFacts, LenProperties
<1>2. /\ flight \in [Ends -> Seq(Bytes)] /\ Len(flight[e]) <= Capacity
      /\ failures \in 0..MaxFailures /\ interrupts \in 0..MaxInterrupts
    BY DEF TypeOK, Bytes
<1>3. CASE /\ r \in [count: 1..Len(bytes), error: {"none"}]
           /\ Len(flight[e]) + r.count <= Capacity
           /\ flight' = [flight EXCEPT ![e] = @ \o SubSeq(bytes, 1, r.count)]
           /\ UNCHANGED <<failures, interrupts>>
    <2> DEFINE more == SubSeq(bytes, 1, r.count)
    <2>1. r.count \in 1..Len(bytes) /\ r.error = "none"
        BY <1>3
    <2>2. \A i \in 1..r.count : bytes[i] \in Bytes
        BY <1>1, <2>1, ElementOfSeq
    <2>3. more \in Seq(Bytes) /\ Len(more) = r.count /\ \A i \in 1..r.count : more[i] = bytes[i]
        <3>1. /\ more \in Seq(Bytes) /\ Len(more) = IF 1 <= r.count THEN r.count - 1 + 1 ELSE 0
              /\ \A i \in 1..(r.count - 1 + 1) : more[i] = bytes[1 + i - 1]
            BY <1>1, <2>1, <2>2, SubSeqProperties
        <3>2. r.count - 1 + 1 = r.count /\ \A i \in 1..r.count : 1 + i - 1 = i
            BY <1>1, <2>1
        <3> QED BY <2>1, <3>1, <3>2
    <2>4. flight' = [flight EXCEPT ![e] = flight[e] \o more]
        BY <1>3
    <2> HIDE DEF more
    <2>5. /\ flight[e] \o more \in Seq(Bytes)
          /\ Len(flight[e] \o more) = Len(flight[e]) + Len(more)
          /\ \A i \in 1..(Len(flight[e]) + Len(more)) :
                (flight[e] \o more)[i] = IF i <= Len(flight[e]) THEN flight[e][i] ELSE more[i - Len(flight[e])]
        BY ONLY <1>1, <2>3, ConcatProperties
    <2>6. \A i \in 1..Len(flight[e]) : (flight[e] \o more)[i] = flight[e][i]
        BY ONLY <1>1, <2>1, <2>3, <2>5
    <2>7. \A i \in 1..r.count : (flight[e] \o more)[Len(flight[e]) + i] = bytes[i]
        <3> SUFFICES ASSUME NEW i \in 1..r.count PROVE (flight[e] \o more)[Len(flight[e]) + i] = bytes[i]
            OBVIOUS
        <3>1. /\ Len(flight[e]) + i \in 1..(Len(flight[e]) + Len(more))
              /\ ~(Len(flight[e]) + i <= Len(flight[e])) /\ Len(flight[e]) + i - Len(flight[e]) = i
            BY ONLY <1>1, <2>1, <2>3
        <3> QED BY <2>3, <2>5, <3>1
    <2>8. flight'[e] = flight[e] \o more /\ flight'[Peer(e)] = flight[Peer(e)]
          /\ flight' \in [Ends -> Seq(Bytes)]
        BY <1>1, <1>2, <2>4, <2>5
    <2> QED BY <1>1, <1>2, <1>3, <2>1, <2>3, <2>5, <2>6, <2>7, <2>8
<1>4. ASSUME r.count = 0, flight' = flight, Caused(r),
             failures' \in 0..MaxFailures, interrupts' \in 0..MaxInterrupts
      PROVE  /\ flight' \in [Ends -> Seq(Bytes)]
             /\ flight'[Peer(e)] = flight[Peer(e)]
             /\ r.count \in 0..Len(bytes)
             /\ Len(flight'[e]) = Len(flight[e]) + r.count /\ Len(flight'[e]) <= Capacity
             /\ Adds(flight[e], flight'[e], Len(flight[e]), r.count, bytes)
    BY <1>1, <1>2, <1>4
<1>5. CASE /\ \/ e \in sendShut /\ r = Failed("broken_pipe")
              \/ Peer(e) \in receiveShut /\ r = Failed("reset")
              \/ r = Failed("timed_out")
           /\ UNCHANGED <<flight, failures, interrupts>>
    BY <1>2, <1>4, <1>5 DEF Failed, CallErrors, Caused
<1>6. CASE Disturbed(r) /\ UNCHANGED flight
    BY <1>4, <1>6, DisturbedFacts DEF Caused
<1> QED BY <1>3, <1>5, <1>6 DEF NativeSend

\* A ::recv takes the first bytes in flight.
LEMMA ReceiveEffect ==
    ASSUME TypeOK, DataType, NEW e \in Ends, NEW most \in Nat,
           NEW r \in Results(most), NativeReceive(e, most, r)
    PROVE  /\ failures' \in 0..MaxFailures /\ interrupts' \in 0..MaxInterrupts
           /\ flight' \in [Ends -> Seq(Bytes)]
           /\ flight'[e] = flight[e]
           /\ r.count \in 0..Len(flight[Peer(e)]) /\ r.count <= most
           /\ Len(flight'[Peer(e)]) = Len(flight[Peer(e)]) - r.count
           /\ Part(flight[Peer(e)], flight'[Peer(e)], r.count, Len(flight[Peer(e)]) - r.count)
           /\ Part(flight[Peer(e)], Arriving(e, r.count), 0, r.count)
           /\ r.count = 0 => flight' = flight /\ Caused(r)
           /\ r.count > 0 => r.error = "none"
<1> DEFINE incoming == flight[Peer(e)]
<1>1. Peer(e) \in Ends /\ Peer(e) # e
    BY FlightFacts
<1>2. incoming \in Seq(Bytes) /\ Len(incoming) \in Nat
    BY <1>1, FlightFacts
<1>3. /\ flight \in [Ends -> Seq(Bytes)]
      /\ failures \in 0..MaxFailures /\ interrupts \in 0..MaxInterrupts
    BY DEF TypeOK, Bytes
<1>4. CASE /\ r \in [count: 1..most, error: {"none"}]
           /\ r.count <= Len(incoming)
           /\ flight' = [flight EXCEPT ![Peer(e)] = SubSeq(@, r.count + 1, Len(@))]
           /\ UNCHANGED <<failures, interrupts>>
    <2> DEFINE c == r.count
    <2> DEFINE n == Len(incoming)
    <2> DEFINE rest == SubSeq(incoming, c + 1, n)
    <2>1. c \in 1..n /\ r.error = "none" /\ n \in Nat /\ c <= most
        BY <1>2, <1>4
    <2>2. flight' = [flight EXCEPT ![Peer(e)] = rest]
        BY <1>4
    <2>3. \A i \in 1..n : incoming[i] \in Bytes
        BY <1>2, ElementOfSeq
    <2>4. Part(incoming, Arriving(e, c), 0, c)
        <3>1. \A i \in 1..c : incoming[i] \in Bytes
            BY <2>1, <2>3
        <3>2. \A i \in 1..(c - 1 + 1) : SubSeq(incoming, 1, c)[i] = incoming[1 + i - 1]
            BY <1>2, <2>1, <3>1, SubSeqProperties
        <3>3. c - 1 + 1 = c /\ \A i \in 1..c : 1 + i - 1 = 0 + i
            BY <2>1
        <3> QED BY <3>2, <3>3 DEF Arriving, Part
    <2>5. rest \in Seq(Bytes) /\ Len(rest) = n - c /\ Part(incoming, rest, c, n - c)
        <3>1. c \in 0..n
            BY <2>1
        <3> HIDE DEF incoming, n, c
        <3> QED BY <2>1, <2>3, <3>1, AfterFacts
    <2> HIDE DEF rest
    <2>6. /\ flight'[Peer(e)] = rest /\ flight'[e] = flight[e]
          /\ flight' \in [Ends -> Seq(Bytes)]
        BY <1>1, <1>3, <2>2, <2>5
    <2>7. /\ c \in 0..n /\ c > 0 /\ c # 0
          /\ failures' \in 0..MaxFailures /\ interrupts' \in 0..MaxInterrupts
        BY <1>3, <1>4, <2>1
    <2> QED BY <2>1, <2>4, <2>5, <2>6, <2>7
<1>5. ASSUME r.count = 0, flight' = flight, Caused(r),
             failures' \in 0..MaxFailures, interrupts' \in 0..MaxInterrupts
      PROVE  /\ flight' \in [Ends -> Seq(Bytes)]
             /\ flight'[e] = flight[e]
             /\ r.count \in 0..Len(incoming) /\ r.count <= most
             /\ Len(flight'[Peer(e)]) = Len(incoming) - r.count
             /\ Part(incoming, flight'[Peer(e)], r.count, Len(incoming) - r.count)
             /\ Part(incoming, Arriving(e, r.count), 0, r.count)
    BY <1>2, <1>3, <1>5 DEF Part
<1>6. CASE /\ \/ /\ r = [count |-> 0, error |-> "none"]
                 /\ Peer(e) \in sendShut \/ e \in receiveShut
              \/ Peer(e) \in receiveShut /\ r = Failed("reset")
              \/ r = Failed("timed_out")
           /\ UNCHANGED <<flight, failures, interrupts>>
    BY <1>3, <1>5, <1>6 DEF Failed, CallErrors, Caused
<1>7. CASE Disturbed(r) /\ UNCHANGED flight
    BY <1>5, <1>7, DisturbedFacts DEF Caused
<1> QED BY <1>4, <1>6, <1>7 DEF NativeReceive

\* Where completing a message takes a thread (bench_tcp.cpp:160-167, 177-184).
Turn(e) ==
    IF ExchangeEnds(e)
    THEN /\ round'[e] = round[e] + 1
         /\ pc'[e] = IF round[e] = Rounds THEN "join" ELSE OtherHalf(e)
    ELSE round'[e] = round[e] /\ pc'[e] = OtherHalf(e)

\* Thread e is n bytes further.
Advances(e, n) ==
    \/ /\ offset[e] + n < MessageBytes
       /\ offset'[e] = offset[e] + n /\ pc'[e] = pc[e] /\ round'[e] = round[e]
    \/ /\ offset[e] + n = MessageBytes
       /\ offset'[e] = 0 /\ Turn(e)

Stays(e) == pc'[e] = pc[e] /\ round'[e] = round[e] /\ offset'[e] = offset[e]

\* SendAll and ReceiveExact after a call moved some bytes.
LEMMA Moves ==
    ASSUME Inv, NEW e \in Ends, pc[e] \in {"send", "receive"}, NEW r, r.count \in Nat \ {0},
           Transfer(e, r)
    PROVE  /\ error' = error
           /\ Stays(Peer(e)) /\ Advances(e, r.count)
           /\ pc' \in [Ends -> {"send", "receive", "shutdown", "join", "done"}]
           /\ round' \in [Ends -> 1..(Rounds + 1)] /\ offset' \in [Ends -> 0..(MessageBytes - 1)]
           /\ Looping'
<1> USE DEF Advances, Stays
<1>0. Peer(e) \in Ends /\ Peer(e) # e
    BY DEF Ends, Peer
<1>1. /\ MessageBytes \in Nat \ {0} /\ Rounds \in Nat \ {0}
      /\ pc \in [Ends -> {"send", "receive", "shutdown", "join", "done"}]
      /\ round \in [Ends -> 1..(Rounds + 1)] /\ offset \in [Ends -> 0..(MessageBytes - 1)]
    BY RoundTripsAssumption DEF Inv, TypeOK
<1>2. round[e] \in 1..Rounds /\ Fine(e)
    BY DEF Inv, Looping
<1>3. CASE /\ offset[e] + r.count < MessageBytes
           /\ offset' = [offset EXCEPT ![e] = @ + r.count]
           /\ UNCHANGED <<pc, round, error>>
    <2>1. Looping'
        BY <1>3 DEF Inv, Looping, Fine
    <2>2. offset[e] + r.count \in 0..(MessageBytes - 1)
        BY <1>1, <1>3
    <2> QED BY <1>0, <1>1, <1>3, <2>1, <2>2
<1>4. CASE /\ offset[e] + r.count = MessageBytes
           /\ offset' = [offset EXCEPT ![e] = 0]
           /\ pc' = [pc EXCEPT ![e] = AfterMessage(e)]
           /\ round' = IF ExchangeEnds(e) THEN [round EXCEPT ![e] = @ + 1] ELSE round
           /\ UNCHANGED error
    <2>1. /\ AfterMessage(e) \in {"send", "receive", "join"}
          /\ AfterMessage(e) = IF ExchangeEnds(e) /\ round[e] = Rounds THEN "join" ELSE OtherHalf(e)
          /\ OtherHalf(e) \in {"send", "receive"}
        BY DEF AfterMessage, OtherHalf
    <2>2. /\ pc'[e] = AfterMessage(e) /\ \A p \in Ends \ {e} : pc'[p] = pc[p]
          /\ pc' \in [Ends -> {"send", "receive", "shutdown", "join", "done"}]
        BY <1>1, <1>4, <2>1
    <2>3. /\ round'[e] = IF ExchangeEnds(e) THEN round[e] + 1 ELSE round[e]
          /\ \A p \in Ends \ {e} : round'[p] = round[p]
          /\ round' \in [Ends -> 1..(Rounds + 1)]
        <3>1. CASE ExchangeEnds(e)
            <4>1. round' = [round EXCEPT ![e] = round[e] + 1] /\ round[e] + 1 \in 1..(Rounds + 1)
                BY <1>1, <1>2, <1>4, <3>1
            <4> QED BY <1>1, <3>1, <4>1
        <3>2. CASE ~ExchangeEnds(e)
            BY <1>1, <1>4, <3>2
        <3> QED BY <3>1, <3>2
    <2>4. Turn(e)
        BY <2>1, <2>2, <2>3 DEF Turn
    <2>5. pc'[e] \in {"send", "receive"} => round'[e] \in 1..Rounds
        BY <1>1, <1>2, <2>1, <2>2, <2>3
    <2>6. Looping'
        BY <1>2, <1>4, <2>1, <2>2, <2>3, <2>5 DEF Inv, Looping, Fine
    <2> QED BY <1>0, <1>1, <1>4, <2>2, <2>3, <2>4, <2>6
<1> QED BY <1>3, <1>4 DEF Transfer

\* SendAll and ReceiveExact after a call came back empty.
LEMMA GivesUp ==
    ASSUME Inv, NEW e \in Ends, pc[e] \in {"send", "receive"}, NEW r, r.count = 0,
           Transfer(e, r), Caused(r), r.error # "interrupted",
           flight' = flight, buffer' = buffer, UNCHANGED <<connection, sendShut, receiveShut>>,
           failures' \in 0..MaxFailures, interrupts' \in 0..MaxInterrupts
    PROVE  Inv'
<1> DEFINE said == IF r.error = "none" THEN "io_error" ELSE r.error
<1>1. said \in (CallErrors \cup {"io_error"}) \ {"none"}
    BY DEF Caused, CallErrors
<1>2. error' = [error EXCEPT ![e] = said] /\ pc' = [pc EXCEPT ![e] = "shutdown"]
      /\ UNCHANGED <<round, offset>>
    BY DEF Transfer
<1>3. r.error \in {"failed", "timed_out"} => said = r.error
    OBVIOUS
<1> HIDE DEF said
<1>4. /\ error'[e] = said /\ pc'[e] = "shutdown" /\ ~Fine(e)'
      /\ \A p \in Ends \ {e} : error'[p] = error[p] /\ pc'[p] = pc[p] /\ (Fine(p)' <=> Fine(p))
      /\ error' \in [Ends -> CallErrors \cup {"none", "io_error"}]
      /\ pc' \in [Ends -> {"send", "receive", "shutdown", "join", "done"}]
    BY <1>1, <1>2 DEF Inv, TypeOK, Fine
<1>5. Fine(e)
    BY DEF Inv, Looping
<1>6. TypeOK' /\ DataType'
    BY <1>2, <1>4 DEF Inv, TypeOK, DataType, Capacity, Bytes
<1>7. Looping'
    BY <1>2, <1>4 DEF Inv, Looping
<1>8. ShutsAreErrors'
    BY <1>4, <1>5 DEF Inv, ShutsAreErrors, TypeOK
<1>9. CauseIsReported'
    <2>1. CASE r.error \in {"failed", "timed_out"}
        BY <1>3, <1>4, <2>1 DEF CauseIsReported
    <2>2. CASE sendShut \cup receiveShut # {}
        <3>1. PICK p \in Ends : error[p] \in {"failed", "timed_out"}
            BY <2>2 DEF Inv, ShutsAreErrors, CauseIsReported, TypeOK, Fine
        <3>2. p # e
            BY <1>5, <3>1 DEF Fine
        <3> QED BY <1>4, <3>1, <3>2 DEF CauseIsReported
    <2> QED BY <2>1, <2>2 DEF Caused
<1>10. Exchange'
    <2>1. CASE e = "client"
        BY <1>4, <2>1 DEF Exchange
    <2>2. CASE e = "server"
        <3>1. pc'["client"] = pc["client"] /\ (Fine("client")' <=> Fine("client")) /\ ~Fine("server")'
            BY <1>4, <2>2, EndsFacts
        <3>2. ClientSending => ClientSending'
            BY <1>2, <3>1 DEF ClientSending, Holds
        <3>3. ClientReceiving => ClientReceiving'
            BY <1>2, <3>1 DEF ClientReceiving, Holds, Piece
        <3>4. ClientDone => ClientDone'
            BY <1>2, <3>1 DEF ClientDone, Holds
        <3> QED BY <3>1, <3>2, <3>3, <3>4 DEF Inv, Exchange
    <2> QED BY <2>1, <2>2, EndsFacts
<1> QED BY <1>6, <1>7, <1>8, <1>9, <1>10 DEF Inv

-----------------------------------------------------------------------------
\* More of the same message behind a piece of it.
LEMMA PieceExtends ==
    ASSUME NEW s, NEW t, NEW more, NEW r, NEW from \in Nat, NEW to \in Nat, NEW n \in Nat, Len(s) \in Nat,
           Piece(s, r, from, to), Run(more, r, to, n),
           Len(t) = Len(s) + n, Adds(s, t, Len(s), n, more)
    PROVE  Piece(t, r, from, to + n)
<1> USE DEF Adds, Run
<1>1. Len(s) = to - from /\ \A i \in 1..Len(s) : s[i] = <<r, from + i>>
    BY DEF Piece
<1>2. Len(t) = (to + n) - from
    BY <1>1
<1>3. ASSUME NEW i \in 1..Len(t) PROVE t[i] = <<r, from + i>>
    <2>1. CASE i <= Len(s)
        BY <1>1, <2>1
    <2>2. CASE i > Len(s)
        <3>1. PICK j \in 1..n : i = Len(s) + j
            <4>1. i - Len(s) \in 1..n /\ i = Len(s) + (i - Len(s))
                BY <2>2
            <4> QED BY <4>1
        <3>2. to + j = from + i
            BY <1>1, <3>1
        <3> QED BY <3>1, <3>2
    <2> QED BY <2>1, <2>2
<1> QED BY <1>2, <1>3 DEF Piece

\* A piece without its first n bytes.
LEMMA PieceShrinks ==
    ASSUME NEW s, NEW t, NEW r, NEW from \in Nat, NEW to \in Nat, Len(s) \in Nat, NEW n \in 0..Len(s),
           Piece(s, r, from, to), Len(t) = Len(s) - n,
           Part(s, t, n, Len(s) - n)
    PROVE  Piece(t, r, from + n, to)
<1> USE DEF Part
<1>1. Len(s) = to - from /\ \A i \in 1..Len(s) : s[i] = <<r, from + i>>
    BY DEF Piece
<1>2. Len(t) = to - (from + n)
    BY <1>1
<1>3. ASSUME NEW i \in 1..Len(t) PROVE t[i] = <<r, (from + n) + i>>
    <2>1. n + i \in 1..Len(s) /\ from + (n + i) = (from + n) + i
        OBVIOUS
    <2> QED BY <1>1, <2>1
<1> QED BY <1>2, <1>3 DEF Piece

\* A buffer that takes n bytes of a piece behind the a it has.
LEMMA BufferGrows ==
    ASSUME NEW old, NEW new, NEW s, NEW r, NEW to, NEW a \in Nat, NEW n \in Nat,
           Len(s) \in Nat, n <= Len(s), Piece(s, r, a, to), Has(old, r, a), Adds(old, new, a, n, s)
    PROVE  Has(new, r, a + n)
<1> USE DEF Has, Adds
<1> SUFFICES ASSUME NEW i \in 1..(a + n) PROVE new[i] = <<r, i>>
    OBVIOUS
<1>1. CASE i <= a
    BY <1>1
<1>2. CASE i > a
    <2>1. PICK j \in 1..n : i = a + j
        <3>1. i - a \in 1..n /\ i = a + (i - a)
            BY <1>2
        <3> QED BY <3>1
    <2>2. j \in 1..Len(s)
        BY <2>1
    <2>3. s[j] = <<r, a + j>>
        BY <2>2 DEF Piece
    <2> QED BY <2>1, <2>3
<1> QED BY <1>1, <1>2

\* The beginning of a part.
LEMMA PartBegins ==
    ASSUME NEW s, NEW t, NEW k, NEW m \in Nat, NEW n \in 0..m, Part(s, t, k, m)
    PROVE  Part(s, t, k, n)
BY DEF Part

\* Only a connection that is empty in a direction has an empty piece there.
LEMMA PieceEnds ==
    ASSUME NEW s \in Seq(Bytes), NEW r, NEW to \in Nat
    PROVE  /\ Piece(s, r, to, to) => s = <<>>
           /\ s = <<>> => Piece(s, r, to, to)
BY EmptySeq DEF Piece

LEMMA Within ==
    ASSUME NEW a \in Nat, NEW n \in Nat, NEW m \in Nat, a + n <= m
    PROVE  \A i \in 1..n : a + i \in 1..m
OBVIOUS

LEMMA Numbers ==
    ASSUME Inv
    PROVE  /\ MessageBytes \in Nat \ {0} /\ Rounds \in Nat \ {0} /\ 0 \in 0..MessageBytes
           /\ \A e \in Ends : /\ round[e] \in 1..(Rounds + 1) /\ offset[e] \in 0..(MessageBytes - 1)
                              /\ offset[e] \in Nat
                              /\ flight[e] \in Seq(Bytes) /\ Len(flight[e]) \in Nat
<1>1. MessageBytes \in Nat \ {0} /\ Rounds \in Nat \ {0}
    BY RoundTripsAssumption
<1>2. \A e \in Ends : round[e] \in 1..(Rounds + 1) /\ offset[e] \in 0..(MessageBytes - 1)
    BY DEF Inv, TypeOK
<1>3. \A e \in Ends : flight[e] \in Seq(Bytes) /\ Len(flight[e]) \in Nat
    BY FlightFacts DEF Inv
<1> QED BY <1>1, <1>2, <1>3

\* The client sends n more bytes of its request, the a-th being the last before them.
LEMMA ClientSends ==
    ASSUME Inv, pc["client"] = "send", NEW n \in Nat \ {0},
           NEW r, r = round["client"], NEW a, a = offset["client"],
           flight'["server"] = flight["server"],
           Len(flight'["client"]) = Len(flight["client"]) + n,
           NEW bytes, Adds(flight["client"], flight'["client"], Len(flight["client"]), n, bytes),
           Run(bytes, r, a, n),
           UNCHANGED <<buffer, error>>,
           Stays("server"), Advances("client", n)
    PROVE  Exchange'
<1> USE EndsFacts DEF Advances, Stays
<1>1. ClientSending /\ Fine("client")
    BY DEF Inv, Looping, Exchange, ClientReceiving, ClientDone
<1>2. Fine("server") => ServerReceiving(r, a + n)'
    <2> SUFFICES ASSUME Fine("server") PROVE ServerReceiving(r, a + n)'
        OBVIOUS
    <2>1. ServerReceiving(r, a)
        BY <1>1 DEF ClientSending
    <2>2. /\ a \in Nat /\ offset["server"] \in Nat /\ Len(flight["client"]) \in Nat /\ n \in Nat
          /\ Piece(flight["client"], r, offset["server"], a)
        BY <2>1, Numbers DEF ServerReceiving
    <2>3. Piece(flight'["client"], r, offset["server"], a + n)
        BY <2>2, PieceExtends
    <2> QED BY <2>1, <2>3 DEF ServerReceiving, Holds, Piece
<1>3. /\ Fine("server")' <=> Fine("server")
      /\ flight'["server"] = <<>> /\ r > 1 => Holds("client", r - 1, MessageBytes)'
    BY <1>1 DEF ClientSending, Holds, Fine
<1>4. CASE offset'["client"] = a + n /\ pc'["client"] = pc["client"] /\ round'["client"] = r
    <2>1. ClientSending'
        BY <1>1, <1>2, <1>3, <1>4 DEF ClientSending
    <2> QED BY <2>1 DEF Exchange
<1>5. CASE a + n = MessageBytes /\ offset'["client"] = 0 /\ Turn("client")
    <2>1. pc'["client"] = "receive" /\ round'["client"] = r
        BY <1>5 DEF Turn, ExchangeEnds, OtherHalf
    <2>2. Piece(flight'["server"], r, 0, 0)
        BY <1>1, Numbers, PieceEnds DEF ClientSending
    <2>3. Holds("client", r, 0)'
        BY DEF Holds, Has
    <2>4. ClientReceiving'
        BY <1>2, <1>3, <1>5, <2>1, <2>2, <2>3, Numbers DEF ClientReceiving
    <2> QED BY <2>4 DEF Exchange
<1> QED BY <1>4, <1>5

\* The client receives n more bytes of the echo, behind the first a.
LEMMA ClientReceives ==
    ASSUME Inv, pc["client"] = "receive", NEW n \in Nat \ {0},
           NEW r, r = round["client"], NEW a, a = offset["client"],
           NEW incoming, incoming = flight["server"], n <= Len(incoming),
           flight'["client"] = flight["client"], flight'["server"] \in Seq(Bytes),
           Len(flight'["server"]) = Len(incoming) - n,
           Part(incoming, flight'["server"], n, Len(incoming) - n),
           Adds(buffer["client"], buffer'["client"], a, n, incoming),
           buffer'["server"] = buffer["server"], UNCHANGED error,
           Stays("server"), Advances("client", n)
    PROVE  Exchange'
<1> USE EndsFacts DEF Advances, Stays
<1>1. ClientReceiving /\ Fine("client") /\ r \in 1..Rounds
    BY DEF Inv, Looping, Exchange, ClientSending, ClientDone
<1>2. /\ a \in Nat /\ a \in 0..(MessageBytes - 1) /\ Len(incoming) \in Nat
      /\ MessageBytes \in Nat \ {0} /\ Rounds \in Nat \ {0}
    BY Numbers
<1>3. PICK k \in 0..MessageBytes :
          /\ Piece(incoming, r, a, k)
          /\ Fine("server") =>
                (ServerReceiving(r, MessageBytes) /\ k = 0) \/ ServerSending(r, k) \/ ServerAhead(r, k)
    BY <1>1 DEF ClientReceiving
<1>4. Piece(flight'["server"], r, a + n, k)
    <2>1. k \in Nat /\ n \in 0..Len(incoming)
        BY <1>2, <1>3
    <2> QED BY <1>2, <1>3, <2>1, PieceShrinks
<1>5. Holds("client", r, a + n)'
    <2>1. Has(buffer["client"], r, a)
        BY <1>1 DEF ClientReceiving, Holds
    <2>2. Has(buffer'["client"], r, a + n)
        BY <1>2, <1>3, <2>1, BufferGrows
    <2> QED BY <2>2 DEF Holds
<1>6. /\ Fine("server")' <=> Fine("server")
      /\ \A to : ServerReceiving(r, to) => ServerReceiving(r, to)'
      /\ \A x : ServerSending(r, x) => ServerSending(r, x)'
      /\ \A x : ServerAhead(r, x) => ServerAhead(r, x)'
    BY DEF Fine, ServerReceiving, ServerSending, ServerAhead, Holds, Piece
<1>7. CASE offset'["client"] = a + n /\ pc'["client"] = pc["client"] /\ round'["client"] = r
    <2>1. ClientReceiving'
        BY <1>1, <1>3, <1>4, <1>5, <1>6, <1>7 DEF ClientReceiving
    <2> QED BY <2>1 DEF Exchange
<1>8. CASE a + n = MessageBytes /\ offset'["client"] = 0 /\ Turn("client")
    <2>1. k = MessageBytes /\ flight'["server"] = <<>>
        <3>1. Len(incoming) = k - a
            BY <1>3 DEF Piece
        <3>2. k = MessageBytes
            BY <1>2, <1>3, <1>8, <3>1
        <3> QED BY <1>2, <1>4, <1>8, <3>2, PieceEnds
    <2>2. Fine("server") => ServerAhead(r, MessageBytes)
        BY <1>2, <1>3, <2>1, Numbers DEF ServerSending
    <2>3. Holds("client", r, MessageBytes)'
        BY <1>5, <1>8
    <2>4. CASE r = Rounds
        <3>1. pc'["client"] = "join" /\ round'["client"] = Rounds + 1
            BY <1>8, <2>4 DEF Turn, ExchangeEnds
        <3>2. ClientDone'
            BY <1>6, <2>1, <2>2, <2>3, <2>4, <3>1 DEF ClientDone, ServerAhead
        <3> QED BY <3>2 DEF Exchange
    <2>5. CASE r # Rounds
        <3>1. pc'["client"] = "send" /\ round'["client"] = r + 1
            BY <1>8, <2>5 DEF Turn, ExchangeEnds, OtherHalf
        <3>2. Fine("server") => ServerReceiving(r + 1, 0)'
            <4> SUFFICES ASSUME Fine("server") PROVE ServerReceiving(r + 1, 0)'
                OBVIOUS
            <4>1. /\ pc'["server"] = "receive" /\ round'["server"] = r + 1 /\ offset'["server"] = 0
                  /\ flight'["client"] = <<>>
                BY <2>2, <2>5 DEF ServerAhead
            <4>2. Piece(<<>>, r + 1, 0, 0)
                BY EmptySeq, PieceEnds
            <4> QED BY <4>1, <4>2 DEF ServerReceiving, Holds, Has
        <3>3. (r + 1) - 1 = r
            BY <1>1
        <3>4. ClientSending'
            BY <1>6, <1>8, <2>1, <2>3, <3>1, <3>2, <3>3 DEF ClientSending
        <3> QED BY <3>4 DEF Exchange
    <2> QED BY <2>4, <2>5
<1> QED BY <1>7, <1>8

\* The server receives n more bytes of the request, behind the first a.
LEMMA ServerReceives ==
    ASSUME Inv, pc["server"] = "receive", NEW n \in Nat \ {0},
           NEW q, q = round["server"], NEW a, a = offset["server"],
           NEW incoming, incoming = flight["client"], n <= Len(incoming),
           flight'["server"] = flight["server"], flight'["client"] \in Seq(Bytes),
           Len(flight'["client"]) = Len(incoming) - n,
           Part(incoming, flight'["client"], n, Len(incoming) - n),
           Adds(buffer["server"], buffer'["server"], a, n, incoming),
           buffer'["client"] = buffer["client"], UNCHANGED error,
           Stays("client"), Advances("server", n)
    PROVE  Exchange'
<1> USE EndsFacts DEF Advances, Stays
<1>1. /\ a \in Nat /\ a \in 0..(MessageBytes - 1) /\ Len(incoming) \in Nat
      /\ MessageBytes \in Nat \ {0} /\ n \in Nat /\ n \in 0..Len(incoming)
    BY Numbers
<1>2. Fine("server") /\ (Fine("client")' <=> Fine("client")) /\ (Fine("server")' <=> Fine("server"))
    BY DEF Inv, Looping, Fine
<1>3. ASSUME NEW r, NEW to \in Nat, ServerReceiving(r, to)
      PROVE  /\ q = r /\ a + n <= to
             /\ Piece(flight'["client"], r, a + n, to) /\ Holds("server", r, a + n)'
    <2>1. Piece(incoming, r, a, to) /\ Has(buffer["server"], r, a) /\ q = r
        BY <1>3 DEF ServerReceiving, Holds
    <2>2. a + n <= to
        BY <1>1, <2>1 DEF Piece
    <2>3. Piece(flight'["client"], r, a + n, to)
        BY <1>1, <2>1, PieceShrinks
    <2>4. Has(buffer'["server"], r, a + n)
        BY <1>1, <2>1, BufferGrows
    <2> QED BY <2>1, <2>2, <2>3, <2>4 DEF Holds
<1>4. CASE Fine("client") /\ ClientSending
    <2> DEFINE r == round["client"]
    <2> DEFINE c == offset["client"]
    <2>1. ServerReceiving(r, c) /\ c \in Nat /\ c < MessageBytes
        BY <1>2, <1>4, Numbers DEF ClientSending
    <2>2. /\ q = r /\ a + n <= c
          /\ Piece(flight'["client"], r, a + n, c) /\ Holds("server", r, a + n)'
        BY <1>3, <2>1
    <2>3. offset'["server"] = a + n /\ pc'["server"] = "receive" /\ round'["server"] = r
        BY <1>1, <2>1, <2>2
    <2>4. ServerReceiving(round["client"], offset["client"])'
        BY <2>2, <2>3 DEF ServerReceiving, Holds, Piece
    <2>5. ClientSending'
        BY <1>2, <1>4, <2>4 DEF ClientSending, Holds
    <2> QED BY <2>5 DEF Exchange
<1>5. CASE Fine("client") /\ ClientReceiving
    <2>1. PICK r \in Nat : r = round["client"]
        BY Numbers
    <2>2. PICK k \in 0..MessageBytes :
              /\ Piece(flight["server"], r, offset["client"], k)
              /\ (ServerReceiving(r, MessageBytes) /\ k = 0) \/ ServerSending(r, k) \/ ServerAhead(r, k)
        BY <1>2, <1>5, <2>1 DEF ClientReceiving
    <2>3. ServerReceiving(r, MessageBytes) /\ k = 0
        <3>1. ~ServerSending(r, k)
            BY DEF ServerSending
        <3>2. ~ServerAhead(r, k)
            <4>1. incoming # <<>>
                BY <1>1, EmptySeq
            <4> QED BY <4>1 DEF ServerAhead
        <3> QED BY <2>2, <3>1, <3>2
    <2>4. /\ q = r /\ Piece(flight'["client"], r, a + n, MessageBytes)
          /\ Holds("server", r, a + n)'
        BY <1>1, <1>3, <2>3
    <2>5. ServerReceiving(r, MessageBytes)' \/ ServerSending(r, 0)'
        <3>1. CASE offset'["server"] = a + n /\ pc'["server"] = pc["server"] /\ round'["server"] = q
            BY <2>4, <3>1 DEF ServerReceiving, Holds, Piece
        <3>2. CASE a + n = MessageBytes /\ offset'["server"] = 0 /\ Turn("server")
            <4>1. pc'["server"] = "send" /\ round'["server"] = r
                BY <2>4, <3>2 DEF Turn, ExchangeEnds, OtherHalf
            <4>2. flight'["client"] = <<>>
                BY <1>1, <2>4, <3>2, PieceEnds
            <4> QED BY <2>4, <3>2, <4>1, <4>2 DEF ServerSending, Holds
        <3> QED BY <3>1, <3>2
    <2>6. ClientReceiving'
        <3>1. pc'["client"] = "receive" /\ Holds("client", r, offset["client"])' /\ round'["client"] = r
            BY <1>5, <2>1 DEF ClientReceiving, Holds
        <3>2. Piece(flight'["server"], r, offset'["client"], k)
            BY <2>2
        <3> QED BY <2>1, <2>3, <2>5, <3>1, <3>2 DEF ClientReceiving
    <2> QED BY <2>6 DEF Exchange
<1>6. ~(Fine("client") /\ ClientDone)
    BY <1>2 DEF ClientDone
<1>7. CASE ~Fine("client")
    BY <1>2, <1>7 DEF Exchange
<1> QED BY <1>4, <1>5, <1>6, <1>7 DEF Inv, Exchange

\* The server sends n more bytes of the echo, behind the first a.
LEMMA ServerSends ==
    ASSUME Inv, pc["server"] = "send", NEW n \in Nat \ {0},
           NEW q, q = round["server"], NEW a, a = offset["server"],
           NEW outgoing, outgoing = flight["server"],
           flight'["client"] = flight["client"],
           Len(flight'["server"]) = Len(outgoing) + n,
           NEW bytes, Adds(outgoing, flight'["server"], Len(outgoing), n, bytes),
           Part(buffer["server"], bytes, a, n),
           UNCHANGED <<buffer, error>>,
           Stays("client"), Advances("server", n)
    PROVE  Exchange'
<1> USE EndsFacts DEF Advances, Stays
<1>1. /\ a \in Nat /\ Len(outgoing) \in Nat /\ MessageBytes \in Nat \ {0}
      /\ a + n \in 0..MessageBytes /\ offset["client"] \in Nat /\ n \in Nat
    BY Numbers
<1>2. Fine("server") /\ (Fine("client")' <=> Fine("client")) /\ (Fine("server")' <=> Fine("server"))
    BY DEF Inv, Looping, Fine
<1>3. ~ClientSending /\ ~ClientDone
    BY <1>2 DEF ClientSending, ClientDone, ServerReceiving
<1>4. CASE Fine("client") /\ ClientReceiving
    <2>1. PICK r \in Nat : r = round["client"]
        BY Numbers
    <2>2. PICK k \in 0..MessageBytes :
              /\ Piece(outgoing, r, offset["client"], k)
              /\ (ServerReceiving(r, MessageBytes) /\ k = 0) \/ ServerSending(r, k) \/ ServerAhead(r, k)
        BY <1>2, <1>4, <2>1 DEF ClientReceiving
    <2>3. ServerSending(r, k) /\ k = a /\ q = r /\ flight["client"] = <<>>
        BY <2>2 DEF ServerReceiving, ServerSending, ServerAhead
    <2>4. Run(bytes, r, a, n)
        <3>1. Has(buffer["server"], r, MessageBytes)
            BY <2>3 DEF ServerSending, Holds
        <3>2. a + n <= MessageBytes /\ MessageBytes \in Nat
            BY <1>1
        <3>3. \A i \in 1..n : a + i \in 1..MessageBytes
            BY <1>1, <3>2, Within
        <3> QED BY <3>1, <3>3 DEF Has, Part, Run
    <2>5. Piece(flight'["server"], r, offset["client"], a + n)
        BY <1>1, <2>2, <2>3, <2>4, PieceExtends
    <2>6. ServerSending(r, a + n)' \/ ServerAhead(r, a + n)'
        <3>1. CASE offset'["server"] = a + n /\ pc'["server"] = pc["server"] /\ round'["server"] = q
            BY <2>3, <3>1 DEF ServerSending, Holds
        <3>2. CASE a + n = MessageBytes /\ offset'["server"] = 0 /\ Turn("server")
            <4>1. round'["server"] = r + 1 /\ pc'["server"] = IF r = Rounds THEN "join" ELSE "receive"
                BY <2>3, <3>2 DEF Turn, ExchangeEnds, OtherHalf
            <4> QED BY <2>3, <3>2, <4>1 DEF ServerAhead
        <3> QED BY <3>1, <3>2
    <2>7. ClientReceiving'
        <3>1. pc'["client"] = "receive" /\ Holds("client", r, offset["client"])' /\ round'["client"] = r
            BY <1>4, <2>1 DEF ClientReceiving, Holds
        <3>2. Piece(flight'["server"], r, offset'["client"], a + n)
            BY <2>5
        <3> QED BY <1>1, <2>1, <2>6, <3>1, <3>2 DEF ClientReceiving
    <2> QED BY <2>7 DEF Exchange
<1>5. CASE ~Fine("client")
    BY <1>2, <1>5 DEF Exchange
<1> QED BY <1>3, <1>4, <1>5 DEF Inv, Exchange

-----------------------------------------------------------------------------
\* A call that is retried changes nothing the threads see.
LEMMA Kept ==
    ASSUME Inv, flight' = flight, UNCHANGED <<connection, sendShut, receiveShut, threads>>,
           failures' \in 0..MaxFailures, interrupts' \in 0..MaxInterrupts
    PROVE  Inv'
<1>1. UNCHANGED <<pc, round, offset, buffer, error>>
    BY DEF threads
<1>2. TypeOK' /\ DataType'
    BY <1>1 DEF Inv, TypeOK, DataType, Capacity
<1>3. Looping' /\ ShutsAreErrors' /\ CauseIsReported'
    BY <1>1 DEF Inv, Looping, ShutsAreErrors, CauseIsReported, Fine
<1>4. Exchange'
    BY <1>1 DEF Inv, Exchange, ClientSending, ClientReceiving, ClientDone, Fine, Holds,
                ServerReceiving, ServerSending, ServerAhead, Piece
<1> QED BY <1>2, <1>3, <1>4 DEF Inv

\* A call that moved bytes changes no error and no shutdown.
LEMMA Progressed ==
    ASSUME Inv, error' = error, UNCHANGED <<connection, sendShut, receiveShut>>,
           pc' \in [Ends -> {"send", "receive", "shutdown", "join", "done"}],
           round' \in [Ends -> 1..(Rounds + 1)], offset' \in [Ends -> 0..(MessageBytes - 1)],
           failures' \in 0..MaxFailures, interrupts' \in 0..MaxInterrupts,
           flight' \in [Ends -> Seq(Bytes)], \A e \in Ends : Len(flight'[e]) <= Capacity,
           buffer' \in [Ends -> [1..MessageBytes -> Bytes]],
           Looping', Exchange'
    PROVE  Inv'
<1>1. Capacity' = Capacity
    BY DEF Capacity
<1>2. TypeOK' /\ DataType'
    BY <1>1 DEF Inv, TypeOK, DataType, Bytes
<1>3. ShutsAreErrors' /\ CauseIsReported'
    BY DEF Inv, ShutsAreErrors, CauseIsReported, Fine
<1> QED BY <1>2, <1>3 DEF Inv

\* SendAll keeps the invariant, whatever a Send does (bench_tcp.cpp:131-147).
LEMMA SendAllStep ==
    ASSUME Inv, NEW e \in Ends, NEW message,
           message = IF e = "client" THEN Request(round[e]) ELSE buffer[e],
           SendAll(e, message)
    PROVE  Inv'
<1> USE EndsFacts
<1> DEFINE bytes == Rest(e, message)
<1>1. pc[e] = "send" /\ buffer' = buffer /\ Fine(e) /\ round[e] \in 1..Rounds
    BY DEF SendAll, Inv, Looping
<1>2. MessageBytes \in Nat \ {0} /\ offset[e] \in 0..(MessageBytes - 1) /\ TypeOK /\ DataType
    BY Numbers DEF Inv
<1>3. message \in [1..MessageBytes -> Bytes]
    <2>1. Request(round[e]) \in [1..MessageBytes -> Bytes]
        BY <1>1, <1>2 DEF Request, Bytes
    <2>2. buffer[e] \in [1..MessageBytes -> Bytes]
        BY <1>2 DEF DataType
    <2> QED BY <2>1, <2>2
<1>4. /\ bytes \in Seq(Bytes) /\ Len(bytes) = MessageBytes - offset[e]
      /\ Part(message, bytes, offset[e], MessageBytes - offset[e])
    BY <1>2, <1>3, RestFacts
<1>5. PICK r \in Results(MessageBytes) :
          /\ NativeSend(e, bytes, r)
          /\ UNCHANGED <<connection, sendShut, receiveShut>>
          /\ \/ ~Retried(r) /\ Transfer(e, r)
             \/ r.count = 0 /\ UNCHANGED <<pc, round, offset, error>>
    <2>1. CASE SendRetry(e, bytes) /\ UNCHANGED <<pc, round, offset, error>>
        <3>1. PICK r \in Results(Len(bytes)) : NativeSend(e, bytes, r) /\ Retried(r)
            BY <2>1 DEF SendRetry
        <3>2. r.count = 0 /\ r \in Results(MessageBytes)
            BY <3>1 DEF Results, Retried
        <3> QED BY <2>1, <3>1, <3>2 DEF SendRetry
    <2>2. CASE \E r \in Results(MessageBytes) : Send(e, bytes, r) /\ Transfer(e, r)
        BY <2>2 DEF Send
    <2> QED BY <2>1, <2>2 DEF SendAll
<1> HIDE DEF bytes
<1>6. /\ failures' \in 0..MaxFailures /\ interrupts' \in 0..MaxInterrupts
      /\ flight' \in [Ends -> Seq(Bytes)]
      /\ flight'[Peer(e)] = flight[Peer(e)]
      /\ r.count \in 0..Len(bytes)
      /\ Len(flight'[e]) = Len(flight[e]) + r.count /\ Len(flight'[e]) <= Capacity
      /\ Adds(flight[e], flight'[e], Len(flight[e]), r.count, bytes)
      /\ r.count = 0 => flight' = flight /\ Caused(r)
    BY <1>2, <1>4, <1>5, SendEffect
<1>7. CASE r.count = 0
    <2>1. CASE ~Retried(r) /\ Transfer(e, r)
        BY <1>1, <1>5, <1>6, <1>7, <2>1, GivesUp DEF Retried
    <2>2. CASE UNCHANGED <<pc, round, offset, error>>
        BY <1>1, <1>5, <1>6, <1>7, <2>2, Kept DEF threads
    <2> QED BY <1>5, <2>1, <2>2
<1>8. CASE r.count # 0
    <2> DEFINE n == r.count
    <2>1. n \in Nat \ {0} /\ Transfer(e, r)
        BY <1>2, <1>4, <1>5, <1>6, <1>8
    <2>2. /\ error' = error
          /\ Stays(Peer(e)) /\ Advances(e, n)
          /\ pc' \in [Ends -> {"send", "receive", "shutdown", "join", "done"}]
          /\ round' \in [Ends -> 1..(Rounds + 1)] /\ offset' \in [Ends -> 0..(MessageBytes - 1)]
          /\ Looping'
        BY <1>1, <2>1, Moves
    <2>3. Part(message, bytes, offset[e], n)
        <3>1. MessageBytes - offset[e] \in Nat /\ n \in 0..(MessageBytes - offset[e])
            BY <1>2, <1>4, <1>6
        <3> HIDE DEF n
        <3> QED BY <1>4, <3>1, PartBegins
    <2>4. \A i \in 1..n : offset[e] + i \in 1..MessageBytes
        <3>1. offset[e] + n <= MessageBytes /\ MessageBytes \in Nat /\ offset[e] \in Nat /\ n \in Nat
            BY <1>2, <1>4, <1>6, <2>1
        <3> HIDE DEF n
        <3> QED BY <3>1, Within
    <2> HIDE DEF n
    <2>5. Exchange'
        <3>1. CASE e = "client"
            <4>1. Run(bytes, round["client"], offset["client"], n)
                BY <2>3, <2>4, <3>1 DEF Request, Part, Run
            <4> QED BY <1>1, <1>6, <2>1, <2>2, <3>1, <4>1, ClientSends DEF n
        <3>2. CASE e = "server"
            BY <1>1, <1>6, <2>1, <2>2, <2>3, <3>2, ServerSends DEF n
        <3> QED BY <3>1, <3>2
    <2>6. \A p \in Ends : Len(flight'[p]) <= Capacity
        BY <1>2, <1>6 DEF TypeOK
    <2> QED BY <1>1, <1>2, <1>5, <1>6, <2>2, <2>5, <2>6, Progressed DEF DataType
<1> QED BY <1>7, <1>8

\* What ReceiveExact does to the buffer.
Written(e, k, n, arriving) ==
    buffer' = [buffer EXCEPT ![e] = [i \in 1..MessageBytes |->
                  IF i - k \in 1..n THEN arriving[i - k] ELSE @[i]]]

LEMMA Buffered ==
    ASSUME DataType, NEW e \in Ends, NEW k \in 0..(MessageBytes - 1), NEW n \in 0..(MessageBytes - k),
           MessageBytes \in Nat, NEW incoming \in Seq(Bytes), NEW arriving,
           n <= Len(incoming), Part(incoming, arriving, 0, n),
           Written(e, k, n, arriving)
    PROVE  /\ buffer' \in [Ends -> [1..MessageBytes -> Bytes]]
           /\ buffer'[Peer(e)] = buffer[Peer(e)]
           /\ Adds(buffer[e], buffer'[e], k, n, incoming)
           /\ n = 0 => buffer' = buffer
<1> DEFINE new == [i \in 1..MessageBytes |-> IF i - k \in 1..n THEN arriving[i - k] ELSE buffer[e][i]]
<1>1. buffer' = [buffer EXCEPT ![e] = new] /\ buffer \in [Ends -> [1..MessageBytes -> Bytes]]
    BY DEF DataType, Written
<1>2. Peer(e) \in Ends /\ Peer(e) # e
    BY DEF Ends, Peer
<1>3. /\ Len(incoming) \in Nat /\ \A i \in 1..Len(incoming) : incoming[i] \in Bytes
    BY LenProperties, ElementOfSeq
<1>4. \A j \in 1..n : arriving[j] = incoming[j] /\ incoming[j] \in Bytes
    <2> SUFFICES ASSUME NEW j \in 1..n PROVE arriving[j] = incoming[j] /\ incoming[j] \in Bytes
        OBVIOUS
    <2>1. j \in 1..Len(incoming) /\ 0 + j = j
        BY <1>3
    <2> QED BY <1>3, <2>1 DEF Part
<1>5. new \in [1..MessageBytes -> Bytes]
    BY <1>1, <1>4
<1>6. Adds(buffer[e], new, k, n, incoming)
    <2>1. ASSUME NEW i \in 1..k PROVE new[i] = buffer[e][i]
        <3>1. i \in 1..MessageBytes /\ i - k \notin 1..n
            OBVIOUS
        <3> QED BY <3>1
    <2>2. ASSUME NEW i \in 1..n PROVE new[k + i] = incoming[i]
        <3>1. k + i \in 1..MessageBytes /\ (k + i) - k = i
            OBVIOUS
        <3> QED BY <1>4, <3>1
    <2> QED BY <2>1, <2>2 DEF Adds
<1>7. n = 0 => new = buffer[e]
    BY <1>1, <1>5
<1> HIDE DEF new
<1> QED BY <1>1, <1>2, <1>5, <1>6, <1>7

\* ReceiveExact keeps it, whatever a Receive does (bench_tcp.cpp:131-147).
LEMMA ReceiveExactStep ==
    ASSUME Inv, NEW e \in Ends, ReceiveExact(e)
    PROVE  Inv'
<1> USE EndsFacts
<1> DEFINE missing == MessageBytes - offset[e]
<1> DEFINE p == Peer(e)
<1>1. pc[e] = "receive" /\ Fine(e) /\ round[e] \in 1..Rounds
    BY DEF ReceiveExact, Inv, Looping
<1>2. /\ MessageBytes \in Nat \ {0} /\ offset[e] \in 0..(MessageBytes - 1) /\ missing \in Nat
      /\ TypeOK /\ DataType /\ p \in Ends
    BY Numbers, FlightFacts DEF Inv
<1>3. CASE ReceiveRetry(e, missing) /\ UNCHANGED threads
    <2>1. PICK r \in Results(missing) : NativeReceive(e, missing, r) /\ Retried(r)
        BY <1>3 DEF ReceiveRetry
    <2>2. r.count = 0
        BY <2>1 DEF Results, Retried
    <2>3. flight' = flight /\ failures' \in 0..MaxFailures /\ interrupts' \in 0..MaxInterrupts
        BY <1>2, <2>1, <2>2, ReceiveEffect
    <2> QED BY <1>3, <2>3, Kept DEF ReceiveRetry
<1>4. CASE \E r \in Results(missing) :
              /\ Receive(e, missing, r)
              /\ Transfer(e, r)
              /\ buffer' = [buffer EXCEPT ![e] = [i \in 1..MessageBytes |->
                               IF i - offset[e] \in 1..r.count
                               THEN Arriving(e, r.count)[i - offset[e]] ELSE @[i]]]
    <2>1. PICK r \in Results(missing) :
              /\ NativeReceive(e, missing, r) /\ ~Retried(r)
              /\ UNCHANGED <<connection, sendShut, receiveShut>>
              /\ Transfer(e, r)
              /\ Written(e, offset[e], r.count, Arriving(e, r.count))
        BY <1>4 DEF Receive, Written
    <2>2. /\ failures' \in 0..MaxFailures /\ interrupts' \in 0..MaxInterrupts
          /\ flight' \in [Ends -> Seq(Bytes)]
          /\ flight'[e] = flight[e]
          /\ r.count \in 0..Len(flight[p]) /\ r.count <= missing
          /\ Len(flight'[p]) = Len(flight[p]) - r.count
          /\ Part(flight[p], flight'[p], r.count, Len(flight[p]) - r.count)
          /\ Part(flight[p], Arriving(e, r.count), 0, r.count)
          /\ r.count = 0 => flight' = flight /\ Caused(r)
        BY <1>2, <2>1, ReceiveEffect
    <2>3. /\ flight[p] \in Seq(Bytes) /\ Len(flight[p]) \in Nat
          /\ r.count \in 0..(MessageBytes - offset[e]) /\ r.count <= Len(flight[p])
        BY <1>2, <2>2, Numbers
    <2>4. /\ buffer' \in [Ends -> [1..MessageBytes -> Bytes]]
          /\ buffer'[p] = buffer[p]
          /\ Adds(buffer[e], buffer'[e], offset[e], r.count, flight[p])
          /\ r.count = 0 => buffer' = buffer
        BY <1>2, <2>1, <2>2, <2>3, Buffered
    <2>5. CASE r.count = 0
        BY <1>1, <2>1, <2>2, <2>4, <2>5, GivesUp DEF Retried
    <2>6. CASE r.count # 0
        <3> DEFINE n == r.count
        <3>1. n \in Nat \ {0}
            BY <2>3, <2>6
        <3>2. /\ error' = error
              /\ Stays(p) /\ Advances(e, n)
              /\ pc' \in [Ends -> {"send", "receive", "shutdown", "join", "done"}]
              /\ round' \in [Ends -> 1..(Rounds + 1)] /\ offset' \in [Ends -> 0..(MessageBytes - 1)]
              /\ Looping'
            BY <1>1, <2>1, <3>1, Moves
        <3>3. n <= Len(flight[p]) /\ flight'[p] \in Seq(Bytes)
            BY <1>2, <2>2, <2>3
        <3>4. \A q \in Ends : Len(flight'[q]) <= Capacity
            <4>1. Len(flight[p]) <= Capacity /\ Len(flight[e]) <= Capacity /\ Capacity \in Nat
                BY <1>2 DEF TypeOK, DataType
            <4>2. Len(flight'[p]) <= Capacity
                BY <2>2, <2>3, <4>1
            <4> QED BY <2>2, <4>1, <4>2 DEF Ends, Peer
        <3> HIDE DEF n
        <3>5. Exchange'
            <4>1. CASE e = "client"
                BY <1>1, <2>2, <2>4, <3>1, <3>2, <3>3, <4>1, ClientReceives DEF n
            <4>2. CASE e = "server"
                BY <1>1, <2>2, <2>4, <3>1, <3>2, <3>3, <4>2, ServerReceives DEF n
            <4> QED BY <4>1, <4>2
        <3> QED BY <2>1, <2>2, <2>4, <3>2, <3>4, <3>5, Progressed
    <2> QED BY <2>5, <2>6
<1> QED BY <1>3, <1>4 DEF ReceiveExact

\* A failing thread's Shutdown is for the other thread to notice (bench_tcp.cpp:169, 188).
LEMMA ShutdownStep ==
    ASSUME Inv, NEW e \in Ends, ShutdownOnError(e)
    PROVE  Inv'
<1> USE EndsFacts
<1>1. /\ pc[e] = "shutdown" /\ pc' = [pc EXCEPT ![e] = "join"] /\ ~Fine(e)
      /\ UNCHANGED <<round, offset, buffer, error, connection, flight, failures, interrupts>>
      /\ sendShut' = sendShut \cup {e} /\ receiveShut' = receiveShut \cup {e}
    BY DEF ShutdownOnError, Shutdown, Inv, Looping
<1>2. /\ pc' \in [Ends -> {"send", "receive", "shutdown", "join", "done"}]
      /\ pc'[e] = "join" /\ \A p \in Ends \ {e} : pc'[p] = pc[p]
      /\ \A p \in Ends : Fine(p)' <=> Fine(p)
    BY <1>1 DEF Inv, TypeOK, Fine
<1>3. TypeOK' /\ DataType'
    BY <1>1, <1>2 DEF Inv, TypeOK, DataType, Capacity
<1>4. Looping' /\ ShutsAreErrors' /\ CauseIsReported'
    <2>1. Looping'
        BY <1>1, <1>2 DEF Inv, Looping
    <2>2. ShutsAreErrors'
        BY <1>1, <1>2 DEF Inv, TypeOK, ShutsAreErrors
    <2>3. CauseIsReported'
        BY <1>1 DEF Inv, CauseIsReported
    <2> QED BY <2>1, <2>2, <2>3
<1>5. Exchange'
    <2>1. CASE e = "client"
        BY <1>1, <1>2, <2>1 DEF Exchange
    <2>2. CASE e = "server"
        <3>1. pc'["client"] = pc["client"] /\ ~Fine("server") /\ ~Fine("server")'
            BY <1>1, <1>2, <2>2
        <3>2. ClientSending => ClientSending'
            BY <1>1, <3>1 DEF ClientSending, Holds
        <3>3. ClientReceiving => ClientReceiving'
            BY <1>1, <3>1 DEF ClientReceiving, Holds, Piece
        <3>4. ClientDone => ClientDone'
            BY <1>1, <3>1 DEF ClientDone, Holds
        <3> QED BY <1>2, <3>2, <3>3, <3>4 DEF Inv, Exchange
    <2> QED BY <2>1, <2>2
<1> QED BY <1>3, <1>4, <1>5 DEF Inv

\* The threads end after their loops (bench_tcp.cpp:172, 189).
LEMMA JoinStep ==
    ASSUME Inv, NEW e \in Ends, Join(e)
    PROVE  Inv'
<1> USE EndsFacts
<1>1. /\ pc[e] = "join" /\ pc' = [pc EXCEPT ![e] = "done"]
      /\ UNCHANGED <<round, offset, buffer, error, connection, flight, sendShut, receiveShut, failures, interrupts>>
    BY DEF Join, stream
<1>2. /\ pc' \in [Ends -> {"send", "receive", "shutdown", "join", "done"}]
      /\ pc'[e] = "done" /\ \A p \in Ends \ {e} : pc'[p] = pc[p]
      /\ \A p \in Ends : Fine(p)' <=> Fine(p)
    BY <1>1 DEF Inv, TypeOK, Fine
<1>3. TypeOK' /\ DataType'
    BY <1>1, <1>2 DEF Inv, TypeOK, DataType, Capacity
<1>4. Looping' /\ ShutsAreErrors' /\ CauseIsReported'
    <2>1. Looping'
        BY <1>1, <1>2 DEF Inv, Looping
    <2>2. ShutsAreErrors'
        BY <1>1, <1>2 DEF Inv, TypeOK, ShutsAreErrors
    <2>3. CauseIsReported'
        BY <1>1 DEF Inv, CauseIsReported
    <2> QED BY <2>1, <2>2, <2>3
<1>5. Exchange'
    <2>1. CASE e = "client"
        <3>1. ~ClientSending /\ ~ClientReceiving
            BY <1>1, <2>1 DEF ClientSending, ClientReceiving
        <3>2. ClientDone => ClientDone'
            BY <1>1, <1>2, <2>1 DEF ClientDone, Holds
        <3> QED BY <1>2, <3>1, <3>2 DEF Inv, Exchange
    <2>2. CASE e = "server"
        <3>1. pc'["client"] = pc["client"] /\ pc["server"] = "join" /\ pc'["server"] = "done"
            BY <1>1, <1>2, <2>2
        <3>2. /\ \A r, to : ~ServerReceiving(r, to) /\ ~ServerSending(r, to)
              /\ \A r, k : ServerAhead(r, k) => ServerAhead(r, k)'
            BY <1>1, <3>1 DEF ServerReceiving, ServerSending, ServerAhead
        <3>3. ClientSending => ClientSending'
            BY <1>1, <1>2, <3>1, <3>2 DEF ClientSending, Holds
        <3>4. ClientReceiving => ClientReceiving'
            <4> SUFFICES ASSUME ClientReceiving PROVE ClientReceiving'
                OBVIOUS
            <4>1. PICK r : r = round["client"]
                OBVIOUS
            <4>2. PICK k \in 0..MessageBytes :
                      /\ Piece(flight["server"], r, offset["client"], k)
                      /\ Fine("server") => ServerAhead(r, k)
                BY <3>2, <4>1 DEF ClientReceiving
            <4>3. Fine("server")' => ServerAhead(r, k)'
                BY <1>2, <3>2, <4>2
            <4>4. Piece(flight'["server"], r, offset'["client"], k)
                BY <1>1, <4>2
            <4> QED BY <1>1, <3>1, <4>1, <4>3, <4>4 DEF ClientReceiving, Holds
        <3>5. ClientDone => ClientDone'
            BY <1>1, <1>2, <3>1 DEF ClientDone, Holds
        <3> QED BY <1>2, <3>3, <3>4, <3>5 DEF Inv, Exchange
    <2> QED BY <2>1, <2>2
<1> QED BY <1>3, <1>4, <1>5 DEF Inv

LEMMA InvStep == Inv /\ [Next]_vars => Inv'
<1> SUFFICES ASSUME Inv, [Next]_vars PROVE Inv'
    OBVIOUS
<1>1. ASSUME NEW e \in Ends, Step(e) PROVE Inv'
    BY <1>1, SendAllStep, ReceiveExactStep, ShutdownStep, JoinStep DEF Step
<1>2. CASE UNCHANGED vars
    <2>1. failures' \in 0..MaxFailures /\ interrupts' \in 0..MaxInterrupts
        BY <1>2 DEF vars, stream, Inv, TypeOK
    <2> QED BY <1>2, <2>1, Kept DEF vars, stream
<1> QED BY <1>1, <1>2 DEF Next

LEMMA InitInv == Init => Inv
<1> SUFFICES ASSUME Init PROVE Inv
    OBVIOUS
<1> USE EndsFacts
<1>1. /\ MessageBytes \in Nat \ {0} /\ Rounds \in Nat \ {0} /\ Capacity \in Nat
      /\ 0 \in 0..(MessageBytes - 1) /\ 1 \in 1..(Rounds + 1) /\ 1 \in 1..Rounds
    <2>1. Capacity \in Nat
        BY StreamAssumption DEF Init, StreamInit, Capacity
    <2>2. MessageBytes \in Nat \ {0} /\ Rounds \in Nat \ {0}
        BY RoundTripsAssumption
    <2> QED BY <2>1, <2>2
<1>2. flight \in [Ends -> Seq(Bytes)] /\ \A e \in Ends : flight[e] = <<>> /\ Len(flight[e]) = 0
    BY EmptySeq DEF Init, StreamInit
<1>3. Zeroed \in [1..MessageBytes -> Bytes]
    BY <1>1 DEF Zeroed, Bytes
<1>4. DataType
    BY <1>1, <1>3 DEF Init, DataType
<1>5. TypeOK
    <2>1. \A e \in Ends : DOMAIN buffer[e] = 1..MessageBytes
        BY <1>4 DEF DataType
    <2> QED BY <1>1, <1>2, <2>1, StreamAssumption DEF Init, StreamInit, TypeOK, Bytes
<1>6. Looping /\ ShutsAreErrors /\ CauseIsReported
    BY <1>1 DEF Init, StreamInit, Looping, ShutsAreErrors, CauseIsReported, Fine
<1>7. Exchange
    <2>1. pc["client"] = "send" /\ pc["server"] = "receive"
          /\ \A e \in Ends : round[e] = 1 /\ offset[e] = 0
        BY DEF Init
    <2>2. Piece(flight["client"], 1, 0, 0) /\ Holds("server", 1, 0)
        BY <1>2, EmptySeq, PieceEnds DEF Holds, Has
    <2>3. ClientSending
        BY <1>2, <2>1, <2>2 DEF ClientSending, ServerReceiving
    <2> QED BY <2>3 DEF Exchange
<1> QED BY <1>4, <1>5, <1>6, <1>7 DEF Inv

\* The invariant of the exchange, for every instance.
THEOREM Invariance == Spec => []Inv
BY InitInv, InvStep, PTL DEF Spec

\* The reply is the request, whatever partial transfers and interruptions
\* happened (bench_tcp.cpp:160-184, 191).
THEOREM EchoIsRequest == Spec => []EchoIntact
<1>1. Inv => EchoIntact
    <2> SUFFICES ASSUME Inv, Fine("client"), round["client"] > 1, pc["client"] \in {"send", "join"}
                 PROVE  buffer["client"] = Request(round["client"] - 1)
        BY DEF EchoIntact, Fine
    <2> DEFINE r == round["client"] - 1
    <2>1. Has(buffer["client"], r, MessageBytes)
        <3>1. CASE ClientSending
            BY <3>1 DEF ClientSending, Holds
        <3>2. CASE ClientDone
            <4>1. r = Rounds
                BY <3>2, RoundTripsAssumption DEF ClientDone
            <4> QED BY <3>2, <4>1 DEF ClientDone, Holds
        <3> QED BY <3>1, <3>2 DEF Inv, Exchange, ClientReceiving
    <2>2. buffer["client"] \in [1..MessageBytes -> Bytes]
        BY EndsFacts DEF Inv, DataType
    <2> HIDE DEF r
    <2>3. buffer["client"] = Request(r)
        BY <2>1, <2>2 DEF Has, Request
    <2> QED BY <2>3 DEF r
<1> QED BY <1>1, Invariance, PTL

\* RoundTrips reports the cause of an error, or times of exchanges that all
\* took place (bench_tcp.cpp:188-200).
THEOREM ReportsAreTrue == Spec => []ReportIsTrue
<1>1. Inv => ReportIsTrue
    <2> SUFFICES ASSUME Inv PROVE ReportIsTrue
        OBVIOUS
    <2>1. SuccessIsComplete
        <3> SUFFICES ASSUME pc["client"] = "done", Fine("client"), Fine("server")
                     PROVE  \A e \in Ends : round[e] = Rounds + 1 /\ flight[e] = <<>>
            BY EndsFacts DEF SuccessIsComplete, Fine
        <3>1. ClientDone
            BY DEF Inv, Exchange, ClientSending, ClientReceiving
        <3> QED BY <3>1, EndsFacts DEF ClientDone
    <2> QED BY <2>1 DEF Inv, ReportIsTrue
<1> QED BY <1>1, Invariance, PTL
=============================================================================
