-------------------------- MODULE BenchRoundTrips --------------------------
(***************************************************************************)
(* RoundTrips of benchmarks/net/bench_tcp.cpp: the main thread sends a     *)
(* message and waits for its echo, a worker thread receives each message   *)
(* exactly and sends it back. A thread that meets an error shuts its       *)
(* socket down, so that the other one does not wait for it.                *)
(*                                                                         *)
(* The pair is connected and configured (ConnectPair); the client's round  *)
(* counts the warm-up and the measured rounds together.                    *)
(***************************************************************************)
EXTENDS TcpStream

CONSTANTS
    MessageBytes,  \* MessageBytes
    Rounds         \* WarmupRounds + rounds

ASSUME RoundTripsAssumption == MessageBytes \in Nat \ {0} /\ Rounds \in Nat \ {0}

VARIABLES
    pc,      \* where each thread is
    round,   \* the loop counter of each thread
    offset,  \* bytes done in the current SendAll or ReceiveExact
    buffer,  \* client: reply; server: echo
    error    \* clientError and serverError

threads == <<pc, round, offset, buffer, error>>
vars == <<stream, threads>>

\* Bytes are told apart by the round they were sent in and their place.
Request(r) == [i \in 1..MessageBytes |-> <<r, i>>]

Zeroed == [i \in 1..MessageBytes |-> <<0, 0>>]

Init ==
    /\ StreamInit
    /\ pc = [e \in Ends |-> IF e = "client" THEN "send" ELSE "receive"]
    /\ round = [e \in Ends |-> 1]
    /\ offset = [e \in Ends |-> 0]
    /\ buffer = [e \in Ends |-> Zeroed]
    /\ error = [e \in Ends |-> "none"]

\* The client ends an exchange by receiving, the server by sending.
ExchangeEnds(e) == pc[e] = IF e = "client" THEN "receive" ELSE "send"

OtherHalf(e) == IF pc[e] = "send" THEN "receive" ELSE "send"

AfterMessage(e) ==
    IF ExchangeEnds(e) /\ round[e] = Rounds THEN "join" ELSE OtherHalf(e)

\* Slip: one Send or Receive call is taken for the whole message.
TransferOnce(e, r) ==
    \/ /\ r.error # "none"
       /\ error' = [error EXCEPT ![e] = r.error]
       /\ pc' = [pc EXCEPT ![e] = "shutdown"]
       /\ UNCHANGED <<round, offset>>
    \/ /\ r.error = "none"
       /\ pc' = [pc EXCEPT ![e] = AfterMessage(e)]
       /\ round' = IF ExchangeEnds(e) THEN [round EXCEPT ![e] = @ + 1] ELSE round
       /\ UNCHANGED <<offset, error>>

\* Slip: an error does not leave the loop.
TransferKeepsTrying(e, r) ==
    \/ r.count = 0 /\ UNCHANGED <<pc, round, offset, error>>
    \/ r.count > 0 /\ TransferOnce(e, r)

\* SendAll and ReceiveExact after a call returned r: an error or a zero count
\* ends the loop with an error, anything else moves on by that many bytes.
Transfer(e, r) ==
    \/ /\ r.count = 0
       /\ error' = [error EXCEPT ![e] = IF r.error = "none" THEN "io_error" ELSE r.error]
       /\ pc' = [pc EXCEPT ![e] = "shutdown"]
       /\ UNCHANGED <<round, offset>>
    \/ /\ r.count > 0
       /\ offset[e] + r.count < MessageBytes
       /\ offset' = [offset EXCEPT ![e] = @ + r.count]
       /\ UNCHANGED <<pc, round, error>>
    \/ /\ r.count > 0
       /\ offset[e] + r.count = MessageBytes
       /\ offset' = [offset EXCEPT ![e] = 0]
       /\ pc' = [pc EXCEPT ![e] = AfterMessage(e)]
       /\ round' = IF ExchangeEnds(e) THEN [round EXCEPT ![e] = @ + 1] ELSE round
       /\ UNCHANGED error

\* Slip: SendAll starts every Send at the front of the message.
RestFromFront(e, message) == SubSeq(message, 1, MessageBytes - offset[e])

\* bytes.subspan(...) of what SendAll was given.
Rest(e, message) == SubSeq(message, offset[e] + 1, MessageBytes)

\* SendAll(pair.client, request) and SendAll(pair.server, echo).
SendAll(e, message) ==
    /\ pc[e] = "send"
    /\ \/ \E r \in Results(MessageBytes) : Send(e, Rest(e, message), r) /\ Transfer(e, r)
       \/ SendRetry(e, Rest(e, message)) /\ UNCHANGED <<pc, round, offset, error>>
    /\ UNCHANGED buffer

\* ReceiveExact(pair.client, reply) and ReceiveExact(pair.server, echo).
ReceiveExact(e) ==
    LET missing == MessageBytes - offset[e] IN
    /\ pc[e] = "receive"
    /\ \/ \E r \in Results(missing) :
          /\ Receive(e, missing, r)
          /\ Transfer(e, r)
          /\ buffer' = [buffer EXCEPT ![e] = [i \in 1..MessageBytes |->
                           IF i - offset[e] \in 1..r.count
                           THEN Arriving(e, r.count)[i - offset[e]] ELSE @[i]]]
       \/ ReceiveRetry(e, missing) /\ UNCHANGED threads

\* Slip: a failing thread does not shut its socket down.
NoShutdown(e) ==
    /\ pc[e] = "shutdown"
    /\ pc' = [pc EXCEPT ![e] = "join"]
    /\ UNCHANGED <<stream, round, offset, buffer, error>>

\* (void)pair.client.Shutdown() and (void)pair.server.Shutdown().
ShutdownOnError(e) ==
    /\ pc[e] = "shutdown"
    /\ Shutdown(e, "both")
    /\ pc' = [pc EXCEPT ![e] = "join"]
    /\ UNCHANGED <<round, offset, buffer, error>>

\* The worker function returns; worker.join() waits for that.
Join(e) ==
    /\ pc[e] = "join"
    /\ e = "client" => pc["server"] = "done"
    /\ pc' = [pc EXCEPT ![e] = "done"]
    /\ UNCHANGED <<stream, round, offset, buffer, error>>

Step(e) ==
    \/ SendAll(e, IF e = "client" THEN Request(round[e]) ELSE buffer[e])
    \/ ReceiveExact(e)
    \/ ShutdownOnError(e)
    \/ Join(e)

Next == \E e \in Ends : Step(e)

\* Both threads are scheduled, and the operating system delivers; failures and
\* interruptions need not happen.
Spec == Init /\ [][Next]_vars /\ \A e \in Ends : WF_vars(Step(e) /\ Undisturbed)

-----------------------------------------------------------------------------
\* The type of the state (bench_tcp.cpp:156-160, 184).
TypeOK ==
    /\ flight \in [Ends -> Seq((0..Rounds) \X (0..MessageBytes))]
    /\ \A e \in Ends : Len(flight[e]) <= Capacity
    /\ sendShut \subseteq Ends /\ receiveShut \subseteq Ends
    /\ failures \in 0..MaxFailures /\ interrupts \in 0..MaxInterrupts
    /\ pc \in [Ends -> {"send", "receive", "shutdown", "join", "done"}]
    /\ round \in [Ends -> 1..(Rounds + 1)]
    /\ offset \in [Ends -> 0..(MessageBytes - 1)]
    /\ \A e \in Ends : DOMAIN buffer[e] = 1..MessageBytes
    /\ error \in [Ends -> CallErrors \cup {"none", "io_error"}]

\* Whenever the client has completed an exchange, its reply buffer holds
\* exactly what it sent in that exchange, whatever partial sends, partial
\* receives and interruptions happened: the comparison after the join
\* (bench_tcp.cpp:191) can only fail with an error already reported.
EchoIntact ==
    (error["client"] = "none" /\ round["client"] > 1 /\ pc["client"] \in {"send", "join"}) =>
        buffer["client"] = Request(round["client"] - 1)

\* If anything goes wrong, one of the two reported errors is the cause: an
\* error that only follows from the other thread's shutdown (end of stream,
\* reset, broken pipe) is never the whole report (bench_tcp.cpp:140-145,
\* 167-171, 188-190).
CauseIsReported ==
    (\E e \in Ends : error[e] # "none") =>
        \E e \in Ends : error[e] \in {"failed", "timed_out"}

\* A run reported as a success exchanged every round, and nothing is left in
\* the connection (bench_tcp.cpp:190).
SuccessIsComplete ==
    pc["client"] = "done" /\ (\A e \in Ends : error[e] = "none") =>
        \A e \in Ends : round[e] = Rounds + 1 /\ flight[e] = <<>>

\* Neither report is wrong: RoundTrips prints an error that names the cause, or
\* times of exchanges that all took place (bench_tcp.cpp:190-200).
ReportIsTrue == TypeOK /\ CauseIsReported /\ SuccessIsComplete

\* RoundTrips returns, whichever call fails on whichever side: "Unblock the
\* client on failure" (bench_tcp.cpp:169) and the client's own Shutdown
\* (:188) suffice when the connection holds a message, without the timeouts of
\* Configure, which a send into a full connection needs.
Terminates == <>(pc["client"] = "done")
=============================================================================
