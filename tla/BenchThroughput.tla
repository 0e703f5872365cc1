-------------------------- MODULE BenchThroughput --------------------------
(***************************************************************************)
(* Throughput of benchmarks/net/bench_tcp.cpp: the main thread sends       *)
(* `total` bytes in chunks with SendAll, a worker receives until it has    *)
(* counted them all. The latch `ready` starts the measurement and          *)
(* `finished` ends it; the worker must count `finished` down on every way  *)
(* out of its loop or the main thread waits for ever.                      *)
(***************************************************************************)
EXTENDS TcpStream

CONSTANTS
    ChunkBytes,  \* ChunkBytes, also the size of the receive buffer
    Chunks       \* total / ChunkBytes

ASSUME ThroughputAssumption == ChunkBytes \in Nat \ {0} /\ Chunks \in Nat \ {0}

VARIABLES
    pc,        \* where each thread is
    sent,      \* the chunks SendAll has finished, in bytes
    offset,    \* bytes done in the current SendAll
    received,  \* received
    ready,     \* the latches
    finished,
    error      \* clientError and serverError

threads == <<pc, sent, offset, received, ready, finished, error>>
vars == <<stream, threads>>

total == Chunks * ChunkBytes

\* A buffer of n bytes; their values play no part.
Bytes(n) == [i \in 1..n |-> "byte"]

Init ==
    /\ StreamInit
    /\ pc = [e \in Ends |-> "ready"]
    /\ sent = 0 /\ offset = 0 /\ received = 0
    /\ ready = 1 /\ finished = 1
    /\ error = [e \in Ends |-> "none"]

Goto(e, there) == pc' = [pc EXCEPT ![e] = there]

\* An error ends the loop of thread e: `break`.
Breaks(e, r) ==
    /\ r.count = 0
    /\ error' = [error EXCEPT ![e] = IF r.error = "none" THEN "io_error" ELSE r.error]
    /\ Goto(e, "shutdown")

\* ready.count_down() in the worker, ready.wait() in the main thread.
Start(e) ==
    /\ pc[e] = "ready"
    /\ e = "client" => ready = 0
    /\ ready' = 0
    /\ Goto(e, "loop")
    /\ UNCHANGED <<stream, sent, offset, received, finished, error>>

\* Slip: the main thread sends one chunk too many.
MoreLeftInclusive(e) == IF e = "client" THEN sent <= total ELSE received < total

\* sent < total in the main thread, received < total in the worker.
MoreLeft(e) == IF e = "client" THEN sent < total ELSE received < total

\* One Send of SendAll(pair.client, sendBuffer) in the loop over the chunks.
SendChunk ==
    LET left == ChunkBytes - offset IN
    /\ pc["client"] = "loop" /\ MoreLeft("client")
    /\ \/ \E r \in Results(left) :
          /\ Send("client", Bytes(left), r)
          /\ \/ Breaks("client", r) /\ UNCHANGED <<sent, offset>>
             \/ /\ r.count \in 1..(left - 1)
                /\ offset' = offset + r.count
                /\ UNCHANGED <<pc, sent, error>>
             \/ /\ r.count = left
                /\ offset' = 0
                /\ sent' = sent + ChunkBytes
                /\ UNCHANGED <<pc, error>>
       \/ SendRetry("client", Bytes(left)) /\ UNCHANGED <<pc, sent, offset, error>>
    /\ UNCHANGED <<received, ready, finished>>

\* Slip: the worker stops at the first error without recording it.
ReceiveForgetsError ==
    /\ pc["server"] = "loop" /\ MoreLeft("server")
    /\ \E r \in Results(ChunkBytes) :
          /\ Receive("server", ChunkBytes, r)
          /\ \/ r.count = 0 /\ Goto("server", "shutdown") /\ UNCHANGED received
             \/ r.count > 0 /\ received' = received + r.count /\ UNCHANGED pc
    /\ UNCHANGED <<sent, offset, ready, finished, error>>

\* Slip: the worker counts a full buffer for every receive.
ReceiveCountsBuffer ==
    /\ pc["server"] = "loop" /\ MoreLeft("server")
    /\ \E r \in Results(ChunkBytes) :
          /\ Receive("server", ChunkBytes, r)
          /\ \/ Breaks("server", r) /\ UNCHANGED received
             \/ r.count > 0 /\ received' = received + ChunkBytes /\ UNCHANGED <<pc, error>>
    /\ UNCHANGED <<sent, offset, ready, finished>>

\* One pair.server.Receive(receiveBuffer) of the worker.
ReceiveSome ==
    /\ pc["server"] = "loop" /\ MoreLeft("server")
    /\ \/ \E r \in Results(ChunkBytes) :
          /\ Receive("server", ChunkBytes, r)
          /\ \/ Breaks("server", r) /\ UNCHANGED received
             \/ r.count > 0 /\ received' = received + r.count /\ UNCHANGED <<pc, error>>
       \/ ReceiveRetry("server", ChunkBytes) /\ UNCHANGED <<pc, received, error>>
    /\ UNCHANGED <<sent, offset, ready, finished>>

\* The loop test is false.
LoopEnds(e) ==
    /\ pc[e] = "loop"
    /\ ~MoreLeft(e)
    /\ Goto(e, "finish")
    /\ UNCHANGED <<stream, sent, offset, received, ready, finished, error>>

\* if (clientError) Shutdown(), if (serverError) Shutdown().
ShutdownOnError(e) ==
    /\ pc[e] = "shutdown"
    /\ IF error[e] # "none" THEN Shutdown(e, "both") ELSE UNCHANGED stream
    /\ Goto(e, "finish")
    /\ UNCHANGED <<sent, offset, received, ready, finished, error>>

\* Slip: the worker counts `finished` down only after a complete transfer.
FinishOnSuccess(e) ==
    /\ pc[e] = "finish"
    /\ e = "client" => finished = 0 /\ pc["server"] = "done"
    /\ finished' = IF error[e] = "none" THEN 0 ELSE finished
    /\ Goto(e, "done")
    /\ UNCHANGED <<stream, sent, offset, received, ready, error>>

\* finished.count_down() in the worker; finished.wait() and the join of the
\* worker, which does nothing more, in the main thread.
Finish(e) ==
    /\ pc[e] = "finish"
    /\ e = "client" => finished = 0 /\ pc["server"] = "done"
    /\ finished' = 0
    /\ Goto(e, "done")
    /\ UNCHANGED <<stream, sent, offset, received, ready, error>>

Step(e) ==
    \/ Start(e)
    \/ e = "client" /\ SendChunk
    \/ e = "server" /\ ReceiveSome
    \/ LoopEnds(e)
    \/ ShutdownOnError(e)
    \/ Finish(e)

Next == \E e \in Ends : Step(e)

\* Both threads are scheduled, and the operating system delivers; failures and
\* interruptions need not happen.
Spec == Init /\ [][Next]_vars /\ \A e \in Ends : WF_vars(Step(e) /\ Undisturbed)

-----------------------------------------------------------------------------
\* The type of the state (bench_tcp.cpp:213-219, 244).
TypeOK ==
    /\ \A e \in Ends : Len(flight[e]) <= Capacity
    /\ sendShut \subseteq Ends /\ receiveShut \subseteq Ends
    /\ failures \in 0..MaxFailures /\ interrupts \in 0..MaxInterrupts
    /\ pc \in [Ends -> {"ready", "loop", "shutdown", "finish", "done"}]
    /\ sent \in 0..total /\ received \in 0..total
    /\ offset \in 0..(ChunkBytes - 1)
    /\ ready \in {0, 1} /\ finished \in {0, 1}
    /\ error \in [Ends -> CallErrors \cup {"none", "io_error"}]

\* Every byte the client has sent is counted by the worker or still on its
\* way, and never more than `total` arrives, so the loop test of the worker
\* is exact (bench_tcp.cpp:223-237, 244-248).
CountsAgree == received + Len(flight["client"]) = sent + offset

\* When Throughput reports neither a client nor a server error, the byte
\* counts agree: the mismatch report (bench_tcp.cpp:254-258) is unreachable.
SuccessIsComplete ==
    pc["client"] = "done" /\ (\A e \in Ends : error[e] = "none") => received = total

\* An error that only follows from the other thread's shutdown is never the
\* whole report (bench_tcp.cpp:226-238, 249, 253).
CauseIsReported ==
    (\E e \in Ends : error[e] # "none") =>
        \E e \in Ends : error[e] \in {"failed", "timed_out"}

\* Neither report is wrong: Throughput prints an error that names the cause, or
\* the time all bytes took (bench_tcp.cpp:253-264).
ReportIsTrue == TypeOK /\ SuccessIsComplete /\ CauseIsReported

\* Throughput returns: no failure of either thread leaves the other at a
\* latch, and a send into a full connection whose reader has failed ends by
\* the timeout of Configure at the latest (bench_tcp.cpp:45-49, 238-252).
Terminates == <>(pc["client"] = "done")
=============================================================================
