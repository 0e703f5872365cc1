----------------------------- MODULE TcpStream -----------------------------
(***************************************************************************)
(* One established TCP connection between two TcpSocket objects, "client"  *)
(* and "server" (include/net/tcp_socket.hpp): Send, Receive and Shutdown   *)
(* on valid sockets with nonempty buffers, over an operating system that   *)
(* buffers a bounded number of bytes in each direction, transfers any part *)
(* of what is asked, interrupts calls, times them out and lets them fail.  *)
(*                                                                         *)
(* A call that cannot proceed blocks: no outcome is enabled.               *)
(***************************************************************************)
EXTENDS Naturals, Sequences

CONSTANTS
    CapacitiesUntimed,  \* bytes the operating system may buffer per direction
    CapacitiesTimed,    \* ... if SO_RCVTIMEO and SO_SNDTIMEO are set on both sockets
    MaxFailures,        \* bound: calls that fail for reasons of their own
    MaxInterrupts       \* bound: calls interrupted by a signal (EINTR)

ASSUME StreamAssumption ==
    /\ CapacitiesUntimed \cup CapacitiesTimed \subseteq Nat \ {0}
    /\ MaxFailures \in Nat
    /\ MaxInterrupts \in Nat

VARIABLES
    connection,   \* what the two sockets were connected and configured as
    flight,       \* bytes each end has sent and its peer has not received
    sendShut,     \* ends whose sending side is shut down
    receiveShut,  \* ends whose receiving side is shut down
    failures,     \* failures so far
    interrupts    \* interruptions so far

stream == <<connection, flight, sendShut, receiveShut, failures, interrupts>>

Ends == {"client", "server"}
Peer(e) == IF e = "client" THEN "server" ELSE "client"

\* What SocketError::Last() can say after ::send or ::recv. "failed" stands
\* for the causes this model does not explain (ENOBUFS, ETIMEDOUT, ...).
CallErrors == {"broken_pipe", "reset", "timed_out", "failed", "interrupted"}

\* A SocketResult<std::size_t>: a count, or an error.
Results(most) == [count: 0..most, error: {"none"}] \cup [count: {0}, error: CallErrors]

Failed(error) == [count |-> 0, error |-> error]

\* Bytes the system buffers per direction; SO_RCVTIMEO and SO_SNDTIMEO are set.
Capacity == connection.capacity
Timeouts == connection.timeouts

StreamInit ==
    /\ connection \in [capacity: CapacitiesUntimed, timeouts: {FALSE}]
                     \cup [capacity: CapacitiesTimed, timeouts: {TRUE}]
    /\ flight = [e \in Ends |-> <<>>]
    /\ sendShut = {}
    /\ receiveShut = {}
    /\ failures = 0
    /\ interrupts = 0

-----------------------------------------------------------------------------
(***************************************************************************)
(* The operating system (external).                                        *)
(***************************************************************************)
\* A failure or an interruption that any blocking call may meet.
Disturbed(r) ==
    \/ /\ failures < MaxFailures
       /\ r = Failed("failed")
       /\ failures' = failures + 1
       /\ UNCHANGED interrupts
    \/ /\ interrupts < MaxInterrupts
       /\ r = Failed("interrupted")
       /\ interrupts' = interrupts + 1
       /\ UNCHANGED failures

\* ::send accepts part of the bytes if there is room. Once the peer has shut
\* down its receiving side, bytes that reach it are answered with a reset;
\* while the window is closed none can, and the call stays blocked.
NativeSend(e, bytes, r) ==
    \/ /\ e \notin sendShut
       /\ r \in [count: 1..Len(bytes), error: {"none"}]
       /\ Len(flight[e]) + r.count <= Capacity
       /\ flight' = [flight EXCEPT ![e] = @ \o SubSeq(bytes, 1, r.count)]
       /\ UNCHANGED <<failures, interrupts>>
    \/ /\ \/ e \in sendShut /\ r = Failed("broken_pipe")
          \/ /\ Peer(e) \in receiveShut
             /\ Len(flight[e]) < Capacity
             /\ r = Failed("reset")
          \/ /\ Timeouts
             /\ e \notin sendShut
             /\ Len(flight[e]) = Capacity
             /\ r = Failed("timed_out")
       /\ UNCHANGED <<flight, failures, interrupts>>
    \/ Disturbed(r) /\ UNCHANGED flight

\* The bytes a ::recv with count n takes out.
Arriving(e, n) == SubSeq(flight[Peer(e)], 1, n)

\* ::recv takes any nonempty prefix of what has arrived; zero means that the
\* peer will send no more and everything it sent has been read.
NativeReceive(e, size, r) ==
    LET incoming == flight[Peer(e)]
        ended    == Peer(e) \in sendShut \/ e \in receiveShut IN
    \/ /\ r \in [count: 1..size, error: {"none"}]
       /\ r.count <= Len(incoming)
       /\ flight' = [flight EXCEPT ![Peer(e)] = SubSeq(@, r.count + 1, Len(@))]
       /\ UNCHANGED <<failures, interrupts>>
    \/ /\ \/ incoming = <<>> /\ ended /\ r = [count |-> 0, error |-> "none"]
          \/ Peer(e) \in receiveShut /\ r = Failed("reset")
          \/ /\ Timeouts
             /\ incoming = <<>> /\ ~ended
             /\ r = Failed("timed_out")
       /\ UNCHANGED <<flight, failures, interrupts>>
    \/ Disturbed(r) /\ UNCHANGED flight

\* Neither a failure nor an interruption: what fairness may insist on.
Undisturbed == UNCHANGED <<failures, interrupts>>

-----------------------------------------------------------------------------
(***************************************************************************)
(* TcpSocket. A call is either retried (the loop around the native call    *)
(* goes round once more) or returns r to its caller.                       *)
(***************************************************************************)
\* Slip: Send and Receive report an interruption instead of retrying.
NeverRetried(r) == FALSE

\* IsInterrupted() on the error of the native call.
Retried(r) == r.error = "interrupted"

\* Slip: a full-length count is reported for a partial send.
SendClaimsAll(e, bytes, r) ==
    /\ r \in [count: {Len(bytes)}, error: {"none"}]
    /\ \E partial \in Results(Len(bytes)) : NativeSend(e, bytes, partial) /\ partial.error = "none"
    /\ UNCHANGED <<connection, sendShut, receiveShut>>

Send(e, bytes, r) ==
    /\ NativeSend(e, bytes, r)
    /\ ~Retried(r)
    /\ UNCHANGED <<connection, sendShut, receiveShut>>

Receive(e, size, r) ==
    /\ NativeReceive(e, size, r)
    /\ ~Retried(r)
    /\ UNCHANGED <<connection, sendShut, receiveShut>>

SendRetry(e, bytes) ==
    /\ \E r \in Results(Len(bytes)) : NativeSend(e, bytes, r) /\ Retried(r)
    /\ UNCHANGED <<connection, sendShut, receiveShut>>

ReceiveRetry(e, size) ==
    /\ \E r \in Results(size) : NativeReceive(e, size, r) /\ Retried(r)
    /\ UNCHANGED <<connection, sendShut, receiveShut>>

\* Shutdown(SocketShutdown): "receive", "send" or "both".
Shutdown(e, direction) ==
    /\ sendShut' = IF direction = "receive" THEN sendShut ELSE sendShut \cup {e}
    /\ receiveShut' = IF direction = "send" THEN receiveShut ELSE receiveShut \cup {e}
    /\ UNCHANGED <<connection, flight, failures, interrupts>>
=============================================================================
