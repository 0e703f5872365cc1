---------------------------- MODULE TcpTransfer ----------------------------
(***************************************************************************)
(* Every use of Send, Receive, Shutdown and Close on the two TcpSocket     *)
(* objects of one connection, in any order and with any buffer size, the   *)
(* early returns included (include/net/tcp_socket.hpp:66-151, 163).        *)
(***************************************************************************)
EXTENDS TcpStream

CONSTANTS
    MaxBytes,   \* bound: bytes each end sends
    MaxBuffer   \* bound: size of the buffers passed to Send and Receive

ASSUME TransferAssumption == MaxBytes \in Nat /\ MaxBuffer \in Nat

VARIABLES
    valid,  \* ends whose TcpSocket owns a handle
    sent,   \* bytes of each end the operating system has accepted
    got,    \* the bytes each end has received, by their place in the stream
    told,   \* ends whose Receive reported the end of the stream
    result  \* what the last call at each end returned

vars == <<stream, valid, sent, got, told, result>>

Init ==
    /\ StreamInit
    /\ valid = Ends
    /\ sent = [e \in Ends |-> 0]
    /\ got = [e \in Ends |-> <<>>]
    /\ told = {}
    /\ result = [e \in Ends |-> [count |-> 0, error |-> "none"]]

Return(e, r) == result' = [result EXCEPT ![e] = r]

\* The first tests of Send and Receive: an invalid socket, an empty buffer.
ReturnsEarly(e, size) ==
    /\ \/ e \notin valid /\ Return(e, Failed("bad_file_descriptor"))
       \/ e \in valid /\ size = 0 /\ Return(e, [count |-> 0, error |-> "none"])
    /\ UNCHANGED <<stream, valid, sent, got, told>>

\* Slip: the sender skips a byte.
UnsentSkips(e, size) == [i \in 1..size |-> sent[e] + i + 1]

\* The next `size` bytes end e has not sent yet.
Unsent(e, size) == [i \in 1..size |-> sent[e] + i]

CallSend(e, size) ==
    \/ ReturnsEarly(e, size)
    \/ /\ e \in valid /\ size > 0
       /\ sent[e] + size <= MaxBytes
       /\ \/ \E r \in Results(size) :
             /\ Send(e, Unsent(e, size), r)
             /\ sent' = [sent EXCEPT ![e] = @ + r.count]
             /\ Return(e, r)
          \/ SendRetry(e, Unsent(e, size)) /\ UNCHANGED <<sent, result>>
       /\ UNCHANGED <<valid, got, told>>

CallReceive(e, size) ==
    \/ ReturnsEarly(e, size)
    \/ /\ e \in valid /\ size > 0
       /\ \/ \E r \in Results(size) :
             /\ Receive(e, size, r)
             /\ got' = [got EXCEPT ![e] = @ \o Arriving(e, r.count)]
             /\ told' = IF r = [count |-> 0, error |-> "none"] /\ e \notin receiveShut
                        THEN told \cup {e} ELSE told
             /\ Return(e, r)
          \/ ReceiveRetry(e, size) /\ UNCHANGED <<got, told, result>>
       /\ UNCHANGED <<valid, sent>>

CallShutdown(e, direction) ==
    /\ \/ /\ e \notin valid
          /\ Return(e, Failed("bad_file_descriptor"))
          /\ UNCHANGED stream
       \/ /\ e \in valid
          /\ Shutdown(e, direction)
          /\ Return(e, [count |-> 0, error |-> "none"])
       \/ /\ e \in valid
          /\ Disturbed(Failed("failed"))
          /\ Return(e, Failed("failed"))
          /\ UNCHANGED <<connection, flight, sendShut, receiveShut>>
    /\ UNCHANGED <<valid, sent, got, told>>

\* Close(): the handle is given up, and the operating system ends both sides.
Close(e) ==
    /\ valid' = valid \ {e}
    /\ IF e \in valid THEN Shutdown(e, "both") ELSE UNCHANGED stream
    /\ UNCHANGED <<sent, got, told, result>>

Next ==
    \/ \E e \in Ends, size \in 0..MaxBuffer : CallSend(e, size) \/ CallReceive(e, size)
    \/ \E e \in Ends, direction \in {"receive", "send", "both"} : CallShutdown(e, direction)
    \/ \E e \in Ends : Close(e)

Spec == Init /\ [][Next]_vars

-----------------------------------------------------------------------------
\* The type of the state (tcp_socket.hpp:66-123).
TypeOK ==
    /\ \A e \in Ends : Len(flight[e]) <= Capacity
    /\ flight \in [Ends -> Seq(1..MaxBytes)]
    /\ sendShut \subseteq Ends /\ receiveShut \subseteq Ends
    /\ failures \in 0..MaxFailures /\ interrupts \in 0..MaxInterrupts
    /\ valid \subseteq Ends /\ told \subseteq Ends
    /\ sent \in [Ends -> 0..MaxBytes]
    /\ got \in [Ends -> Seq(1..MaxBytes)]
    /\ result \in [Ends -> [count: 0..MaxBuffer,
                            error: CallErrors \cup {"none", "bad_file_descriptor"}]]

\* Results are well formed and an interruption never reaches the caller, who
\* would take it for the end of the connection (tcp_socket.hpp:81-93, 110-122).
NeverInterrupted == TypeOK /\ \A e \in Ends : result[e].error # "interrupted"

\* The received bytes are the peer's first bytes, in order, and a reported
\* end of stream is true (ByteStream).
Abs == INSTANCE ByteStream WITH
    written  <- sent,
    received <- [e \in Ends |-> IF got[e] = [i \in 1..Len(got[e]) |-> i]
                                THEN Len(got[e]) ELSE MaxBytes + 1],
    ended    <- sendShut,
    deaf     <- receiveShut
ImplementsByteStream == Abs!Spec
=============================================================================
