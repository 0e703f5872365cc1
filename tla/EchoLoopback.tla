---------------------------- MODULE EchoLoopback ----------------------------
(***************************************************************************)
(* main of examples/net/example_tcp_loopback.cpp: one thread holds both    *)
(* ends of a connection. It sends a request from the client, finishes it   *)
(* with a half-close, reads and echoes it at the server until the end of   *)
(* stream, half-closes that direction too and compares at the client what  *)
(* comes back.                                                             *)
(*                                                                         *)
(* Nobody reads while the thread sends, so both the request and the echo   *)
(* must fit in what the system buffers; no timeout is set on the sockets.  *)
(***************************************************************************)
EXTENDS TcpStream

CONSTANTS
    MessageSize,  \* message.size()
    BufferSize    \* buffer.size(), 64 in the code

ASSUME EchoAssumption == MessageSize \in Nat \ {0} /\ BufferSize \in Nat \ {0}

VARIABLES
    pc,       \* where main is
    offset,   \* bytes done in the current SendAll
    chunk,    \* the received part of buffer
    echoed,   \* bytes the client has got back
    matches,  \* ... and all of them were right
    exit      \* what main returned

main == <<pc, offset, chunk, echoed, matches, exit>>
loopbackVars == <<stream, main>>

\* Bytes are told apart by their place.
Message == [i \in 1..MessageSize |-> i]

LoopbackInit ==
    /\ StreamInit
    /\ pc = "connect"
    /\ offset = 0 /\ chunk = <<>> /\ echoed = 0
    /\ matches = TRUE
    /\ exit = "running"

\* main goes on at the next statement, or returns.
Goes(next) == pc' = next /\ UNCHANGED exit
Returns(code) == pc' = "returned" /\ exit' = code

\* A call other than Send and Receive fails: its error is printed.
CheckFails ==
    /\ failures < MaxFailures
    /\ failures' = failures + 1
    /\ Returns("failure")
    /\ UNCHANGED <<connection, flight, sendShut, receiveShut, interrupts, offset, chunk, echoed, matches>>

\* Bind, Listen, GetLocalEndpoint, Connect, Accept and the listener's Close.
Connect ==
    /\ pc = "connect"
    /\ \/ Goes("request") /\ UNCHANGED <<stream, offset, chunk, echoed, matches>>
       \/ CheckFails

\* Slip: SendAll starts every Send at the front.
RestFromFront(bytes) == SubSeq(bytes, 1, Len(bytes) - offset)

\* bytes.subspan(sent.Value()), in every round of SendAll's loop.
Rest(bytes) == SubSeq(bytes, offset + 1, Len(bytes))

\* SendAll on end e, then `next`; an error or a zero count makes main return.
SendAll(e, bytes, next) ==
    \/ \E r \in Results(Len(Rest(bytes))) :
        /\ Send(e, Rest(bytes), r)
        /\ IF r.count = 0 THEN Returns("failure") /\ UNCHANGED offset
           ELSE IF offset + r.count < Len(bytes)
           THEN offset' = offset + r.count /\ Goes(pc)
           ELSE offset' = 0 /\ Goes(next)
        /\ UNCHANGED <<chunk, echoed, matches>>
    \/ SendRetry(e, Rest(bytes)) /\ UNCHANGED main

SendRequest == pc = "request" /\ SendAll("client", Message, "finish request")

\* Shutdown(SocketShutdown::Send) on end e.
HalfClose(e, next) ==
    \/ Shutdown(e, "send") /\ Goes(next) /\ UNCHANGED <<offset, chunk, echoed, matches>>
    \/ CheckFails

FinishRequest == pc = "finish request" /\ HalfClose("client", "serve")

TakeRequest(bytes) ==
    /\ chunk' = bytes
    /\ Goes("echo")
    /\ UNCHANGED <<echoed, matches>>

\* Slip: every chunk is compared with the front of the message.
TakeEchoFromFront(bytes) ==
    /\ matches' = (matches /\ bytes = SubSeq(Message, 1, Len(bytes)))
    /\ echoed' = echoed + Len(bytes)
    /\ Goes(pc)
    /\ UNCHANGED chunk

\* chunk == message.substr(echoed, chunk.size()); substr stops at the end.
TakeEcho(bytes) ==
    /\ matches' = (/\ matches
                   /\ echoed + Len(bytes) <= MessageSize
                   /\ bytes = SubSeq(Message, echoed + 1, echoed + Len(bytes)))
    /\ echoed' = echoed + Len(bytes)
    /\ Goes(pc)
    /\ UNCHANGED chunk

\* Receive on end e until the peer has finished, then `next`; what each
\* Receive returned is echoed by the server and compared by the client.
ReceiveLoop(e, next) ==
    \/ \E r \in Results(BufferSize) :
        /\ Receive(e, BufferSize, r)
        /\ \/ r.count > 0 /\ e = "server" /\ TakeRequest(Arriving(e, r.count))
           \/ r.count > 0 /\ e = "client" /\ TakeEcho(Arriving(e, r.count))
           \/ /\ r.count = 0
              /\ IF r.error # "none" THEN Returns("failure") ELSE Goes(next)
              /\ UNCHANGED <<chunk, echoed, matches>>
        /\ UNCHANGED offset
    \/ ReceiveRetry(e, BufferSize) /\ UNCHANGED main

Serve == pc = "serve" /\ ReceiveLoop("server", "finish response")

\* SendAll(server, buffer.first(received)).
Echo == pc = "echo" /\ SendAll("server", chunk, "serve")

\* Slip: the server does not half-close its side.
NoFinish ==
    /\ pc = "finish response"
    /\ Goes("collect")
    /\ UNCHANGED <<stream, offset, chunk, echoed, matches>>

FinishResponse == pc = "finish response" /\ HalfClose("server", "collect")

Collect == pc = "collect" /\ ReceiveLoop("client", "compare")

\* The message is printed, or that the echo did not match.
Compare ==
    /\ pc = "compare"
    /\ Returns(IF matches /\ echoed = MessageSize THEN "success" ELSE "mismatch")
    /\ UNCHANGED <<stream, offset, chunk, echoed, matches>>

LoopbackNext ==
    \/ Connect \/ SendRequest \/ FinishRequest \/ Serve \/ Echo \/ FinishResponse
    \/ Collect \/ Compare

\* The thread goes on when its call does not block; failures and interruptions
\* need not happen.
Fairness == WF_loopbackVars(LoopbackNext /\ Undisturbed)

LoopbackSpec == LoopbackInit /\ [][LoopbackNext]_loopbackVars /\ Fairness

-----------------------------------------------------------------------------
\* The type of the state (example_tcp_loopback.cpp:85-117).
LoopbackTypeOK ==
    /\ \A e \in Ends : Len(flight[e]) <= Capacity
    /\ pc \in {"connect", "request", "finish request", "serve", "echo", "finish response",
               "collect", "compare", "returned"}
    /\ offset \in 0..(MessageSize - 1)
    /\ Len(chunk) <= BufferSize
    /\ echoed \in 0..MessageSize
    /\ matches \in BOOLEAN
    /\ exit \in {"running", "success", "failure", "mismatch"}

\* "Echo did not match the request" is never printed, however the request and
\* the echo were cut into pieces: bytes can only be missing or wrong after a
\* call has failed, and then main has returned (example_tcp_loopback.cpp:98,
\* 102-106, 134-142).
NeverMismatched == exit # "mismatch"

\* At every moment the request is, in order and exactly once, in what the
\* client got back, the echo under way, the part being echoed, the request
\* under way and what is still to be sent (example_tcp_loopback.cpp:31, 106,
\* 135).
NothingLostOrDoubled ==
    pc # "returned" =>
        LET serving == IF pc = "echo" THEN SubSeq(chunk, offset + 1, Len(chunk)) ELSE <<>>
            unsent  == IF pc = "connect" THEN Message
                       ELSE IF pc = "request" THEN SubSeq(Message, offset + 1, MessageSize)
                       ELSE <<>> IN
        SubSeq(Message, 1, echoed) \o flight["server"] \o serving \o flight["client"] \o unsent
            = Message

\* The echo is the request, at every moment and in the verdict that is printed
\* (example_tcp_loopback.cpp:85-144).
EchoIsRequest == LoopbackTypeOK /\ NeverMismatched /\ NothingLostOrDoubled

\* main returns if the system buffers as much as the message has bytes, "queued
\* before the other endpoint reads" (example_tcp_loopback.cpp:1-3): the two
\* half-closes end both receive loops, without a timeout.
Terminates == <>(pc = "returned")
=============================================================================
