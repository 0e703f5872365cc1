------------------------------ MODULE UdpEcho ------------------------------
(***************************************************************************)
(* main of examples/net/example_udp_loopback.cpp over UdpSocket: one thread *)
(* sends a request from a client socket, receives and answers it at a      *)
(* server socket, compares the answer at the client, and finally sends an  *)
(* empty datagram that the server receives into an empty buffer.           *)
(*                                                                         *)
(* Datagrams can be lost, duplicated and late, other programs may send to  *)
(* the two ports, and SO_RCVTIMEO on both sockets is what lets main return. *)
(***************************************************************************)
EXTENDS UdpSocket

CONSTANTS
    Main,    \* the thread of main
    Server,  \* its two UdpSocket objects
    Client

ASSUME EchoAssumption ==
    /\ Main \in Threads
    /\ {Server, Client} \subseteq Sockets /\ Server # Client
    /\ MaxTransferLength >= 2

VARIABLES
    pc,        \* where main is
    timed,     \* sockets with a receive timeout
    datagram,  \* what the last ReceiveFrom returned: its number, size and sender
    content,   \* the bytes of every SendTo
    exit       \* what main returned

main == <<pc, timed, datagram, content, exit>>
allVars == <<vars, main>>

\* message.size() and buffer.size().
MessageLength == 1
BufferLength == 2

\* What other programs send; the length of a datagram and what its bytes are.
Payloads == [length: {MessageLength}, bytes: {"message", "other"}] \cup [length: {0}, bytes: {"none"}]
Payload(d) == [length |-> d.size, bytes |-> content[d.id]]

Nothing == [id |-> 0, size |-> 0, sender |-> None]

EchoInit ==
    /\ Init
    /\ pc = "bind"
    /\ timed = {} /\ datagram = Nothing /\ content = <<>>
    /\ exit = "running"

\* The endpoint GetLocalEndpoint reported for the bound server.
ServerPort == port[m_handle[Server]]

-----------------------------------------------------------------------------
\* main goes on at `next`, or returns and its objects are destroyed.
Continues(next) == pc' = next /\ UNCHANGED exit
Quits(code) == pc' = "close client" /\ exit' = code

Outcome(ok, next) == IF ok THEN Continues(next) ELSE Quits("failure")

\* main makes a call at statement `step`.
Calls(step) == pc = step /\ UNCHANGED <<pc, timed, datagram, exit>>

Binds == Calls("bind") /\ UNCHANGED content /\ \E p \in Unbound : Bind(Main, Server, p)

\* Slip: the client waits for the answer without a timeout.
TimesServerOnly(o, step, next) ==
    /\ pc = step
    /\ timed' = timed \cup ({o} \cap {Server})
    /\ Continues(next)
    /\ UNCHANGED <<vars, datagram, content>>

\* SetReceiveTimeout(o).
SetReceiveTimeout(o, step, next) ==
    /\ pc = step
    /\ \/ timed' = timed \cup {o} /\ Continues(next) /\ UNCHANGED budgets
       \/ Disturbed /\ Quits("failure") /\ UNCHANGED timed
    /\ UNCHANGED <<m_handle, system, call, history, datagram, content>>

\* GetLocalEndpoint of the server.
GetEndpoint ==
    /\ pc = "endpoint"
    /\ \/ Continues("request") /\ UNCHANGED budgets
       \/ Disturbed /\ Quits("failure")
    /\ UNCHANGED <<m_handle, system, call, history, timed, datagram, content>>

SendsTo(step, o, to, length, bytes) ==
    /\ Calls(step)
    /\ SendTo(Main, o, to, length)
    /\ content' = Append(content, bytes)

SendRequest == SendsTo("request", Client, ServerPort, MessageLength, "message")

\* Slip: the whole buffer is sent back.
ReplyWithBuffer == SendsTo("reply", Server, datagram.sender, BufferLength, "other")

\* buffer.first(BytesReceived), to the reported sender.
Reply == SendsTo("reply", Server, datagram.sender, datagram.size, content[datagram.id])

SendEmpty == SendsTo("empty", Client, ServerPort, 0, "none")

Receives(step, o, length) ==
    At(Main, "idle") /\ Calls(step) /\ ReceiveFrom(Main, o, length) /\ UNCHANGED content

\* Slip: the sender is not compared.
IsEchoFromAnyone(d) == Payload(d) = [length |-> MessageLength, bytes |-> "message"]

\* text == message && Sender == endpoint.
IsEcho(d) == IsEchoFromAnyone(d) /\ d.sender = ServerPort

\* What main does with the result of the call that just returned; `ok` is
\* whether it succeeded.
AfterSend(ok) ==
    /\ \/ pc = "request" /\ Outcome(ok, "time client")
       \/ pc = "reply" /\ Outcome(ok, "collect")
       \/ pc = "empty" /\ Outcome(ok, "receive empty")
    /\ UNCHANGED datagram

AfterReceive(d) ==
    /\ datagram' = d
    /\ \/ pc = "serve" /\ Continues("reply")
       \/ pc = "collect" /\ IF IsEcho(d) THEN Continues("empty") ELSE Quits("mismatch")
       \/ pc = "receive empty" /\ Quits(IF d.size # 0 THEN "not empty" ELSE "success")

\* Slip: what was cut to the buffer's length is used like any other datagram.
TakesTruncated ==
    LET n == m_handle[call[Main].object]
        d == Head(queue[n]) IN
    IF queue'[n] # queue[n]
    THEN AfterReceive([id |-> d.id, sender |-> d.from,
                       size |-> IF d.size > call[Main].length THEN call[Main].length ELSE d.size])
    ELSE Quits("failure") /\ UNCHANGED datagram

\* ReceiveFrom returns a datagram, or fails (also because it was truncated).
ReceiveReturned ==
    LET n == m_handle[call[Main].object]
        d == Head(queue[n]) IN
    IF queue'[n] # queue[n] /\ d.size <= call[Main].length
    THEN AfterReceive([id |-> d.id, size |-> d.size, sender |-> d.from])
    ELSE Quits("failure") /\ UNCHANGED datagram

\* A step of the call main is in; the last one hands main its result.
InCall ==
    /\ Step(Main)
    /\ \/ call'[Main] # Idle /\ UNCHANGED <<pc, datagram, exit>>
       \/ /\ call'[Main] = Idle
          /\ \/ /\ pc = "bind" /\ UNCHANGED datagram
                /\ Outcome(m_handle'[Server] # InvalidHandle, "time server")
             \/ At(Main, "receive") /\ ReceiveReturned
             \/ call[Main].id # 0 /\ AfterSend(sends'[call[Main].id].told = "success")
    /\ UNCHANGED <<timed, content>>

\* SO_RCVTIMEO: nothing came in time.
TimesOut ==
    /\ At(Main, "receive") /\ call[Main].object \in timed
    /\ queue[m_handle[call[Main].object]] = <<>>
    /\ Return(Main)
    /\ Quits("failure")
    /\ UNCHANGED <<m_handle, system, history, budgets, timed, datagram, content>>

\* Slip: the server is not destroyed.
DestroysClient(step, o, next) ==
    /\ pc = step /\ pc' = next
    /\ IF o = Client /\ IsValid(o) THEN Close(Main, o) ELSE UNCHANGED vars
    /\ UNCHANGED <<timed, datagram, content, exit>>

\* The destructors, in reverse order of the declarations.
Destroys(step, o, next) ==
    /\ pc = step /\ pc' = next
    /\ IF IsValid(o) THEN Close(Main, o) ELSE UNCHANGED vars
    /\ UNCHANGED <<timed, datagram, content, exit>>

Program ==
    \/ At(Main, "idle") /\ Binds
    \/ SetReceiveTimeout(Server, "time server", "endpoint")
    \/ GetEndpoint
    \/ SendRequest
    \/ SetReceiveTimeout(Client, "time client", "serve")
    \/ Receives("serve", Server, BufferLength)
    \/ Reply
    \/ Receives("collect", Client, BufferLength)
    \/ SendEmpty
    \/ Receives("receive empty", Server, 0)
    \/ InCall \/ TimesOut
    \/ Destroys("close client", Client, "close server")
    \/ Destroys("close server", Server, "returned")

\* Another program sends something to one of the ports.
OtherSends(q, p, payload) ==
    /\ Stray(q, p, payload.length)
    /\ content' = Append(content, payload.bytes)
    /\ UNCHANGED <<pc, timed, datagram, exit>>

Network ==
    /\ \E d \in wire : Lose(d) \/ \E n \in Natives : Deliver(d, n)
    /\ UNCHANGED main

EchoNext ==
    \/ Program
    \/ Network
    \/ \E q \in Others, p \in Ports, payload \in Payloads : OtherSends(q, p, payload)

\* The thread goes on; failures, interruptions and the network need not happen.
EchoSpec == EchoInit /\ [][EchoNext]_allVars /\ WF_allVars(Program /\ UNCHANGED budgets)

-----------------------------------------------------------------------------
\* The type of the state; timeouts are set on sockets that exist
\* (example_udp_loopback.cpp:47, 60-66, 68).
EchoTypeOK ==
    /\ pc \in {"bind", "time server", "endpoint", "request", "time client", "serve", "reply",
               "collect", "empty", "receive empty", "close client", "close server", "returned"}
    /\ timed \subseteq Sockets
    /\ exit = "running" => \A o \in timed : IsValid(o)
    /\ datagram.sender \in Endpoints \cup {None}
    /\ Len(content) = Len(sends)
    /\ exit \in {"running", "success", "failure", "mismatch", "not empty"}

\* The run succeeds only after a whole exchange: the server received the
\* client's own request, and the client got the server's answer to it and
\* nobody else's, whatever was lost, duplicated, late or sent by others
\* (example_udp_loopback.cpp:78-79, 93).
SuccessIsAnExchange ==
    exit = "success" =>
        \E request, reply \in got :
            /\ sends[request.id].length = MessageLength /\ request.id < reply.id
            /\ reply.sender = sends[request.id].to
            /\ sends[reply.id].to = request.sender /\ request.sender \notin Others

\* "Echo did not match" needs somebody else's datagram: loss, duplicates and
\* delay alone end in an error (example_udp_loopback.cpp:85-97).
MismatchNeedsStray ==
    exit = "mismatch" => \E i \in DOMAIN sends : sends[i].from \in Others

\* main succeeds on an empty datagram only: into its empty buffer recvmsg
\* copies no byte of a longer one either, late, duplicated or somebody else's,
\* so that nothing but the truncation flag tells the two apart
\* (example_udp_loopback.cpp:106-116, udp_socket.hpp:144-149).
EmptyMeansEmpty == exit = "success" => sends[datagram.id].handed = <<0>>

\* What main says of the datagrams it compares is so, whatever the network did
\* (example_udp_loopback.cpp:91-97, 112-118).
OutcomeIsTrue == MismatchNeedsStray /\ EmptyMeansEmpty

\* No descriptor is left when main has returned, from whichever call
\* (example_udp_loopback.cpp:34, 118).
NothingLeaks == EchoTypeOK /\ (pc = "returned" => inUse = {})

\* main returns although every datagram may be lost: both sockets wait with a
\* timeout before anything is received on them (example_udp_loopback.cpp:47,
\* 66).
Returns == <>(pc = "returned")
=============================================================================
