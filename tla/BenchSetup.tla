----------------------------- MODULE BenchSetup -----------------------------
(***************************************************************************)
(* main and ConnectPair of benchmarks/net/bench_tcp.cpp over TcpSetup: for *)
(* each of the two measurements, one thread binds a listener, connects to  *)
(* it, accepts the connection and moves the pair out to the measurement;   *)
(* whatever fails, the destructors of what exists so far run before the    *)
(* error is printed.                                                       *)
(*                                                                         *)
(* The measurements themselves are BenchRoundTrips and BenchThroughput:    *)
(* here they end well or not, and do not close a socket.                   *)
(***************************************************************************)
EXTENDS TcpSetup, Sequences

\* The sockets by where they are: ConnectPair's locals, its result, and `pair`
\* in RoundTrips and Throughput. The port is the one the listener is given.
ASSUME BenchAssumption ==
    /\ Sockets = {"client", "server", "accepted", "resultClient", "resultServer",
                  "pairClient", "pairServer"}
    /\ Listeners = {"listener"} /\ Threads = {"main"} /\ Ports = {"any"}

VARIABLES
    pc,          \* where the thread is
    phase,       \* the measurement: "roundTrips", "throughput"
    configured,  \* descriptors Configure has dealt with
    leaving,     \* objects still to be destroyed at the end of a scope
    error,       \* the error ConnectPair returns
    exit         \* what main returned

program == <<phase, configured, leaving, error, exit>>
all == <<vars, pc, program>>

BenchInit ==
    /\ Init
    /\ pc = "arguments"
    /\ phase = "roundTrips"
    /\ configured = {}
    /\ leaving = <<>>
    /\ error = "none"
    /\ exit = "running"

Goes(next) == pc' = next /\ UNCHANGED program

Exits(code) ==
    /\ pc' = "exited" /\ exit' = code
    /\ UNCHANGED <<phase, configured, leaving, error>>

\* Usage: --help is a success, refused arguments are a failure.
ReadArguments ==
    /\ pc = "arguments"
    /\ Goes("bind") \/ Exits("success") \/ Exits("failure")
    /\ UNCHANGED vars

-----------------------------------------------------------------------------
\* Slip: the listener is a static object.
LocalsButListener == <<"accepted", "server", "client">>

\* ConnectPair's locals, last constructed first.
Locals == <<"accepted", "server", "client", "listener">>

\* return Failure(e).
Fail(e) ==
    /\ error' = e
    /\ leaving' = Locals /\ pc' = "leave"
    /\ UNCHANGED <<phase, configured, exit>>

\* A native call that opens and closes nothing fails; SocketError::Last().
NativeFails ==
    /\ failures < MaxFailures
    /\ failures' = failures + 1
    /\ errno' = [errno EXCEPT !["main"] = "failed"]
    /\ Fail(errno'["main"])
    /\ UNCHANGED <<m_handle, kernel, port, queue, call, interrupts>>

BindCall == pc = "bind" /\ Open("main", "listener", "any") /\ Goes("listen")

ListenCall ==
    /\ pc = "listen"
    /\ \/ Listen("main", "listener") /\ Goes("endpoint")
       \/ NativeFails

LocalEndpoint ==
    /\ pc = "endpoint"
    /\ \/ UNCHANGED vars /\ Goes("connect")
       \/ NativeFails

ConnectCall == pc = "connect" /\ Open("main", "client", "any") /\ Goes("accept")

AcceptCall == pc = "accept" /\ Accept("main", "listener", "accepted") /\ Goes("take")

\* pair.server = std::move(accepted).Value().
Take == pc = "take" /\ Move("main", "server", "accepted") /\ Goes("configureClient")

\* Configure(socket, noDelay): timeouts on both directions, then TCP_NODELAY.
ConfigureCall(socket, next) ==
    /\ pc' = next
    /\ configured' = configured \cup {m_handle[socket]}
    /\ UNCHANGED <<vars, phase, leaving, error, exit>>

\* Slip: only the client is configured.
ConfigureClient ==
    /\ pc = "configureClient"
    /\ ConfigureCall("client", "returnClient") \/ NativeFails

\* The loop over both sockets.
ConfigureBoth ==
    \/ pc = "configureClient" /\ (ConfigureCall("client", "configureServer") \/ NativeFails)
    \/ pc = "configureServer" /\ (ConfigureCall("server", "returnClient") \/ NativeFails)

\* Success(std::move(pair)), member by member.
ReturnPair ==
    \/ pc = "returnClient" /\ Move("main", "resultClient", "client") /\ Goes("returnServer")
    \/ /\ pc = "returnServer"
       /\ Move("main", "resultServer", "server")
       /\ pc' = "leave" /\ leaving' = Locals
       /\ UNCHANGED <<phase, configured, error, exit>>

-----------------------------------------------------------------------------
\* Bind, Connect or Accept returns a failure.
ReturnsFailure == Discard("main") /\ Fail(call["main"].error)

\* The thread is inside Bind, Connect or Accept.
InCall ==
    \/ /\ \/ Create("main") \/ Configure("main") \/ NativeBind("main") \/ NativeConnect("main")
          \/ NativeAccept("main") \/ Adopt("main") \/ Capture("main")
       /\ UNCHANGED <<pc, program>>
    \/ ReturnsFailure

Idling == call["main"].step = "idle"

\* The destructors at the end of a scope, one by one.
Destroy ==
    LET object == Head(leaving) IN
    /\ leaving # <<>>
    /\ IF IsValid(object) THEN Close("main", object) ELSE UNCHANGED vars
    /\ configured' = {n \in configured : kernel'[n] # "free"}
    /\ leaving' = Tail(leaving)
    /\ UNCHANGED <<pc, phase, error, exit>>

\* The caller of ConnectPair: prints the error, or takes the pair.
Returned ==
    /\ pc = "leave" /\ leaving = <<>>
    /\ IF error # "none" THEN Exits("failure") ELSE Goes("takeClient")
    /\ UNCHANGED vars

TakePair ==
    \/ pc = "takeClient" /\ Move("main", "pairClient", "resultClient") /\ Goes("takeServer")
    \/ pc = "takeServer" /\ Move("main", "pairServer", "resultServer") /\ Goes("measure")

\* RoundTrips or Throughput is over; `pair` and `connected` are destroyed.
Measure ==
    /\ pc = "measure"
    /\ pc' \in {"measured", "unmeasured"}
    /\ leaving' = <<"pairServer", "pairClient", "resultServer", "resultClient">>
    /\ UNCHANGED <<vars, phase, configured, error, exit>>

\* RoundTrips(rounds) && Throughput(streamMiB).
Measured ==
    /\ leaving = <<>>
    /\ \/ /\ pc = "measured" /\ phase = "roundTrips"
          /\ pc' = "bind" /\ phase' = "throughput"
          /\ UNCHANGED <<configured, leaving, error, exit>>
       \/ pc = "measured" /\ phase = "throughput" /\ Exits("success")
       \/ pc = "unmeasured" /\ Exits("failure")
    /\ UNCHANGED vars

\* Exited: nothing more happens.
Done == pc = "exited" /\ UNCHANGED all

BenchNext ==
    \/ ReadArguments
    \/ InCall
    \/ /\ Idling
       /\ \/ BindCall \/ ListenCall \/ LocalEndpoint \/ ConnectCall \/ AcceptCall
          \/ Take \/ ConfigureBoth \/ ReturnPair \/ Destroy \/ Returned \/ TakePair
          \/ Measure \/ Measured
    \/ Done

\* The thread keeps running; failures and interruptions need not happen.
BenchSpec == BenchInit /\ [][BenchNext]_all /\ WF_all(BenchNext /\ UNCHANGED <<interrupts, failures>>)

-----------------------------------------------------------------------------
\* ConnectPair returns two connected, configured sockets and nothing else, or
\* fails and leaves no descriptor behind; main leaves none either, whichever of
\* its calls fails (bench_tcp.cpp:63-102, 280-306).
PairOrNothing ==
    /\ pc = "leave" /\ leaving = <<>> =>
          IF error # "none" THEN InUse = {}
          ELSE /\ InUse = {m_handle["resultClient"], m_handle["resultServer"]}
               /\ m_handle["resultClient"] # m_handle["resultServer"]
               /\ \A n \in InUse : kernel[n] = "connected"
    /\ pc = "exited" => InUse = {}

\* The sockets a measurement works on have the timeouts that end its waits, on
\* their own descriptors and not on ones that had their numbers before
\* (bench_tcp.cpp:35-61, 92-99).
MeasuredHasTimeouts ==
    pc = "measure" => {m_handle["pairClient"], m_handle["pairServer"]} \subseteq configured

\* The benchmark's setup ends: connecting to one's own listener before accepting
\* does not block, Accept then has a connection to return, and it gives up when
\* no descriptor is left for it (bench_tcp.cpp:81-90, tcp_listener.hpp:71-82).
Exit == <>(pc = "exited")
=============================================================================
