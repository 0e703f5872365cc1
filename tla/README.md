# TLA+ specifications of cpp-core-systems

This directory specifies the parts of the library that decide something or keep
state: the sockets, results, errors and addresses under `include/net/`, the list
`include/containers/slist.hpp`, the timer `include/time/scope_timer.hpp`, the
two-thread benchmark `benchmarks/net/bench_tcp.cpp` and the two loopback
examples under `examples/net/`. The modules are model checked with TLC and, where
noted, proved with TLAPS.

## 1. Inventory

| Component | State | Operations that change it | Hard part | What makes it correct |
|---|---|---|---|---|
| `SocketHandle` | `m_handle` | construct, move, `Reset`, `Release`, `Close`, `Swap`, destroy | numbers are reused by the system at once, from other threads too | a held number is open, has one owner, and none is lost |
| `TcpSocket` | a `SocketHandle`; the connection in the kernel | `Connect`, `Send`, `Receive`, `Shutdown`, `Close`, moves | failure after `::socket`; `EINTR`; partial transfers; half-close | valid means connected; ordered lossless stream; truthful end of stream |
| `TcpListener` | a `SocketHandle`; port and backlog in the kernel | `Bind`, `Listen`, `Accept`, `Close`, moves | `EINTR` retry; failure after `::accept`; errno after a destructor | valid means bound; no leaked connection; errors name their cause |
| `UdpSocket` | a `SocketHandle`; port and receive queue in the kernel | `Bind`, `SendTo`, `ReceiveFrom`, `Close`, moves | loss, duplicates, reordering, truncation, first-send socket | datagrams whole, sent once per call, attributed to their sender |
| creation helpers (`net/detail`) | none | `CreateSocket`, `CreateTcpSocket`, `ConfigureTcpSocket` | each can fail with a descriptor in hand | the descriptor is given back once |
| `SocketRuntime` | `m_initialized`, `m_error`, Winsock's count | constructor, destructor | nesting, threads, version mismatch, lifetime against sockets | one cleanup per successful start; sockets in scope work |
| `SocketError` | a `std::error_code` | `Last`; predicates | Winsock codes no library maps; two categories | the condition of a code decides what the predicates say |
| `SocketResult` | a value or an error | construction, moves, assignment, `Value()` | moves that throw; moved-from results | a resource has one owner; a value survives |
| `IPAddress`, `SocketEndpoint` | bytes, port, scope | parse, format, compare, hash, convert | boundaries of textual forms; unused bytes | round trips; order and hash agree with equality |
| `SList` | head, tail, size, sentinel, heap nodes | the container's members | four redundant fields; throwing copies; range erase | it is a sequence; nothing leaks |
| `bench_tcp` | two threads, a connection, latches, two errors | `main`, `ConnectPair`, `RoundTrips`, `Throughput` | blocked peer after a failure; partial transfers; latches; one thread at both ends of a connect | threads end; success means complete; the cause is reported; no descriptor is left |
| `ScopeTimer` | label, start time | constructor, destructor | nested scopes; exceptions while reporting and while unwinding; threads that share a stream | times that fit; no `std::terminate` |
| network examples | sockets of one thread | `main` | nobody reads while the thread sends; lossy network, foreign senders | they end; success is a true exchange |
| other examples, tests, build files, scripts | - | - | - | - |

How they interact: `TcpSocket`, `TcpListener` and `UdpSocket` each own one
`SocketHandle`; `TcpListener::Accept` creates `TcpSocket` objects; all of them
return `SocketResult` or `SocketError`. Everything else that objects of different
threads share is in the operating system: the descriptor table, ports, backlogs,
connection buffers, Winsock's count. Two threads on the *same* object need outside
coordination (repository README, "TCP networking"), so the models allow one call
per object at a time and any number on different objects. The benchmark's two
threads share a connection, a pair of latches and the error variables read after
the join. `SList` is a plain sequential container whose interesting environment is
an element type that may throw.

The hazards this code is exposed to are listed, each at its line, in
`PROJECT.json`.

## 2. Plan

Order of work, most important behaviour first:

1. done - `SocketHandle` and its proofs: everything else rests on ownership.
2. done - `SList` against the abstract `SListAbs`.
3. done - `TcpStream` (one connection), composed into `TcpTransfer` (all
   uses, against the abstract `ByteStream`), `BenchRoundTrips` and
   `BenchThroughput` (the two-thread programs).
4. done - `TcpSetup`: how sockets and listeners obtain and lose descriptors.
5. done - `UdpSocket` over an unreliable network.
6. done - compositions: `BenchSetup` (`main` and `ConnectPair` over `TcpSetup`),
   `EchoLoopback` (over `TcpStream`), `UdpEcho` (over `UdpSocket`).
7. done - the remaining components: addresses, endpoints, errors, results,
   `SocketRuntime`, `ScopeTimer`.
8. done - proofs about `TcpSetup`, `TcpTransfer` (with the refinement of
   `ByteStream`), `BenchThroughput`, `BenchRoundTrips` and `UdpSocket`.
9. done - proofs about `SList` (with the refinement of `SListAbs`),
   `EchoLoopback` and `UdpEcho` (on top of the invariant of `UdpSocket`).
10. done - proofs about the composition `BenchSetup`, on top of the invariant of
   `TcpSetup`.
11. done - proofs about errors, results, `SocketRuntime`, `ScopeTimer` and endpoints as
   keys.

Modules meant to be proved about declare no `RECURSIVE` operator; their constants
carry named assumptions.

## 3. Modules

### Ownership of descriptors

**SocketHandle** (`socket_handle.hpp`). `m_handle` is the field of every object,
`alive` the objects whose lifetime runs, `open` the system's descriptor table,
`raw` the numbers the client holds outside any object (from `::socket` or
`Release`). A call that closes is two steps, because the code first empties the
field (`std::exchange`, line 103) and then enters the system (line 105): `call`
holds what happens after the close. `MCSocketHandle` gives it finite sets.

**TcpSetup** (`tcp_socket.hpp`, `tcp_listener.hpp`, `detail/`) has the life of
descriptors: `Open` starts `Connect` or `Bind`, which go through `Create`,
`Configure` and a native call; `Accept` goes through `NativeAccept` and `Configure`;
`Adopt` stores the local handle in the object; `Capture` reads errno and `Discard`
destroys the local handle of a failed call, whose close may overwrite errno.
`kernel`, `port` and `queue` are the system's side. The exchange and the native
close of `Close`, `Move` and `Discard` are one step here and in `UdpSocket`;
their interleavings are the subject of `SocketHandle`. The rest of the process may
hold any part of the descriptor table from the start ("elsewhere").

**BenchSetup** (`bench_tcp.cpp`) extends `TcpSetup`: its assumption gives it one thread
and the objects of `ConnectPair` and `main` as sockets, and that thread calls what
the code calls, scope by scope: the locals, the returned pair, the measurement's
pair, and the destructors at the end of each scope.

### Streams

**TcpStream** (`tcp_socket.hpp`) has one established connection: bytes in flight
per direction, the directions shut down, and what `::send` and `::recv` may
answer (any part of the bytes, an interruption, a timeout, a reset, a failure of
its own). `connection` is how much it buffers and whether its calls time out,
chosen at the start from `CapacitiesUntimed` and `CapacitiesTimed`. `Send`,
`Receive` and their retry are on top of it. A call that cannot proceed has no
enabled outcome: it blocks. **TcpTransfer** lets both ends call everything with
every buffer size, early returns included, and implements **ByteStream**.
**BenchRoundTrips** and **BenchThroughput** are the two measurements of
`bench_tcp.cpp`, a program counter per thread, one step per socket call, latch
operation, shutdown and join. **EchoLoopback** is `main` of
`example_tcp_loopback.cpp`: one program counter at both ends of the connection.

### Datagrams

**UdpSocket** (`udp_socket.hpp`) has the same life for datagram sockets, where a
first `SendTo` creates the descriptor (`pending`) and the system picks its port,
and a network that loses, duplicates and reorders, and in which other programs send
to the same ports from their own (`Stray`). Every send is numbered; `sends` and `got`
are histories the properties speak about. **UdpEcho** extends it to `main` of
`example_udp_loopback.cpp`: the one thread calls as the code does, the receive
timeouts are steps, and `content` says which of the datagrams carry the message.

### Lists

**SListAbs** is the promise: each list object holds a sequence of values and a
throwing operation changes nothing. **SList** (`slist.hpp`) is the code: `next`
is `m_next` of nodes and sentinels (the address of a list stands for the address
of its sentinel), `head`, `tail`, `size` are the fields, `alloc` and `value` the
heap. Operations with a constant number of stores are one action, as no other
thread may touch the list. The copying loops and range erase take a step per
element, and a copying loop may throw at each element (`BuildThrow`); `Left` counts the
steps the loop of the operation in progress can still take. `Contents`,
`EqualTo` and `Streamed` compute what iteration, `operator==` and `operator<<`
compute, by following the pointers. `chain` is a history variable: the nodes of
each list in the order the operations promise; `Links` says that the pointers
spell it. `View`, the contents of all lists, is what `SListAbs` sees.

### Small parts

**IPAddress** (`ip_address.hpp`) and **SocketEndpoint** (`socket_endpoint.hpp`) are
operators on a small scale: an IPv4 address is two bytes `b.b`, an IPv6 address
three groups `g:g:g` with `::`, digits are 0 and 1, ports and scope ids have two
bits. Everything that decides is as in the code: where brackets, colons and `%`
must be, which text reaches `inet_pton`, what a digit string may become, which
lengths of a native address are accepted, which bytes count in a comparison.
**EndpointText** edits the text of an endpoint character by character and gives each
result to `Parse`; **EndpointKeys** inserts endpoints from native addresses and from
programs into an ordered set, and **EndpointHash** hashes these keys.

**SocketError** (`socket_error.hpp`): the predicates over native and `std::errc`
codes on POSIX and on Windows, with any subset of the Winsock codes mapped by the
C++ library. A code is named by its condition; that one event can have two conditions (a
timeout, a send after the own shutdown) is a matter of which code the system reports. **SocketResult** (`socket_result.hpp`): results that own a move-only
value whose moves may throw. **SocketRuntime** (`socket_runtime.hpp`): nested
runtimes and sockets in the scopes of several threads against Winsock's count.
**ScopeTimer** (`scope_timer.hpp`): nested timers of several threads that write to
one stream, with exceptions from the stream and from the timed scope. `os` holds the
reports of which every character was written, in the order in which their insertions
ended; what lies between their characters is left open (section 7).

**SmallParts** puts these four and the keys together: they share no state, so a behaviour
is one of one component, chosen at the start. **MCSmallParts** adds the texts in the same
way, and the hash, so that one run checks them all; the theorems are about `SmallParts`.

### Proofs

**SocketHandleProofs**, **BenchThroughputProofs**, **BenchRoundTripsProofs**,
**SListProofs** and **SmallPartsProofs** extend the module in their name (section 6).
**TcpSetupProofs** extends `BenchSetup`, **UdpSocketProofs** extends `UdpEcho` and
**TcpStreamProofs** extends `TcpTransfer` and `EchoLoopback`: each holds the theorems of
a component and of the program that uses it.

Each property has a plausible slip of the code next to the definition it would
change (operators commented "Slip:"): they are not used by any specification,
and substituting one for its original makes TLC report the property it belongs to.

## 4. Runs

Several properties are conjunctions of named parts; the parts are listed below in
parentheses.

| Run | Configuration | Bounds | Distinct states |
|---|---|---|---|
| `handle_ownership` | `MCSocketHandle.cfg` | 3 objects, 4 descriptors, 2 threads, symmetric | 130 (14 336 without symmetry) |
| `list_structure` | `MCSList.cfg` | 3 lists, 4 nodes, 2 values, initializers up to 2 | 23 968 |
| `tcp_byte_stream` | `MCTcpTransfer.cfg` | 3 bytes per end, buffers up to 2, capacity 2, 1 failure, 1 interruption | 273 636 |
| `tcp_setup` | `MCTcpSetup.cfg` | 2 sockets, 2 listeners, 3 descriptors, any of them in use elsewhere, 2 threads, 1 port, backlog 1, 1 failure, 1 interruption | 168 151 |
| `bench_setup` | `MCBenchSetup.cfg` | 3 descriptors, any of them in use elsewhere, backlog 1, 2 failures, 1 interruption | 2 397 |
| `bench_round_trips` | `MCBenchRoundTrips.cfg` | 3 rounds of 3 bytes; capacities 3 and 4 without timeouts, 1 and 2 with; 2 failures, 2 interruptions | 20 772 |
| `bench_throughput` | `MCBenchThroughput.cfg` | 3 chunks of 2 bytes; capacities 1, 3 and 4 with timeouts; 2 failures, 2 interruptions | 7 656 |
| `tcp_echo_example` | `MCEchoLoopback.cfg` | message of 6, buffer of 4, capacities 6 and 8 without timeouts, 1 failure, 2 interruptions | 1 202 |
| `udp_datagrams` | `MCUdpSocket.cfg` | 2 sockets, 2 descriptors, 2 ports, 2 sends, 1 datagram of another program, 1 duplicate, 1 failure, 1 interruption | 4 775 570 |
| `udp_echo_example` | `MCUdpEcho.cfg` | the program's 4 sends, 1 datagram of another program, 1 duplicate, 1 failure, 1 interruption | 256 417 |
| `small_parts` | `MCSmallParts.cfg` | texts: 2 edits; keys: 3 at once; 3 results, 2 resources; 2 threads with up to 3 nested runtimes or sockets; 2 timers in each of 2 threads | 485 889 |
| `errors_after_shutdown` | `MCSocketError.cfg` | both platforms, every set of mapped codes | stops at the violation |

What they show:

- `handle_ownership` - `HeldIsOpen`, `SingleOwner`, `NoLeak`: no dangling, shared
  or lost descriptor in any interleaving of calls on different objects.
  `ClosesOnlyItsOwn`: at the moment a number is closed nobody but the closing
  call has it. Three objects are a destination, a source and a bystander; four
  descriptors let both threads close while two more are in use.
- `list_structure` - `Structure` (`TypeOK`, `Links`, `NodesOwned`, `CopyIsFaithful`):
  the four redundant fields agree and every node is owned once, in every
  sequence of operations, also inside copying loops. `ReadersAgree`
  (`EqualityIsContents`, `StreamIsContents`): the two reading operators, which
  trust `m_size` and `m_tail`, are right. `ImplementsSequence`: refinement of
  `SListAbs`, including the strong guarantee of assignment when an element throws.
  Four nodes allow first, inner and last positions and two lists being copied at
  the same time as the heap runs out. `LoopsAdvance`: each step of a copying,
  initialising or erasing loop leaves it fewer steps (`Left`), and a range erase takes
  exactly its range. Since such a step is possible while an operation is in progress
  (deadlock is checked), the loops end.
- `tcp_byte_stream` - `ImplementsByteStream`: bytes come out once and in order,
  and zero means the end. `NeverInterrupted`: `EINTR` never leaves `Send` or
  `Receive`. Buffers and capacity smaller than what is sent force partial transfers.
- `tcp_setup` - `DescriptorsOwned` (`TypeOK`, `OwnedOnce`), `ValidMeansReady`,
  `ErrorIsTheCause`. It runs with `SetsNoSigPipe = TRUE` (BSD, macOS), `bench_setup`
  with `FALSE` (Linux), so both builds are covered.
- `bench_setup` - `PairOrNothing`: `ConnectPair` returns two connected sockets or
  leaves nothing, from whichever failure, and `main` leaves nothing.
  `MeasuredHasTimeouts`: what is measured on is what `Configure` was applied to.
  `Exit`: the thread that connects to its own listener before accepting is not
  blocked. Three descriptors are just enough, so a leak in the first measurement is
  missed by the second.
- `bench_round_trips` - `EchoIntact`: the reply equals the request after every
  round. `ReportIsTrue` (`SuccessIsComplete`, `CauseIsReported`). `Terminates`:
  without timeouts it rests on the two `Shutdown` calls alone, as long as the
  connection buffers a whole message, which for 64 bytes it does; when it does
  not, the timeouts are needed.
- `bench_throughput` - `CountsAgree`: bytes counted plus bytes under way are the
  bytes sent. `ReportIsTrue`: the "byte count mismatch" branch cannot be
  reached. `Terminates` needs the send timeout: when the worker fails while
  the main thread is blocked in a send into a full connection, no shutdown wakes
  that send (with an untimed capacity TLC finds the hang). The five-second
  timeouts of `Configure` are load-bearing, not a convenience.
- `tcp_echo_example` - `EchoIsRequest` (`TypeOK`, `NeverMismatched`,
  `NothingLostOrDoubled`) and `Terminates`, without any timeout, when the system
  buffers the whole message; with a smaller capacity the one thread waits for
  itself, which the comment at the top of the program says it avoids.
- `udp_datagrams` - `SocketsOwned` (`TypeOK`, `OwnedOnce`, `SenderCanBeAnswered`),
  `OneDatagramPerSend`, `ReceivedAsSent`. Lengths are 0, 1 and one too long for a
  transfer, so empty datagrams, empty buffers and truncation all occur; two ports
  let a port pass to another socket with datagrams under way.
- `udp_echo_example` - `SuccessIsAnExchange`, `OutcomeIsTrue` (`MismatchNeedsStray`,
  `EmptyMeansEmpty`), `NothingLeaks`, `Returns`: loss, duplicates, delays and
  foreign datagrams make it fail, never succeed wrongly, leak or wait for ever. Into the
  empty buffer of the last receive the system copies no byte of a longer datagram
  either, so `EmptyMeansEmpty` asks what its sender sent; only the truncation test of
  `ReceiveFrom` can know.
- `small_parts` - `EndpointTexts`: `Parse` accepts exactly the texts of endpoints,
  two edits away from any of them, and `ToString` inverts it. `EndpointKeySet`,
  `NearKeysDoNotCollide`: equality, order and hash agree, whatever the unused bytes
  and fields held, and endpoints that differ in one field have different hashes.
  `ConditionDecides`: what the predicates say follows from the condition of a code,
  whatever its category, the platform and the C++ library; a timeout, which is
  `IsWouldBlock` on POSIX and `IsTimedOut` on Windows, is `IsTransient` on both.
  `ResultsOwnOnce`, `ValueSurvivesThrow`: no resource is doubled, and a throwing
  move costs a result its error and never its value. `WinsockIsUp`: Winsock counts the
  initialized runtimes and every socket inside one works, whatever the nesting.
  `TimersReport`: inner times within outer ones and not negative, which a clock that can
  be set back would break; no `std::terminate`.
- `errors_after_shutdown` - `ShutdownLooksAlike`, expected to be violated. The comparisons
  of `SocketError` with `std::errc` are called cross-platform (`socket_error.hpp:158`), but
  a send after the program's own `Shutdown` is `EPIPE` on POSIX, which
  `test_socket_error.cpp:114` wants to be `IsDisconnected`, and `WSAESHUTDOWN` on Windows,
  which has no case in `Matches` and is neither that nor `std::errc::broken_pipe`.

Deadlock is checked except where the program stops (the benchmark measurements and the
examples, where a liveness property asks for that; the small parts) or may block for
ever by design (a UDP receive that nobody sends to).

Bounds on failures, interruptions, duplicates and datagrams of other programs are in the
guards of the system's actions. One or two of each suffice for the code: every retry loop is
memoryless, and every failure ends its call, so more of them repeat situations already
met. The proofs of section 6 hold for every value of these bounds.

## 5. Fairness

- `BenchRoundTrips`, `BenchThroughput`: weak fairness of each thread's next step,
  restricted to outcomes that are neither failures nor interruptions
  (`Undisturbed`). Threads are scheduled by the operating system, loopback delivers
  what has been sent, and a call whose timeout runs is answered in the end.
  Failures and interruptions are allowed and never required.
- `EchoLoopback`, `BenchSetup`, `UdpEcho`: the same for their one thread. In `UdpEcho`
  nothing is required of the network: `Returns` rests on the receive timeouts.
- `SocketHandle`, `SList`, `TcpTransfer`, `TcpSetup`, `UdpSocket` and the small parts:
  safety only; that the loops of `SList` end is stated with a measure (`LoopsAdvance`).

## 6. Proofs

All theorems hold for all values of the constants, under the named assumption of the
module (such as: the invalid handle is not a descriptor, "no object" is not an object).

`SocketHandleProofs`, for all sets of objects, descriptors and threads:
`TypeCorrect`; `Invariance` with
`Inv == TypeOK /\ CallInv /\ HeldIsOpen /\ SingleOwner /\ NoLeak`;
`HeldDescriptorsAreOpen`, `OwnershipIsExclusive`, `NothingLeaks`; and the action
property `ClosesAreExclusive`. None of the ownership invariants is inductive alone.
`CallInv` is what is missing: a call that is about to close has emptied its object's
field, keeps the object alive and to itself, and holds a real number; otherwise the
last step of `Reset`, which stores the adopted number, could overwrite a descriptor.
The lemmas treat `CloseThenAdopt` and `ResetTo` once, since `Reset`, move assignment
and `Close` share them; `OwnershipStep` has one step per action.

`TcpSetupProofs`, for all sets of sockets, listeners, descriptors, threads and ports,
any backlog and both builds: `TypeCorrect`; `AlwaysOwned` (`DescriptorsOwned`),
`AlwaysReady` (`ValidMeansReady`), `CauseIsReported` (`ErrorIsTheCause`). The
inductive invariant adds `CallShape`, how far each call's descriptor is and that its
target is still empty, and `CallsApart`, that no two calls work on one object: without
them the last step of `Connect` could store its handle over another one.
`CallShape` also carries the cause of a failure from the native call over `Capture`.

On top of these it proves `BenchSetup`, for any descriptors, backlog and numbers of
failures and interruptions: `BenchInvariance`, `PairIsComplete` (`PairOrNothing`) and
`MeasuredAreConfigured` (`MeasuredHasTimeouts`). `BenchInv` is the invariant of
`TcpSetup` and, for each statement of `ConnectPair` and `main`, exactly which objects hold
a descriptor (`Kept`), how far the call in progress is, and which destructors still have
to run: they hold all the rest (`Leaving`). Timeouts belong to a descriptor and move with
it from the local to the result to the caller's pair (`Timed`); a closed number may come
back as another socket, and is then not one of theirs because every descriptor has one
owner. `Causes` adds that a call that gives up has an error, or the caller would take the
failure of `ConnectPair` for a pair. Each statement is one lemma (`BenchOpens` to
`BenchGoesOn`) over what a step of a call of `TcpSetup` may change.

`TcpStreamProofs` proves `TcpTransfer`, for any capacities, buffers, stream lengths and
numbers of failures: `InterruptionsAreRetried` (`NeverInterrupted`) and `Refinement`
(`ImplementsByteStream`). The invariant says what is in flight (`InOrder`: the bytes
right after those received), that nothing is lost between the counts (`Conserved`),
and that a told end has nothing left to receive (`ToldTrue`); the step simulation
maps each return of `Send`, `Receive`, `Shutdown` and `Close` to its abstract action
or to a stutter.

It also proves `EchoLoopback`, for any message, buffer length and capacities:
`LoopbackInvariance` and `EchoHolds` (`EchoIsRequest`). That nothing is lost says where
the bytes are only together, and cannot be inductive; `LoopbackInv` says for each place
`main` may be at where the message is cut: what the client has received, what is in
flight to it, what the server's chunk still has to send, what is in flight to the server,
and what is not sent yet, and which sides are shut down. `FivePieces` joins the five.

`BenchThroughputProofs`, for any chunk size, number of chunks and capacities:
`BytesAreCounted` (`CountsAgree`) and `ReportsAreTrue` (`ReportIsTrue`). The counts need
the place in the current chunk (`WholeChunks`, `InChunk`); the reports need how each
thread leaves its loop (`Exits`), that a socket is shut down only by a thread that has
recorded an error of its own (`ShutsAreErrors`), and what the join hands over
(`Joined`).

`BenchRoundTripsProofs`, for any message size, number of rounds and capacities:
`EchoIsRequest` (`EchoIntact`) and `ReportsAreTrue` (`ReportIsTrue`). That the reply is
the request says nothing of how far the server is, and cannot be inductive. `Exchange`
adds it: while the client sends round r, the server has a prefix of that request, the
bytes between its place and the client's are in flight, and no echo is; while the client
waits, the server is receiving the rest, sending the echo (`ServerSending`) or already
in the next round (`ServerAhead`), and the bytes between the client's place and the
server's are in flight; at the end nothing is. A server with an error may be anywhere,
but what it had sent remains in flight. Four lemmas, one for each thread and direction,
move these places by the bytes of one call; `GivesUp` treats all calls that fail, with
`ShutsAreErrors` as above.

`UdpSocketProofs`, for all sets of sockets, descriptors, threads and ports and any
limits: `AlwaysOwned` (`SocketsOwned`), `SentOnce` (`OneDatagramPerSend`),
`ReceivedTruthfully` (`ReceivedAsSent`). The invariant adds the stages of a call
(`CallShape`), that two calls share neither object nor send (`CallsApart`), what a
send under way has handed over (`SendShape`), and that every datagram in the network,
in a queue or received is what its send handed over (`Truthful`). The main step is
`HandStep`: the descriptor `::sendto` goes through belongs to the call or to its object
alone, so the port it may get there changes nobody else's. `Delivery` adds the system's
side: no two descriptors share a port (`PortsApart`), and a datagram is queued only where
it was sent to (`Routed`).

On top of these it proves `UdpEcho`, for any ports, limits and other programs:
`EchoInvariance`, `SuccessMeansExchange` (`SuccessIsAnExchange`), `OutcomesAreTrue`
(`OutcomeIsTrue`) and `AllIsClosed` (`NothingLeaks`). The invariant `EchoInv` is that of
`UdpSocket`, `Delivery`, and one description of the state per statement of `main`
(`Position`): which of the two sockets is open, which sends are the program's own, and how
far the call in progress is. Until the answer is collected the program's own sends are
the request and the reply alone, and its two ports differ; so a datagram the client
receives from the server's port can only be the reply, whose content is that of the
datagram the server got, and if it carries the message the exchange was a true one. When
nobody else has sent, what the server got is the request, so the reply matches; this is
where a reply of the wrong length would break the proof. A cut datagram would break the
one about the empty datagram: what `ReceiveFrom` reports is what its send handed over
(`Truthful`), so size 0 means that nothing was sent in it (`Handed`). A few lemmas
say once what a step of `SendTo`, `Bind` or `ReceiveFrom` may change (`SendStep`,
`BindSteps`, `ReceiveSteps`), and each statement of `main` is one lemma on top of them.
The theorems about `UdpSocket` use nothing of `UdpEcho`.

`SListProofs`, for any lists, any finite heap, any values and any place where a copy
throws: `StructureHolds` (`Structure`), `ReadersHold` (`ReadersAgree`), `Refinement`
(`ImplementsSequence`), `LoopsTerminate` (`LoopsAdvance`), and `EraseStaysInside`, that the
loop of `erase_after(first, last)` never asks for an element after the last one. What one list's pointers do under an
operation depends on no node being in two lists or twice in one, so the invariant is
about all chains at once: `Heap` (the fields of every list spell its chain, every
allocated node is in one chain once, free cells have null links) and `Control` (a copy
has the first elements of its source and stands at the next one, an erase stands before
an element of the range it was given, `Temp` is empty otherwise). The actions are few
changes of such a heap: an element put in, elements taken out, a list emptied, two lists
exchanged, one moved; each is one lemma over the fields as parameters. `Walk` and
`FlattenSeq` are recursive functions: two functions with the same recursive equation are
equal by their least point of difference, and the chain satisfies the equation of the
walk, so what iteration, `operator==` and `operator<<` compute is known without
induction over the list. The refinement maps a step of a copying loop to a stutter and each
other step to the change of the sequence it makes. For `LoopsAdvance`, `Left` is a
difference of two positions in the chain (`LeftIs`, `ElementsFromPlace`), and a deletion
takes out the one node behind `first`, which moves the nodes after it by one place.

`SmallPartsProofs`, for any threads, results, resources, errors, depths, clocks, keys and
ports and lengths that occur, one invariant per component:

- `ErrorsByCondition` (`ConditionDecides`). `CodesInv` is what an error may be; the content
  is `SameVerdict`, that a predicate's answer depends only on the condition, because every
  Winsock code the C++ library may leave unmapped is normalized before it is compared.
- `ResultsOwn` (`ResultsOwnOnce`) and `ValuesSurvive` (`ValueSurvivesThrow`).
  `OutcomesInv` says without counting that two results never hold the same resource and
  none holds one of the program's; every move takes a value out of one place in the step
  that puts it into another, or in none when it throws.
- `WinsockStaysUp` (`WinsockIsUp`). `Counted` makes Winsock's count the number of
  initialized runtimes of all threads and those under construction, so the last cleanup
  happens only when no runtime is initialized; that is what preserves `Sheltered`, that
  no socket inside an initialized runtime is lost.
- `TimersAreTrue` (`TimersReport`). What has been reported is consistent only because of
  what is still to be: `TimersInv` follows a timer from its thread's stack (`Ordered`)
  over its formatted line (`Formatted`) to the stream (`Reported`), and relates its times
  at each place to the reports of the scopes inside it (`Nested`).
- `KeysAreASet` (`EndpointKeySet`), for the small scale of bytes and any number of keys.
  `operator<=>` is the order of the numbers native addresses stand for (`EndpointOrder`),
  so the place `std::set::insert` finds keeps the order (`InsertedKeepsOrder`); and what
  `FromNative` makes of a whole native address is converted back to it
  (`MadeFromAddress`, `NativesDiffer`), so `KeysInv` can say that the keys are exactly the
  addresses given.

Only model checked: `EndpointTexts`, which is about all texts within two edits and
folds over their digits, and `NearKeysDoNotCollide`, which is about bitwise hashing, both
out of the provers' reach; and all liveness properties, since the prover has no
`ENABLED`.

## 7. Not modelled

- `SocketResult<void>`, copies of results, comparisons of errors with raw codes,
  `Message()` and printing: no state, no decision beyond a standard library call.
- IPv6 texts that end in a dotted IPv4 address; full-width bytes, ports, scope ids and
  decimal digits (the small scale keeps every boundary: longest number, overflow,
  leading zeros, empty).
- Endpoint queries, which only read kernel state (their failure is a step of `BenchSetup`
  and `UdpEcho`); hashing and comparison of handles; a sender address of neither
  family, which a UDP socket cannot receive.
- The other examples, which call fixed sequences of modelled operations and print;
  tests, build files, scripts, platform includes, traits, print helpers, and the
  files that only reserve directories.
- Times measured, texts printed and number formatting.
- What a stream makes of insertions by several threads. `ScopeTimer` assumes a stream
  that threads may use at once, as C++ promises of `std::cout`, its default; on any other
  stream shared by threads the insertions are a data race that the program must exclude.
  Characters may mix even on `std::cout`, and a failed insertion may leave part of a line:
  no property is about either.

Choices inside the models: the cap of a transfer at `INT_MAX` bytes is one of the partial
transfers `TcpStream` allows. In the measurement models a `Shutdown` after an error
succeeds: it fails only when the connection is already gone, and then the other side
is not waiting on it. Blocking `::connect` is one step, and listening backlogs count
connections without identifying the peer. Close is taken to free the descriptor
whatever it returns, as Linux and Winsock do. `SocketRuntime` is modelled as compiled for
Windows; elsewhere it does nothing, and the other modules follow the POSIX branches.
