----------------------------- MODULE SmallParts -----------------------------
(***************************************************************************)
(* The components whose operations run to their end without another        *)
(* component: errors, results, Winsock's lifetime, timers, and endpoints as *)
(* keys. They share no state, so a behaviour is one of one of them, chosen *)
(* at the start, and the states of one run are their sum.                  *)
(***************************************************************************)
EXTENDS Naturals, FiniteSets

CONSTANTS
    None,                                                \* no value
    Results, Resources, Errors, NoError, MovesMayThrow,  \* SocketResult
    Threads, MaxDepth,                                   \* SocketRuntime
    MaxTimers, MaxTime,                                  \* ScopeTimer
    PortsUsed, ScopesUsed, LengthsUsed, MaxKeys          \* EndpointKeys

ASSUME SmallPartsAssumption ==
    /\ {MaxTimers, MaxTime} \subseteq Nat
    /\ MaxDepth \in Nat \ {0}
    /\ None \notin Resources /\ NoError \notin Errors
    /\ MovesMayThrow \in BOOLEAN
    /\ IsFiniteSet(Threads)

VARIABLES
    part,                          \* the component that runs
    windows, mapped, m_ec,         \* SocketError
    m_storage, caller,             \* SocketResult
    scopes, constructing, started, \* SocketRuntime
    now, timers, built, line, os, unwinding, terminated, \* ScopeTimer
    keys, seen                     \* EndpointKeys

Codes == INSTANCE SocketError
Outcomes == INSTANCE SocketResult
Winsock == INSTANCE SocketRuntime
Timers == INSTANCE ScopeTimer
Keys == INSTANCE EndpointKeys WITH Nullopt <- None

ASSUME KeysAssumption ==
    /\ PortsUsed \subseteq 0..Keys!MaxPort /\ ScopesUsed \subseteq 0..Keys!MaxScope
    /\ LengthsUsed \subseteq Nat /\ MaxKeys \in Nat
    /\ None \notin Keys!Addresses \cup Keys!Endpoints

codes == <<windows, mapped, m_ec>>
outcomes == <<m_storage, caller>>
winsock == <<scopes, constructing, started>>
timing == <<now, timers, built, line, os, unwinding, terminated>>
endpoints == <<keys, seen>>
allVars == <<part, codes, outcomes, winsock, timing, endpoints>>

Parts == {"codes", "outcomes", "winsock", "timers", "keys"}

\* The component that runs is in its initial state.
PartsStart ==
    /\ IF part = "codes" THEN Codes!Init ELSE windows = None /\ mapped = None /\ m_ec = None
    /\ IF part = "outcomes" THEN Outcomes!Init ELSE m_storage = None /\ caller = None
    /\ IF part = "winsock" THEN Winsock!Init
       ELSE scopes = None /\ constructing = None /\ started = None
    /\ IF part = "timers" THEN Timers!Init
       ELSE /\ now = None /\ timers = None /\ built = None /\ line = None /\ os = None
            /\ unwinding = None /\ terminated = None
    /\ IF part = "keys" THEN Keys!Init ELSE keys = None /\ seen = None

PartsInit == part \in Parts /\ PartsStart

\* A step of the component that runs.
PartsNext ==
    /\ UNCHANGED part
    /\ IF part = "codes" THEN Codes!Next ELSE UNCHANGED codes
    /\ IF part = "outcomes" THEN Outcomes!Next ELSE UNCHANGED outcomes
    /\ IF part = "winsock" THEN Winsock!Next ELSE UNCHANGED winsock
    /\ IF part = "timers" THEN Timers!Next ELSE UNCHANGED timing
    /\ IF part = "keys" THEN Keys!Next ELSE UNCHANGED endpoints

PartsSpec == PartsInit /\ [][PartsNext]_allVars

-----------------------------------------------------------------------------
\* The condition of an error decides what its predicates say, whatever the
\* category, the platform and the C++ library, and a timeout is transient under
\* either of its two conditions (socket_error.hpp:54-111, 203-238).
ConditionDecides == part = "codes" => Codes!ConditionDecides /\ Codes!TimeoutIsTransient

\* A socket returned through results has one owner (socket_result.hpp:22-107).
ResultsOwnOnce == part = "outcomes" => Outcomes!TypeOK /\ Outcomes!OwnedOnce

\* A move that throws costs a result its error, never its value
\* (socket_result.hpp:105-106).
ValueSurvivesThrow == [][part = "outcomes" => Outcomes!ValueSurvives]_allVars

\* Winsock is up for every socket inside an initialized runtime, and down when
\* no runtime is left (socket_runtime.hpp:13-45).
WinsockIsUp ==
    part = "winsock" => Winsock!TypeOK /\ Winsock!Balanced /\ Winsock!NestedSocketsWork

\* The times that timers report nest as their scopes did, in every thread, and
\* no timer ends the program (scope_timer.hpp:28-69).
TimersReport == part = "timers" => Timers!InnerFitsInOuter /\ Timers!ExceptionsArrive

\* A std::set of endpoints that came from native addresses or from a program
\* holds each address once and in order (socket_endpoint.hpp:150-234).
EndpointKeySet == part = "keys" => Keys!KeysAreAddresses /\ Keys!SortedByValue
=============================================================================
