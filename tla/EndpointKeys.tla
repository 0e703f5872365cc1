---------------------------- MODULE EndpointKeys ----------------------------
(***************************************************************************)
(* Endpoints as keys: those of datagrams' senders, converted from native   *)
(* addresses, and those a program builds, inserted into a std::set         *)
(* (ip_address.hpp:27-29 promises this use; tests/net/                     *)
(* test_socket_endpoint.cpp:160-170 makes it).                             *)
(***************************************************************************)
EXTENDS SocketEndpoint

CONSTANTS
    PortsUsed,    \* ports of the addresses that occur
    ScopesUsed,   \* ... and scope ids, also given for IPv4
    LengthsUsed,  \* ... and lengths the system reports
    MaxKeys       \* bound: keys in the set

VARIABLES
    keys,  \* the set, in its order
    seen   \* history: the native addresses it should hold

vars == <<keys, seen>>

-----------------------------------------------------------------------------
Init == keys = <<>> /\ seen = {}

\* std::set::insert: at the first key that is not less, if that one is greater.
Inserted(e) ==
    LET place == SelectInSeq(keys, LAMBDA k : ~EndpointLess(k, e)) IN
    IF place = 0 THEN Append(keys, e)
    ELSE IF EndpointLess(e, keys[place]) THEN InsertAt(keys, place, e)
    ELSE keys

\* What identifies a native address: the scope id is a field of IPv6 addresses.
Identity(native) ==
    [native EXCEPT !.scope = IF native.family = "AF_INET" THEN 0 ELSE @]

\* The program builds an endpoint.
InsertMade ==
    \E a \in Addresses, p \in PortsUsed, s \in ScopesUsed :
        LET e == Make(a, p, s) IN
        /\ keys' = Inserted(e)
        /\ seen' = seen \cup {Identity(
               [family |-> IF a.m_version = "IPv4" THEN "AF_INET" ELSE "AF_INET6",
                port |-> Swapped(p), bytes |-> SpanBytes(a), scope |-> s,
                length |-> IF a.m_version = "IPv4" THEN 16 ELSE 28])}

\* The system hands over `length` bytes of an address; what FromNative refuses
\* is not inserted.
InsertNative ==
    \E a \in Addresses, p \in PortsUsed, s \in ScopesUsed, length \in LengthsUsed,
       family \in {"AF_INET", "AF_INET6", "AF_UNIX"} :
        LET whole == IF family = "AF_INET" THEN 16 ELSE 28
            native == [family |-> family, port |-> Swapped(p), bytes |-> SpanBytes(a),
                       scope |-> s, length |-> whole]
            e == FromNative(native, length) IN
        /\ family # "AF_UNIX" => Len(SpanBytes(a)) = IF family = "AF_INET" THEN 2 ELSE 3
        /\ IF e = Nullopt THEN UNCHANGED keys ELSE keys' = Inserted(e)
        /\ seen' = IF family # "AF_UNIX" /\ length >= whole THEN seen \cup {Identity(native)} ELSE seen

Next == Len(keys) < MaxKeys /\ (InsertMade \/ InsertNative)

Spec == Init /\ [][Next]_vars

-----------------------------------------------------------------------------
\* The number a native address stands for: the family, then the bytes in network
\* order, then the port and the scope id.
Rank(e) ==
    LET b == SpanBytes(e.m_address)
        address == IF e.m_address.m_version = "IPv4" THEN 2 * b[1] + b[2]
                   ELSE 8 + 4 * b[1] + 2 * b[2] + b[3] IN
    address * 16 + e.m_port * 4 + e.m_scopeId

\* The set holds one key for every native address it was given, whatever way it
\* came, and none that was never given: no truncated address is made up to a
\* whole one, no scope id tells two IPv4 endpoints apart, and two endpoints the
\* system tells apart are never merged (socket_endpoint.hpp:23-28, 150-212,
\* 216-234).
KeysAreAddresses ==
    /\ {ToNative(keys[i]) : i \in DOMAIN keys} = seen
    /\ \A i, j \in DOMAIN keys : i # j => ToNative(keys[i]) # ToNative(keys[j])

\* The set is in the order of the addresses as numbers, IPv4 before IPv6, so
\* what is inserted can be found (ip_address.hpp:178-189, socket_endpoint.hpp:222-234).
SortedByValue ==
    \A i \in 1..(Len(keys) - 1) : Rank(keys[i]) < Rank(keys[i + 1])
=============================================================================
