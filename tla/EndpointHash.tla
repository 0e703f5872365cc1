---------------------------- MODULE EndpointHash ----------------------------
(***************************************************************************)
(* The hash of the endpoints in EndpointKeys, as an unordered container of *)
(* the same keys uses it.                                                  *)
(***************************************************************************)
EXTENDS EndpointKeys, Bitwise

\* FNV-1a with six bits instead of 64, or 32.
HashSize == 64
HashOffset == 37

HashPrime == 19

Mix(hash, value) == ((hash ^^ value) * HashPrime) % HashSize

\* IPAddress::Hash.
HashAddress(a) ==
    FoldLeft(Mix, Mix(HashOffset, IF a.m_version = "IPv4" THEN 0 ELSE 1), SpanBytes(a))

\* Slip: the scope id is left out.
HashUnscoped(e) == Mix(HashAddress(e.m_address), e.m_port)

\* SocketEndpoint::Hash.
Hash(e) == Mix(Mix(HashAddress(e.m_address), e.m_port), e.m_scopeId)

-----------------------------------------------------------------------------
\* Two keys that differ in one of port, scope id and last byte never collide,
\* although the products overflow (ip_address.hpp:191-210, socket_endpoint.hpp:238-251).
NearKeysDoNotCollide ==
    \A i, j \in DOMAIN keys :
        LET a == keys[i]
            b == keys[j]
            AddressLike(x, y) ==
                x.m_version = y.m_version /\ Front(SpanBytes(x)) = Front(SpanBytes(y))
            differences == {f \in {"m_port", "m_scopeId", "m_address"} : a[f] # b[f]} IN
        (\E f \in {"m_port", "m_scopeId", "m_address"} : differences = {f})
            /\ AddressLike(a.m_address, b.m_address)
        => Hash(a) # Hash(b)
=============================================================================
