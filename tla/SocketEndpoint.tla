--------------------------- MODULE SocketEndpoint ---------------------------
(***************************************************************************)
(* net::SocketEndpoint (include/net/socket_endpoint.hpp) over the IPAddress *)
(* of this directory: construction, text in both directions, native        *)
(* addresses in both directions, and the order. Ports and scope ids have   *)
(* two bits instead of 16 and 32, and decimal digits are 0 and 1: their    *)
(* value is read in base two.                                              *)
(***************************************************************************)
EXTENDS IPAddress

MaxPort == 3
MaxScope == 3

\* Slip: an IPv4 endpoint keeps a scope id.
MakeScoped(address, port, scope) ==
    [m_address |-> address, m_port |-> port, m_scopeId |-> scope]

\* SocketEndpoint(address, port, scopeId).
Make(address, port, scope) ==
    [m_address |-> address, m_port |-> port,
     m_scopeId |-> IF address.m_version = "IPv6" THEN scope ELSE 0]

Endpoints == {Make(a, p, s) : a \in Addresses, p \in 0..MaxPort, s \in 0..MaxScope}

-----------------------------------------------------------------------------
\* std::to_string.
Number(n) == IF n < 2 THEN <<Digit(n)>> ELSE <<Digit(n \div 2), Digit(n % 2)>>

EndpointToString(e) ==
    LET scope == IF e.m_scopeId = 0 THEN <<>> ELSE <<"%">> \o Number(e.m_scopeId)
        host  == AddressToString(e.m_address) IN
    (IF e.m_address.m_version = "IPv6" THEN <<"[">> \o host \o scope \o <<"]">> ELSE host)
        \o <<":">> \o Number(e.m_port)

DigitValue(c) == IF c = "1" THEN 1 ELSE 0

ValueOf(digits) == FoldLeft(LAMBDA value, c : 2 * value + DigitValue(c), 0, digits)

\* std::from_chars into an unsigned type with `max`, and the test that it read
\* everything: no digits, another character or overflow is refused.
FromChars(text, max) ==
    IF text = <<>> \/ (\E i \in DOMAIN text : text[i] \notin {"0", "1"}) \/ ValueOf(text) > max
    THEN Nullopt ELSE ValueOf(text)

Find(text, c) == SelectInSeq(text, LAMBDA x : x = c)
RFind(text, c) == SelectLastInSeq(text, LAMBDA x : x = c)
From(text, i) == SubSeq(text, i, Len(text))

\* "[address]:port" and "[address%scope]:port".
ParseBracketed(text) ==
    LET close   == Find(text, "]")
        inside  == SubSeq(text, 2, close - 1)
        percent == Find(inside, "%")
        ip      == Parse(IF percent = 0 THEN inside ELSE SubSeq(inside, 1, percent - 1))
        scope   == IF percent = 0 THEN 0 ELSE FromChars(From(inside, percent + 1), MaxScope)
        port    == FromChars(From(text, close + 2), MaxPort) IN
    IF close = 0 \/ close >= Len(text) THEN Nullopt
    ELSE IF text[close + 1] # ":" \/ Nullopt \in {ip, scope, port} THEN Nullopt
    ELSE IF ip.m_version # "IPv6" THEN Nullopt
    ELSE Make(ip, port, scope)

\* "address:port".
ParsePlain(text) ==
    LET colon == RFind(text, ":")
        ip    == Parse(SubSeq(text, 1, colon - 1))
        port  == FromChars(From(text, colon + 1), MaxPort) IN
    IF colon = 0 \/ Nullopt \in {ip, port} THEN Nullopt
    ELSE IF ip.m_version # "IPv4" THEN Nullopt
    ELSE Make(ip, port, 0)

\* SocketEndpoint::Parse.
EndpointParse(text) ==
    IF text = <<>> THEN Nullopt
    ELSE IF Head(text) = "[" THEN ParseBracketed(text) ELSE ParsePlain(text)

-----------------------------------------------------------------------------
\* htons and ntohs on a little-endian machine.
Swapped(port) == 2 * (port % 2) + port \div 2

\* sizeof(sockaddr), sizeof(sockaddr_in) and sizeof(sockaddr_in6).
SockaddrSize == 16
NativeSize(family) == IF family = "AF_INET" THEN 16 ELSE 28

\* What the fields of a sockaddr_storage hold.
ToNative(e) ==
    LET family == IF e.m_address.m_version = "IPv4" THEN "AF_INET" ELSE "AF_INET6" IN
    [family |-> family, port |-> Swapped(e.m_port), bytes |-> SpanBytes(e.m_address),
     scope |-> e.m_scopeId, length |-> NativeSize(family)]

\* Slip: the length is only compared with sizeof(sockaddr).
FromNativeShort(native, length) ==
    IF length < SockaddrSize \/ native.family \notin {"AF_INET", "AF_INET6"} THEN Nullopt
    ELSE LET ip == FromBytes(native.bytes, IF native.family = "AF_INET" THEN "IPv4" ELSE "IPv6") IN
         IF ip = Nullopt THEN Nullopt ELSE Make(ip, Swapped(native.port), native.scope)

\* FromNative of the first `length` bytes of a native address.
FromNative(native, length) ==
    IF \/ length < SockaddrSize
       \/ native.family \notin {"AF_INET", "AF_INET6"}
       \/ length < NativeSize(native.family)
    THEN Nullopt
    ELSE LET ip == FromBytes(native.bytes, IF native.family = "AF_INET" THEN "IPv4" ELSE "IPv6") IN
         IF ip = Nullopt THEN Nullopt ELSE Make(ip, Swapped(native.port), native.scope)

-----------------------------------------------------------------------------
EndpointEqual(a, b) ==
    Equal(a.m_address, b.m_address) /\ a.m_port = b.m_port /\ a.m_scopeId = b.m_scopeId

\* operator<=> says less: by address, port and scope id.
EndpointLess(a, b) ==
    IF ~Equal(a.m_address, b.m_address) THEN Less(a.m_address, b.m_address)
    ELSE IF a.m_port # b.m_port THEN a.m_port < b.m_port
    ELSE a.m_scopeId < b.m_scopeId
=============================================================================
