----------------------------- MODULE IPAddress -----------------------------
(***************************************************************************)
(* net::IPAddress (include/net/ip_address.hpp) on a small scale: an IPv4   *)
(* address is two bytes written "b.b", an IPv6 address three groups written *)
(* "g:g:g" with "::" for zero groups, and bytes, groups and digits are 0   *)
(* or 1. Everything else is as in the code: which text reaches inet_pton,  *)
(* how many bytes of m_bytes count, and the order.                         *)
(***************************************************************************)
EXTENDS Integers, Sequences, SequencesExt

CONSTANT
    Nullopt  \* std::nullopt

IPV4_BYTE_COUNT == 2
IPV6_BYTE_COUNT == 3
INET6_ADDRSTRLEN == 6  \* the longest "g:g:g" and the terminating NUL

IPVersion == {"IPv4", "IPv6"}
Byte == {0, 1}

ByteCount(version) == IF version = "IPv4" THEN IPV4_BYTE_COUNT ELSE IPV6_BYTE_COUNT

\* m_bytes has room for both versions; what an IPv4 address leaves is zero.
FromBytes(bytes, version) ==
    IF Len(bytes) # ByteCount(version) THEN Nullopt
    ELSE [m_version |-> version,
          m_bytes |-> [i \in 1..IPV6_BYTE_COUNT |-> IF i <= Len(bytes) THEN bytes[i] ELSE 0]]

AnyAddress(version) == FromBytes([i \in 1..ByteCount(version) |-> 0], version)

Loopback(version) ==
    FromBytes(IF version = "IPv4" THEN <<1, 1>> ELSE <<0, 0, 1>>, version)

SpanBytes(address) == SubSeq(address.m_bytes, 1, ByteCount(address.m_version))

Addresses == UNION {{FromBytes(b, v) : b \in [1..ByteCount(v) -> Byte]} : v \in IPVersion}

-----------------------------------------------------------------------------
(***************************************************************************)
(* inet_pton and inet_ntop (external), by the spellings of an address.     *)
(***************************************************************************)
Digit(n) == IF n = 0 THEN "0" ELSE "1"

\* The digits of `bytes` with `separator` between them.
Joined(bytes, separator) ==
    [i \in 1..(2 * Len(bytes) - 1) |->
        IF i % 2 = 1 THEN Digit(bytes[(i + 1) \div 2]) ELSE separator]

\* "::" for the groups from first to last.
Shortened(bytes, first, last) ==
    LET Part(s) == IF s = <<>> THEN <<>> ELSE Joined(s, ":") IN
    Part(SubSeq(bytes, 1, first - 1)) \o <<":", ":">> \o Part(SubSeq(bytes, last + 1, Len(bytes)))

ZeroRuns(bytes) ==
    {run \in (DOMAIN bytes) \X (DOMAIN bytes) :
        run[1] <= run[2] /\ \A i \in run[1]..run[2] : bytes[i] = 0}

\* Everything inet_pton reads as this address.
Spellings(address) ==
    LET bytes == SpanBytes(address) IN
    IF address.m_version = "IPv4" THEN {Joined(bytes, ".")}
    ELSE {Joined(bytes, ":")} \cup {Shortened(bytes, run[1], run[2]) : run \in ZeroRuns(bytes)}

\* ToString: inet_ntop shortens a run of at least two zero groups.
AddressToString(address) ==
    LET bytes == SpanBytes(address)
        long  == {run \in ZeroRuns(bytes) : run[2] > run[1]} IN
    IF address.m_version = "IPv4" THEN Joined(bytes, ".")
    ELSE IF long = {} THEN Joined(bytes, ":")
    ELSE LET run == CHOOSE r \in long : \A s \in long : s[2] - s[1] <= r[2] - r[1] IN
         Shortened(bytes, run[1], run[2])

SpellingsOf == [address \in Addresses |-> Spellings(address)]

\* inet_pton stops at the first NUL of what it is given.
InetPton(buffer) ==
    LET end  == SelectInSeq(buffer, LAMBDA c : c = "NUL")
        text == SubSeq(buffer, 1, end - 1) IN
    IF \E a \in Addresses : text \in SpellingsOf[a]
    THEN CHOOSE a \in Addresses : text \in SpellingsOf[a] ELSE Nullopt

-----------------------------------------------------------------------------
\* Slip: a NUL inside the text is not looked for.
ParsePastNul(text) ==
    IF text = <<>> \/ Len(text) >= INET6_ADDRSTRLEN THEN Nullopt ELSE InetPton(Append(text, "NUL"))

\* IPAddress::Parse: both versions are tried on a copy that ends in NUL.
Parse(text) ==
    IF text = <<>> \/ Len(text) >= INET6_ADDRSTRLEN \/ (\E i \in DOMAIN text : text[i] = "NUL")
    THEN Nullopt ELSE InetPton(Append(text, "NUL"))

Equal(a, b) == a.m_version = b.m_version /\ SpanBytes(a) = SpanBytes(b)

\* Lexicographic, on sequences of one length.
LexLess(s, t) ==
    \E i \in DOMAIN s : s[i] < t[i] /\ \A j \in 1..(i - 1) : s[j] = t[j]

\* Slip: the version is not compared first.
LessByBytes(a, b) ==
    LexLess(SubSeq(SpanBytes(a), 1, 2), SubSeq(SpanBytes(b), 1, 2))

\* operator<=> says less: by version, then by the bytes that count.
Less(a, b) ==
    IF a.m_version # b.m_version THEN a.m_version = "IPv4"
    ELSE LexLess(SpanBytes(a), SpanBytes(b))
=============================================================================
