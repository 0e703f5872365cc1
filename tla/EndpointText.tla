---------------------------- MODULE EndpointText ----------------------------
(***************************************************************************)
(* The text of endpoints, as a user edits it: from what ToString wrote of  *)
(* some endpoint, characters are inserted, replaced and removed one by one, *)
(* and each text is given to SocketEndpoint::Parse.                        *)
(***************************************************************************)
EXTENDS SocketEndpoint

CONSTANTS
    MaxEdits,   \* bound: edits
    MaxDigits   \* the longest number an edited text can have

VARIABLES
    origin,  \* the endpoint that was written
    text,
    edits    \* edits so far

vars == <<origin, text, edits>>

Characters == {"[", "]", ":", "%", ".", "0", "1", "NUL"}

\* Where editing starts: numbers of one and of two digits, with and without a
\* scope id, and addresses of every shape.
Start == {Make(a, p, s) : a \in {AnyAddress("IPv4"), Loopback("IPv4"), AnyAddress("IPv6"), Loopback("IPv6"),
                                 FromBytes(<<1, 0, 1>>, "IPv6")},
                          p \in {0, MaxPort}, s \in {0, MaxScope}}

Init ==
    /\ origin \in Start
    /\ text = EndpointToString(origin)
    /\ edits = 0

Insert == \E i \in 1..(Len(text) + 1), c \in Characters : text' = InsertAt(text, i, c)
Replace == \E i \in DOMAIN text, c \in Characters : text' = [text EXCEPT ![i] = c]
Erase == \E i \in DOMAIN text : text' = RemoveAt(text, i)

Next ==
    /\ edits < MaxEdits
    /\ edits' = edits + 1
    /\ Insert \/ Replace \/ Erase
    /\ UNCHANGED origin

Spec == Init /\ [][Next]_vars

-----------------------------------------------------------------------------
(***************************************************************************)
(* The reference: an endpoint's texts are its address in any spelling, its *)
(* numbers with any leading zeros, put together as documented.             *)
(***************************************************************************)
Digits == UNION {[1..n -> {"0", "1"}] : n \in 1..MaxDigits}

Numerals == [n \in 0..MaxPort |-> {d \in Digits : ValueOf(d) = n}]

ScopeTexts(scope) ==
    {<<"%">> \o d : d \in Numerals[scope]} \cup (IF scope = 0 THEN {<<>>} ELSE {})

TextsOf ==
    [e \in Endpoints |->
        IF e.m_address.m_version = "IPv4"
        THEN {a \o <<":">> \o p : a \in Spellings(e.m_address), p \in Numerals[e.m_port]}
        ELSE {<<"[">> \o a \o s \o <<"]", ":">> \o p :
                a \in Spellings(e.m_address), s \in ScopeTexts(e.m_scopeId), p \in Numerals[e.m_port]}]

\* Parse accepts exactly the texts of endpoints and reads each as the endpoint
\* it was written for: nothing is accepted that has bytes left over, a number
\* that does not fit, a NUL inside, an IPv6 address without brackets or an
\* IPv4 address in them (socket_endpoint.hpp:66-146, ip_address.hpp:58-95).
ParseReadsTexts ==
    LET parsed == EndpointParse(text) IN
    IF parsed = Nullopt THEN \A e \in Endpoints : text \notin TextsOf[e]
    ELSE text \in TextsOf[parsed]

\* An endpoint written by ToString and read again is the same endpoint, also
\* when it was itself read from a text in another spelling
\* (socket_endpoint.hpp:23-28, 54-64).
RoundTrip ==
    LET parsed == EndpointParse(text) IN
    /\ parsed # Nullopt => EndpointParse(EndpointToString(parsed)) = parsed
    /\ edits = 0 => parsed = origin
=============================================================================
