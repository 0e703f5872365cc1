-------------------------- MODULE SmallPartsProofs --------------------------
(***************************************************************************)
(* SmallParts for any threads, results, resources, errors, keys and        *)
(* bounds. Each part has an inductive invariant of its own: CodesInv,      *)
(* OutcomesInv, WinsockInv, TimersInv, KeysInv.                            *)
(***************************************************************************)
EXTENDS SmallParts, FiniteSetTheorems, SequenceTheorems, WellFoundedInduction, TLAPS

\* The parts count with the same operator.
LEMMA SameCardinality ==
    \A S : Outcomes!Cardinality(S) = Cardinality(S) /\ Winsock!Cardinality(S) = Cardinality(S)
BY DEF Cardinality, Winsock!Cardinality, Outcomes!Cardinality

-----------------------------------------------------------------------------
(***************************************************************************)
(* Errors. The answer of a predicate depends only on the condition of the  *)
(* error, not on the platform, the category or the C++ library: codes that *)
(* the library may not map are normalized.                                 *)
(***************************************************************************)

\* The two conditions that are one code on POSIX.
Blocked == {"operation_would_block", "resource_unavailable_try_again"}

\* The error at hand is no error, one of the system's or a std::errc.
CodesInv ==
    /\ windows \in BOOLEAN
    /\ ~windows => mapped = Codes!Conditions
    /\ \/ m_ec = Codes!Success
       \/ \E code \in Codes!NativeCodes : m_ec = Codes!System(code)
       \/ \E c \in Codes!Conditions : m_ec = Codes!Generic(c)

LEMMA CodesStep == CodesInv /\ (Codes!Next \/ UNCHANGED codes) => CodesInv'
<1>1. CASE UNCHANGED codes
    BY <1>1 DEF CodesInv, codes, Codes!NativeCodes
<1>2. CASE CodesInv /\ Codes!Next
    BY <1>2 DEF CodesInv, Codes!Next, Codes!Last, Codes!FromErrc, Codes!NativeCodes
<1> QED BY <1>1, <1>2

LEMMA CodeAtHand ==
    CodesInv => /\ m_ec.category \in {"system", "generic"}
                /\ m_ec.code \in Codes!Conditions \cup {"shutdown", "unknown", "success"}
                /\ m_ec.category = "generic" => m_ec.code \in Codes!Conditions
BY DEF CodesInv, Codes!NativeCodes, Codes!PosixCodes, Codes!WinsockCodes, Codes!Conditions,
       Codes!Success, Codes!System, Codes!Generic

\* A condition with a code of its own is matched by that code alone.
LEMMA Matching ==
    ASSUME CodesInv, NEW c \in Codes!Conditions \ Blocked
    PROVE  Codes!Matches(m_ec, c) <=> m_ec.code = c
<1>1. Codes!Same(m_ec.code, c) <=> m_ec.code = c
    BY DEF Codes!Same, Blocked
<1>2. CASE windows /\ m_ec.category = "system" /\ m_ec.code \in Codes!Cases
    BY <1>2 DEF Codes!Matches, Codes!Normalized, Blocked
<1>3. CASE windows /\ m_ec.category = "system" /\ m_ec.code \notin Codes!Cases
    <2>1. m_ec.code # c /\ ~Codes!Same(m_ec.code, c)
        BY <1>1, <1>3 DEF CodesInv, Codes!NativeCodes, Codes!WinsockCodes, Codes!Conditions,
               Codes!Cases, Codes!Success, Codes!System, Codes!Generic, Blocked
    <2> QED BY <1>3, <2>1 DEF Codes!Matches, Codes!Equivalent
<1>4. CASE m_ec.category = "generic" \/ ~windows
    <2>1. m_ec.category = "system" => (m_ec.code = c => m_ec.code \in mapped)
        BY <1>4 DEF CodesInv
    <2> QED BY <1>1, <1>4, <2>1 DEF Codes!Matches, Codes!Equivalent
<1> QED BY <1>2, <1>3, <1>4, CodeAtHand DEF CodesInv

LEMMA Blocking == CodesInv => (Codes!IsWouldBlock(m_ec) <=> m_ec.code \in Blocked)
<1> SUFFICES ASSUME CodesInv PROVE Codes!IsWouldBlock(m_ec) <=> m_ec.code \in Blocked
    OBVIOUS
<1>1. CASE windows /\ m_ec.category = "system" /\ m_ec.code \in Codes!Cases
    BY <1>1 DEF Codes!IsWouldBlock, Codes!Matches, Codes!Normalized, Codes!Cases, Blocked
<1>2. CASE windows /\ m_ec.category = "system" /\ m_ec.code \notin Codes!Cases
    BY <1>2 DEF CodesInv, Codes!NativeCodes, Codes!WinsockCodes, Codes!Conditions, Codes!Cases,
           Codes!Success, Codes!System, Codes!Generic, Blocked,
           Codes!IsWouldBlock, Codes!Matches, Codes!Equivalent, Codes!Same
<1>3. CASE m_ec.category = "generic" \/ ~windows
    <2>1. m_ec.category = "system" => (m_ec.code \in Blocked => m_ec.code \in mapped)
        BY <1>3 DEF CodesInv, Codes!Conditions, Blocked
    <2> QED BY <1>3, <2>1
            DEF Codes!IsWouldBlock, Codes!Matches, Codes!Equivalent, Codes!Same, Blocked
<1> QED BY <1>1, <1>2, <1>3, CodeAtHand DEF CodesInv

\* The predicates say of the error at hand what its condition means.
LEMMA SameVerdict == CodesInv => Codes!ConditionDecides
<1> SUFFICES ASSUME CodesInv PROVE Codes!Verdict(m_ec) = Codes!Meaning(m_ec.code)
    BY DEF Codes!ConditionDecides
<1> DEFINE code == m_ec.code
           Disconnecting == {"connection_reset", "connection_aborted", "broken_pipe", "not_connected"}
<1>1. \A c \in Codes!Single \cup {"message_size"} : Codes!Matches(m_ec, c) <=> code = c
    BY Matching DEF Codes!Single, Codes!Conditions, Blocked
<1>2. Codes!IsTransient(m_ec) <=> code \in Blocked \cup {"interrupted", "timed_out"}
    BY <1>1, Blocking DEF Codes!IsTransient, Codes!Single
<1>3. Codes!IsDisconnected(m_ec) <=> code \in Disconnecting
    BY Matching DEF Codes!IsDisconnected, Codes!Conditions, Blocked
<1>4. {c \in Codes!Single \cup {"message_size"} : Codes!Matches(m_ec, c)}
        = {c \in Codes!Single \cup {"message_size"} : code = c}
    BY <1>1
<1>5. Codes!Verdict(m_ec) = {c \in Codes!Single \cup {"message_size"} : code = c}
                            \cup (IF code \in Blocked THEN {"wouldBlock"} ELSE {})
                            \cup (IF code \in Blocked \cup {"interrupted", "timed_out"}
                                  THEN {"transient"} ELSE {})
                            \cup (IF code \in Disconnecting THEN {"disconnected"} ELSE {})
    BY <1>2, <1>3, <1>4, Blocking DEF Codes!Verdict
<1>6. code \in Codes!Conditions \cup {"shutdown", "unknown", "success"}
    BY CodeAtHand
<1> HIDE DEF code
<1> SUFFICES Codes!Verdict(m_ec) = Codes!Meaning(code)
    BY DEF code
<1>7. CASE code \in Blocked
    BY <1>5, <1>7 DEF Codes!Meaning, Codes!Single, Blocked
<1>8. CASE code \in {"interrupted", "timed_out"}
    BY <1>5, <1>8 DEF Codes!Meaning, Codes!Single, Blocked
<1>9. CASE code \in {"connection_reset", "connection_aborted"}
    BY <1>5, <1>9 DEF Codes!Meaning, Codes!Single, Blocked
<1>10. CASE code \in {"not_connected", "broken_pipe"}
    BY <1>5, <1>10 DEF Codes!Meaning, Codes!Single, Blocked
<1>11. CASE code \in {"connection_refused", "address_in_use", "message_size"}
    BY <1>5, <1>11 DEF Codes!Meaning, Codes!Single, Blocked
<1>12. CASE code \in {"shutdown", "unknown", "success"}
    BY <1>5, <1>12 DEF Codes!Meaning, Codes!Single, Blocked
<1> QED BY <1>6, <1>7, <1>8, <1>9, <1>10, <1>11, <1>12 DEF Codes!Conditions, Blocked

LEMMA TimeoutsAreTransient == CodesInv => Codes!TimeoutIsTransient
<1> SUFFICES ASSUME CodesInv,
                    m_ec = Codes!System(IF windows THEN "timed_out" ELSE "resource_unavailable_try_again")
             PROVE  Codes!IsTransient(m_ec)
    BY DEF Codes!TimeoutIsTransient
<1>1. m_ec.code = IF windows THEN "timed_out" ELSE "resource_unavailable_try_again"
    BY DEF Codes!System
<1>2. Codes!Matches(m_ec, "timed_out") <=> m_ec.code = "timed_out"
    BY Matching DEF Codes!Conditions, Blocked
<1> QED BY <1>1, <1>2, Blocking DEF Codes!IsTransient, Blocked

\* The invariant of the part, whatever the others are.
LEMMA CodesAlways == PartsSpec => [](part = "codes" => CodesInv)
<1>1. PartsInit => (part = "codes" => CodesInv)
    BY DEF PartsInit, PartsStart, CodesInv, Codes!Init
<1>2. (part = "codes" => CodesInv) /\ [PartsNext]_allVars => (part = "codes" => CodesInv)'
    <2>1. CASE PartsNext
        BY <2>1, CodesStep DEF PartsNext
    <2>2. CASE UNCHANGED allVars
        BY <2>2, CodesStep DEF allVars
    <2> QED BY <2>1, <2>2
<1> QED BY <1>1, <1>2, PTL DEF PartsSpec

\* The predicates say of an error what its condition means, whichever category
\* and platform it comes from and however many Winsock codes the C++ library
\* maps; both conditions of a timeout are transient
\* (socket_error.hpp:54-111, 203-238).
THEOREM ErrorsByCondition == PartsSpec => []ConditionDecides
<1>1. (part = "codes" => CodesInv) => ConditionDecides
    BY SameVerdict, TimeoutsAreTransient DEF ConditionDecides
<1> QED BY <1>1, CodesAlways, PTL

-----------------------------------------------------------------------------
(***************************************************************************)
(* Results. A resource has one holder; every action takes it out of one    *)
(* place in the same step in which it puts it into another.                *)
(***************************************************************************)

\* What a result's variant may be.
Contents == {Outcomes!Value(v) : v \in Resources \cup {None}} \cup {Outcomes!Failed(e) : e \in Errors}
            \cup {Outcomes!Valueless, Outcomes!Unborn}

\* Two results never hold the same resource, and none holds one of the program's.
OutcomesInv ==
    /\ m_storage \in [Results -> Contents]
    /\ caller \subseteq Resources
    /\ \A r, s \in Results : m_storage[r].value = m_storage[s].value => m_storage[r].value = None \/ r = s
    /\ \A r \in Results : m_storage[r].value \notin caller

LEMMA ContentsFacts ==
    /\ \A c \in Contents : /\ c.value \in Resources \cup {None} /\ c.index \in 0..3
                           /\ [c EXCEPT !.value = None] \in Contents
                           /\ [c EXCEPT !.value = None].value = None
                           /\ [c EXCEPT !.value = None].index = c.index
                           /\ c.index # 0 => c.value = None
                           /\ c.index = 2 <=> c = Outcomes!Valueless
    /\ \A v \in Resources \cup {None} : Outcomes!Value(v) \in Contents /\ Outcomes!Value(v).value = v
    /\ \A e \in Errors : Outcomes!Failed(e) \in Contents /\ Outcomes!Failed(e).value = None
    /\ Outcomes!Valueless \in Contents /\ Outcomes!Valueless.value = None
    /\ Outcomes!Unborn \in Contents /\ Outcomes!Unborn.value = None
<1>1. \A c \in Contents : /\ c.value \in Resources \cup {None} /\ c.index \in 0..3
                          /\ c.index # 0 => c.value = None
                          /\ c.index = 2 <=> c = Outcomes!Valueless
    BY DEF Contents, Outcomes!Value, Outcomes!Failed, Outcomes!Valueless, Outcomes!Unborn
<1>2. \A c \in Contents : /\ [c EXCEPT !.value = None] \in Contents
                          /\ [c EXCEPT !.value = None].value = None
                          /\ [c EXCEPT !.value = None].index = c.index
    BY DEF Contents, Outcomes!Value, Outcomes!Failed, Outcomes!Valueless, Outcomes!Unborn
<1>3. \A v \in Resources \cup {None} : Outcomes!Value(v) \in Contents /\ Outcomes!Value(v).value = v
    BY DEF Contents, Outcomes!Value
<1>4. \A e \in Errors : Outcomes!Failed(e) \in Contents /\ Outcomes!Failed(e).value = None
    BY DEF Contents, Outcomes!Failed
<1>5. /\ Outcomes!Valueless \in Contents /\ Outcomes!Valueless.value = None
      /\ Outcomes!Unborn \in Contents /\ Outcomes!Unborn.value = None
    BY DEF Contents, Outcomes!Valueless, Outcomes!Unborn
<1> QED BY <1>1, <1>2, <1>3, <1>4, <1>5

\* A result is given contents that hold nothing, or a resource of the program's.
LEMMA GivenOne ==
    ASSUME OutcomesInv, NEW r \in Results, NEW c \in Contents,
           m_storage' = [m_storage EXCEPT ![r] = c], caller' \subseteq caller,
           c.value = None \/ c.value \in caller \ caller'
    PROVE  OutcomesInv'
<1> USE DEF OutcomesInv
<1>1. \A s \in Results : m_storage'[s] = IF s = r THEN c ELSE m_storage[s]
    OBVIOUS
<1>2. m_storage' \in [Results -> Contents] /\ caller' \subseteq Resources
    OBVIOUS
<1>3. \A q, s \in Results : m_storage'[q].value = m_storage'[s].value => m_storage'[q].value = None \/ q = s
    BY <1>1
<1>4. \A s \in Results : m_storage'[s].value \notin caller'
    BY <1>1, SmallPartsAssumption
<1> QED BY <1>2, <1>3, <1>4

\* Contents go from one result to another, which loses its own.
LEMMA GivenOver ==
    ASSUME OutcomesInv, NEW r \in Results, NEW s \in Results, r # s,
           m_storage' = [m_storage EXCEPT ![r] = m_storage[s], ![s] = Outcomes!MovedFrom(s)],
           caller' = caller
    PROVE  OutcomesInv'
<1> USE DEF OutcomesInv
<1>1. /\ Outcomes!MovedFrom(s) \in Contents
      /\ Outcomes!MovedFrom(s).value = None
    BY ContentsFacts DEF Outcomes!MovedFrom
<1>2. \A q \in Results : m_storage'[q] = IF q = s THEN Outcomes!MovedFrom(s)
                                         ELSE IF q = r THEN m_storage[s] ELSE m_storage[q]
    OBVIOUS
<1>3. m_storage' \in [Results -> Contents] /\ caller' \subseteq Resources
    BY <1>1
<1>4. \A q, p \in Results : m_storage'[q].value = m_storage'[p].value => m_storage'[q].value = None \/ q = p
    BY <1>1, <1>2
<1>5. \A q \in Results : m_storage'[q].value \notin caller'
    BY <1>1, <1>2, SmallPartsAssumption
<1> QED BY <1>3, <1>4, <1>5

LEMMA Unchanged == OutcomesInv /\ UNCHANGED outcomes => OutcomesInv'
BY DEF OutcomesInv, outcomes

LEMMA OutcomesStep == OutcomesInv /\ (Outcomes!Next \/ UNCHANGED outcomes) => OutcomesInv'
<1> SUFFICES ASSUME OutcomesInv, Outcomes!Next \/ UNCHANGED outcomes PROVE OutcomesInv'
    OBVIOUS
<1>0. None \notin Resources /\ caller \subseteq Resources /\ m_storage \in [Results -> Contents]
    BY SmallPartsAssumption DEF OutcomesInv
<1>1. ASSUME NEW v \in Resources, Outcomes!Acquire(v) \/ Outcomes!Drop(v) PROVE OutcomesInv'
    BY <1>1 DEF OutcomesInv, Outcomes!Acquire, Outcomes!Drop
<1>2. ASSUME NEW r \in Results, NEW v \in Resources, Outcomes!Succeed(r, v) PROVE OutcomesInv'
    <2>1. CASE m_storage' = [m_storage EXCEPT ![r] = Outcomes!Value(v)]
        BY <1>2, <2>1, ContentsFacts, GivenOne DEF Outcomes!Succeed
    <2>2. CASE UNCHANGED m_storage
        BY <1>2, <2>2 DEF Outcomes!Succeed, OutcomesInv
    <2> QED BY <1>2, <2>1, <2>2 DEF Outcomes!Succeed
<1>3. ASSUME NEW r \in Results, NEW e \in Errors, Outcomes!Fail(r, e) PROVE OutcomesInv'
    BY <1>3, ContentsFacts, GivenOne DEF Outcomes!Fail
<1>4. ASSUME NEW r \in Results, NEW s \in Results, Outcomes!Forward(r, s) PROVE OutcomesInv'
    <2>1. Outcomes!Error(s) \in Errors
        BY <1>0, <1>4 DEF Outcomes!Forward, Outcomes!Error, Outcomes!HasValue, Contents,
               Outcomes!Value, Outcomes!Failed, Outcomes!Valueless, Outcomes!Unborn
    <2> QED BY <1>3, <1>4, <2>1 DEF Outcomes!Forward
<1>5. ASSUME NEW r \in Results, NEW s \in Results, Outcomes!MoveConstruct(r, s) PROVE OutcomesInv'
    <2>1. r # s
        BY <1>5 DEF Outcomes!MoveConstruct
    <2> QED BY <1>5, <2>1, GivenOver, Unchanged DEF Outcomes!MoveConstruct, outcomes
<1>6. ASSUME NEW r \in Results, NEW s \in Results, Outcomes!Assign(r, s) PROVE OutcomesInv'
    <2>1. CASE m_storage' = [m_storage EXCEPT ![r] = m_storage[s], ![s] = Outcomes!MovedFrom(s)]
        BY <1>6, <2>1, GivenOver DEF Outcomes!Assign
    <2>2. CASE m_storage' = m_storage
        BY <1>6, <2>2, Unchanged DEF Outcomes!Assign, outcomes
    <2>3. CASE m_storage' = [m_storage EXCEPT ![r] = Outcomes!Valueless]
        BY <1>6, <2>3, ContentsFacts, GivenOne DEF Outcomes!Assign
    <2> QED BY <1>6, <2>1, <2>2, <2>3 DEF Outcomes!Assign
<1>7. ASSUME NEW r \in Results, Outcomes!TakeValue(r) PROVE OutcomesInv'
    <2>1. CASE /\ caller' = caller \cup ({m_storage[r].value} \ {None})
               /\ m_storage' = [m_storage EXCEPT ![r] = Outcomes!MovedFrom(r)]
        <3>1. Outcomes!MovedFrom(r) \in Contents /\ Outcomes!MovedFrom(r).value = None
              /\ m_storage[r].value \in Resources \cup {None}
            BY <1>0, ContentsFacts DEF Outcomes!MovedFrom
        <3>2. \A s \in Results : m_storage'[s] = IF s = r THEN Outcomes!MovedFrom(r) ELSE m_storage[s]
            BY <1>0, <2>1
        <3>3. m_storage' \in [Results -> Contents] /\ caller' \subseteq Resources
            BY <1>0, <2>1, <3>1
        <3>4. \A q, s \in Results : m_storage'[q].value = m_storage'[s].value => m_storage'[q].value = None \/ q = s
            BY <3>1, <3>2 DEF OutcomesInv
        <3>5. \A s \in Results : m_storage'[s].value \notin caller'
            BY <1>0, <2>1, <3>1, <3>2 DEF OutcomesInv
        <3> QED BY <3>3, <3>4, <3>5 DEF OutcomesInv
    <2>2. CASE UNCHANGED <<caller, m_storage>>
        BY <2>2, Unchanged DEF outcomes
    <2> QED BY <1>7, <2>1, <2>2 DEF Outcomes!TakeValue
<1>8. ASSUME NEW r \in Results, Outcomes!Destroy(r) PROVE OutcomesInv'
    BY <1>8, ContentsFacts, GivenOne DEF Outcomes!Destroy
<1> QED BY <1>1, <1>2, <1>3, <1>4, <1>5, <1>6, <1>7, <1>8, Unchanged DEF Outcomes!Next

\* At most one result holds a resource, and none when the program does.
LEMMA OneHolder == OutcomesInv => Outcomes!TypeOK /\ Outcomes!OwnedOnce
<1> SUFFICES ASSUME OutcomesInv PROVE Outcomes!TypeOK /\ Outcomes!OwnedOnce
    OBVIOUS
<1>1. Outcomes!TypeOK
    BY DEF OutcomesInv, Outcomes!TypeOK, Contents
<1>2. ASSUME NEW v \in Resources
      PROVE  Cardinality({r \in Results : m_storage[r].value = v}) <= IF v \in caller THEN 0 ELSE 1
    <2> DEFINE holders == {r \in Results : m_storage[r].value = v}
    <2>1. CASE \E r \in Results : m_storage[r].value = v
        <3>1. PICK r \in Results : m_storage[r].value = v
            BY <2>1
        <3>2. holders = {r} /\ v \notin caller
            BY <3>1, SmallPartsAssumption DEF OutcomesInv
        <3>3. Cardinality(holders) = 1
            BY <3>2, FS_Singleton
        <3> QED BY <3>2, <3>3
    <2>2. CASE ~\E r \in Results : m_storage[r].value = v
        <3>1. holders = {}
            BY <2>2
        <3>2. Cardinality(holders) = 0
            BY <3>1, FS_EmptySet
        <3> QED BY <3>2
    <2> QED BY <2>1, <2>2
<1>3. Outcomes!OwnedOnce
    BY <1>2, SameCardinality DEF Outcomes!OwnedOnce
<1> QED BY <1>1, <1>3

\* A value becomes valueless only when a valueless result is assigned over it.
LEMMA ValueLost ==
    ASSUME OutcomesInv, Outcomes!Next
    PROVE  Outcomes!ValueSurvives
<1> SUFFICES ASSUME NEW q \in Results, Outcomes!HasValue(q), m_storage'[q] = Outcomes!Valueless
             PROVE  \E s \in Results : m_storage[s] = Outcomes!Valueless
    BY DEF Outcomes!ValueSurvives
<1>1. /\ m_storage \in [Results -> Contents]
      /\ m_storage[q].index = 0 /\ m_storage'[q].index = 2
    BY DEF OutcomesInv, Outcomes!HasValue, Outcomes!Valueless
<1>2. m_storage' # m_storage
    BY <1>1
<1>3. \A r \in Results : Outcomes!Born(r) <=> m_storage[r] # Outcomes!Unborn
    BY DEF Outcomes!Born
<1>4. Outcomes!Born(q)
    BY <1>1 DEF Outcomes!Born, Outcomes!Unborn
<1>5. ASSUME NEW r \in Results, NEW s \in Results, r # s,
             m_storage' = [m_storage EXCEPT ![r] = m_storage[s], ![s] = Outcomes!MovedFrom(s)]
      PROVE  m_storage[s] = Outcomes!Valueless
    <2>1. /\ Outcomes!MovedFrom(s).index = m_storage[s].index
          /\ m_storage[s].index = 2 <=> m_storage[s] = Outcomes!Valueless
        BY <1>1, ContentsFacts DEF Outcomes!MovedFrom
    <2>2. m_storage'[q] = IF q = s THEN Outcomes!MovedFrom(s)
                          ELSE IF q = r THEN m_storage[s] ELSE m_storage[q]
        BY <1>1, <1>5
    <2> QED BY <1>1, <2>1, <2>2
<1>6. ASSUME NEW r \in Results, NEW s \in Results, Outcomes!MoveConstruct(r, s) \/ Outcomes!Assign(r, s)
      PROVE  m_storage[s] = Outcomes!Valueless
    <2>1. r # s
        BY <1>6 DEF Outcomes!MoveConstruct, Outcomes!Assign
    <2>2. CASE ~Outcomes!HasValue(r) /\ m_storage' = [m_storage EXCEPT ![r] = Outcomes!Valueless]
        BY <1>1, <2>2 DEF Outcomes!HasValue
    <2> QED BY <1>2, <1>5, <1>6, <2>1, <2>2 DEF Outcomes!MoveConstruct, Outcomes!Assign
<1>7. ASSUME NEW r \in Results, NEW e \in Errors, Outcomes!Fail(r, e) PROVE FALSE
    BY <1>1, <1>4, <1>7 DEF Outcomes!Fail
<1>8. ASSUME NEW r \in Results, NEW v \in Resources, Outcomes!Succeed(r, v) PROVE FALSE
    BY <1>1, <1>2, <1>4, <1>8 DEF Outcomes!Succeed
<1>9. ASSUME NEW r \in Results, Outcomes!TakeValue(r) PROVE FALSE
    <2>1. Outcomes!MovedFrom(r).index = 0 /\ m_storage' = [m_storage EXCEPT ![r] = Outcomes!MovedFrom(r)]
        BY <1>1, <1>2, <1>9, ContentsFacts DEF Outcomes!TakeValue, Outcomes!MovedFrom, Outcomes!HasValue
    <2> QED BY <1>1, <2>1
<1>10. ASSUME NEW r \in Results, Outcomes!Destroy(r) PROVE FALSE
    BY <1>1, <1>10 DEF Outcomes!Destroy, Outcomes!Unborn
<1>11. ASSUME NEW r \in Results, NEW s \in Results, Outcomes!Forward(r, s) PROVE FALSE
    BY <1>1, <1>4, <1>11 DEF Outcomes!Forward, Outcomes!Fail
<1>12. ASSUME NEW v \in Resources, Outcomes!Acquire(v) \/ Outcomes!Drop(v) PROVE FALSE
    BY <1>2, <1>12 DEF Outcomes!Acquire, Outcomes!Drop
<1> QED BY <1>6, <1>7, <1>8, <1>9, <1>10, <1>11, <1>12 DEF Outcomes!Next

LEMMA OutcomesAlways == PartsSpec => [](part = "outcomes" => OutcomesInv)
<1>1. PartsInit => (part = "outcomes" => OutcomesInv)
    <2> SUFFICES ASSUME PartsInit, part = "outcomes" PROVE OutcomesInv
        OBVIOUS
    <2>1. m_storage = [r \in Results |-> Outcomes!Unborn] /\ caller = {}
        BY DEF PartsInit, PartsStart, Outcomes!Init
    <2> QED BY <2>1, ContentsFacts DEF OutcomesInv
<1>2. (part = "outcomes" => OutcomesInv) /\ [PartsNext]_allVars => (part = "outcomes" => OutcomesInv)'
    <2>1. CASE PartsNext
        BY <2>1, OutcomesStep DEF PartsNext
    <2>2. CASE UNCHANGED allVars
        BY <2>2, OutcomesStep DEF allVars
    <2> QED BY <2>1, <2>2
<1> QED BY <1>1, <1>2, PTL DEF PartsSpec

\* What is returned through results has one owner, whatever is moved, assigned
\* over, taken out or abandoned by an exception (socket_result.hpp:22-107).
THEOREM ResultsOwn == PartsSpec => []ResultsOwnOnce
<1>1. (part = "outcomes" => OutcomesInv) => ResultsOwnOnce
    BY OneHolder DEF ResultsOwnOnce
<1> QED BY <1>1, OutcomesAlways, PTL

\* A throwing move never costs a result its value (socket_result.hpp:105-106).
THEOREM ValuesSurvive == PartsSpec => ValueSurvivesThrow
<1>1. (part = "outcomes" => OutcomesInv) /\ [PartsNext]_allVars
      => [part = "outcomes" => Outcomes!ValueSurvives]_allVars
    BY ValueLost DEF PartsNext
<1> QED BY <1>1, OutcomesAlways, PTL DEF PartsSpec, ValueSurvivesThrow
-----------------------------------------------------------------------------
(***************************************************************************)
(* Winsock's lifetime. Counting the initialized runtimes is what keeps     *)
(* Winsock up: a last cleanup (started = 1) happens only when no other     *)
(* runtime is initialized, so no socket that it takes away is inside one.  *)
(***************************************************************************)

\* What may be in scope.
Objects == {Winsock!Runtime(TRUE, "none"), Winsock!Runtime(FALSE, "startupFailed"),
            Winsock!Runtime(FALSE, "versionNotSupported")}
           \cup {Winsock!Socket(state) : state \in {"invalid", "open", "refused", "dead"}}

Lost == {Winsock!Socket("refused"), Winsock!Socket("dead")}

\* The places of initialized runtimes in the scopes s.
UpIn(s) == {place \in Threads \X (1..MaxDepth) :
                place[2] \in DOMAIN s[place[1]] /\ s[place[1]][place[2]].initialized}

\* A socket inside an initialized runtime is not lost.
Sheltered(s) ==
    \A t \in Threads : \A i, j \in DOMAIN s[t] : s[t][j].initialized /\ j < i => s[t][i] \notin Lost

\* The scopes s with n runtimes being constructed, of which Winsock counts m.
Counted(s, n, m) ==
    /\ s \in [Threads -> Seq(Objects)]
    /\ \A t \in Threads : Len(s[t]) <= MaxDepth
    /\ n \in Nat /\ m = n + Cardinality(UpIn(s))
    /\ Sheltered(s)

WinsockInv ==
    /\ constructing \subseteq Threads
    /\ \A t \in constructing : Len(scopes[t]) < MaxDepth
    /\ Counted(scopes, Cardinality(constructing), started)

LEMMA ObjectsFacts ==
    /\ \A o \in Objects : o.initialized \in BOOLEAN /\ (o.initialized <=> o = Winsock!Runtime(TRUE, "none"))
    /\ \A o \in Lost : o \in Objects /\ ~o.initialized
    /\ \A state \in {"invalid", "open"} : /\ Winsock!Socket(state) \in Objects \ Lost
                                          /\ ~Winsock!Socket(state).initialized
    /\ \A state \in {"refused", "dead"} : Winsock!Socket(state) \in Lost
    /\ \A error \in {"startupFailed", "versionNotSupported"} :
          Winsock!Runtime(FALSE, error) \in Objects \ Lost /\ ~Winsock!Runtime(FALSE, error).initialized
    /\ Winsock!Runtime(TRUE, "none") \in Objects \ Lost /\ Winsock!Runtime(TRUE, "none").initialized
<1>0. \A state \in {"invalid", "open", "refused", "dead"} :
         /\ Winsock!Socket(state) \in Objects /\ Winsock!Socket(state).initialized = FALSE
         /\ Winsock!Socket(state) # Winsock!Runtime(TRUE, "none")
    BY DEF Objects, Winsock!Socket, Winsock!Runtime
<1>1. \A o \in Objects : o.initialized \in BOOLEAN /\ (o.initialized <=> o = Winsock!Runtime(TRUE, "none"))
    <2> SUFFICES ASSUME NEW o \in Objects
                 PROVE  o.initialized \in BOOLEAN /\ (o.initialized <=> o = Winsock!Runtime(TRUE, "none"))
        OBVIOUS
    <2>1. CASE \E state \in {"invalid", "open", "refused", "dead"} : o = Winsock!Socket(state)
        BY <1>0, <2>1
    <2>2. CASE o = Winsock!Runtime(TRUE, "none")
        BY <2>2 DEF Winsock!Runtime
    <2>3. ASSUME NEW error \in {"startupFailed", "versionNotSupported"}, o = Winsock!Runtime(FALSE, error)
          PROVE  o.initialized = FALSE /\ o # Winsock!Runtime(TRUE, "none")
        BY <2>3 DEF Winsock!Runtime
    <2> QED BY <2>1, <2>2, <2>3 DEF Objects
<1>2. \A o \in Lost : o \in Objects /\ ~o.initialized
    BY <1>0 DEF Lost
<1>3. \A state \in {"invalid", "open"} : /\ Winsock!Socket(state) \in Objects \ Lost
                                         /\ ~Winsock!Socket(state).initialized
    BY DEF Lost, Objects, Winsock!Socket
<1>4. \A state \in {"refused", "dead"} : Winsock!Socket(state) \in Lost
    BY DEF Lost
<1>5. \A error \in {"startupFailed", "versionNotSupported"} :
         Winsock!Runtime(FALSE, error) \in Objects \ Lost /\ ~Winsock!Runtime(FALSE, error).initialized
    BY DEF Lost, Objects, Winsock!Runtime, Winsock!Socket
<1>6. Winsock!Runtime(TRUE, "none") \in Objects \ Lost /\ Winsock!Runtime(TRUE, "none").initialized
    BY DEF Lost, Objects, Winsock!Runtime, Winsock!Socket
<1> QED BY <1>1, <1>2, <1>3, <1>4, <1>5, <1>6

LEMMA UpIsFinite == \A s : IsFiniteSet(UpIn(s)) /\ Cardinality(UpIn(s)) \in Nat
<1> TAKE s
<1>1. IsFiniteSet(1..MaxDepth)
    BY FS_Interval, SmallPartsAssumption
<1>2. IsFiniteSet(Threads \X (1..MaxDepth))
    BY <1>1, FS_Product, SmallPartsAssumption
<1>3. UpIn(s) \subseteq Threads \X (1..MaxDepth)
    BY DEF UpIn
<1>4. IsFiniteSet(UpIn(s))
    BY <1>2, <1>3, FS_Subset
<1> QED BY <1>4, FS_CardinalityType

LEMMA ScopeFacts ==
    ASSUME NEW s \in [Threads -> Seq(Objects)], NEW t \in Threads
    PROVE  /\ Len(s[t]) \in Nat /\ DOMAIN s[t] = 1..Len(s[t])
           /\ \A i \in 1..Len(s[t]) : s[t][i] \in Objects /\ s[t][i].initialized \in BOOLEAN
BY LenProperties, ElementOfSeq, ObjectsFacts

\* Nothing is initialized when nothing is counted.
LEMMA NothingUp ==
    ASSUME NEW s, Cardinality(UpIn(s)) = 0, \A t \in Threads : DOMAIN s[t] \subseteq 1..MaxDepth
    PROVE  \A t \in Threads : \A i \in DOMAIN s[t] : ~s[t][i].initialized
<1>1. UpIn(s) = {}
    BY UpIsFinite, FS_EmptySet
<1>2. ASSUME NEW t \in Threads, NEW i \in DOMAIN s[t], s[t][i].initialized PROVE FALSE
    <2>1. <<t, i>> \in Threads \X (1..MaxDepth)
        OBVIOUS
    <2>2. <<t, i>> \in UpIn(s)
        BY <1>2, <2>1 DEF UpIn
    <2> QED BY <1>1, <2>2
<1> QED BY <1>2

\* An object comes into scope.
LEMMA EnterScope ==
    ASSUME NEW n, NEW m, Counted(scopes, n, m), NEW t \in Threads, Len(scopes[t]) < MaxDepth,
           NEW o \in Objects \ Lost
    PROVE  /\ Winsock!With(t, o) \in [Threads -> Seq(Objects)]
           /\ \A u \in Threads : Len(Winsock!With(t, o)[u]) = IF u = t THEN Len(scopes[t]) + 1 ELSE Len(scopes[u])
           /\ Counted(Winsock!With(t, o), n, m + IF o.initialized THEN 1 ELSE 0)
<1> DEFINE s == Winsock!With(t, o)
           k == Len(scopes[t]) + 1
<1>1. /\ scopes \in [Threads -> Seq(Objects)] /\ \A u \in Threads : Len(scopes[u]) <= MaxDepth
      /\ Sheltered(scopes) /\ n \in Nat /\ m = n + Cardinality(UpIn(scopes)) /\ MaxDepth \in Nat
    BY SmallPartsAssumption DEF Counted
<1>2. /\ Len(scopes[t]) \in Nat /\ k \in 1..MaxDepth
      /\ \A u \in Threads : Len(scopes[u]) \in Nat /\ DOMAIN scopes[u] = 1..Len(scopes[u])
    BY <1>1, ScopeFacts
<1>3. /\ Append(scopes[t], o) \in Seq(Objects) /\ Len(Append(scopes[t], o)) = k
      /\ DOMAIN Append(scopes[t], o) = 1..k
      /\ \A i \in 1..k : Append(scopes[t], o)[i] = IF i = k THEN o ELSE scopes[t][i]
    BY <1>1, <1>2
<1>4. s = [scopes EXCEPT ![t] = Append(scopes[t], o)]
    BY DEF Winsock!With
<1>5. /\ s \in [Threads -> Seq(Objects)] /\ s[t] = Append(scopes[t], o)
      /\ \A u \in Threads : u # t => s[u] = scopes[u]
    BY <1>1, <1>3, <1>4
<1> HIDE DEF s
<1>6. /\ DOMAIN s[t] = 1..k /\ Len(s[t]) = k
      /\ \A u \in Threads : u # t => DOMAIN s[u] = DOMAIN scopes[u] /\ Len(s[u]) = Len(scopes[u])
      /\ s[t][k] = o /\ \A i \in 1..Len(scopes[t]) : i # k /\ i \in 1..k /\ s[t][i] = scopes[t][i]
    BY <1>2, <1>3, <1>5
<1>7. Sheltered(s)
    <2> SUFFICES ASSUME NEW u \in Threads, NEW i \in DOMAIN s[u], NEW j \in DOMAIN s[u],
                        s[u][j].initialized, j < i
                 PROVE  s[u][i] \notin Lost
        BY DEF Sheltered
    <2>1. CASE u # t
        BY <1>1, <1>5, <2>1 DEF Sheltered
    <2>2. CASE u = t /\ i = k
        BY <1>6, <2>2
    <2>3. CASE u = t /\ i # k
        <3>1. i \in DOMAIN scopes[t] /\ j \in DOMAIN scopes[t]
            BY <1>2, <1>6, <2>3
        <3> QED BY <1>1, <1>2, <1>6, <2>3, <3>1 DEF Sheltered
    <2> QED BY <2>1, <2>2, <2>3
<1>8. <<t, k>> \notin UpIn(scopes) /\ <<t, k>> \in Threads \X (1..MaxDepth)
    BY <1>2 DEF UpIn
<1>9. ASSUME NEW u \in Threads, NEW i \in 1..MaxDepth
      PROVE  (i \in DOMAIN s[u] /\ s[u][i].initialized) <=>
             \/ i \in DOMAIN scopes[u] /\ scopes[u][i].initialized
             \/ u = t /\ i = k /\ o.initialized
    BY <1>2, <1>5, <1>6
<1>10. UpIn(s) = IF o.initialized THEN UpIn(scopes) \cup {<<t, k>>} ELSE UpIn(scopes)
    <2>1. \A p \in Threads \X (1..MaxDepth) :
             p \in UpIn(s) <=> p \in UpIn(scopes) \/ (o.initialized /\ p[1] = t /\ p[2] = k)
        BY <1>9 DEF UpIn
    <2>2. \A p \in Threads \X (1..MaxDepth) : p[1] = t /\ p[2] = k <=> p = <<t, k>>
        OBVIOUS
    <2>3. UpIn(s) \subseteq Threads \X (1..MaxDepth) /\ UpIn(scopes) \subseteq Threads \X (1..MaxDepth)
        BY DEF UpIn
    <2> QED BY <1>8, <2>1, <2>2, <2>3
<1>11. Cardinality(UpIn(s)) = Cardinality(UpIn(scopes)) + IF o.initialized THEN 1 ELSE 0
    <2>1. CASE o.initialized
        <3>1. Cardinality(UpIn(scopes) \cup {<<t, k>>}) = Cardinality(UpIn(scopes)) + 1
            BY <1>8, UpIsFinite, FS_AddElement
        <3> QED BY <1>10, <2>1, <3>1
    <2>2. CASE ~o.initialized
        BY <1>10, <2>2, UpIsFinite
    <2> QED BY <2>1, <2>2
<1>12. \A u \in Threads : Len(s[u]) <= MaxDepth
    BY <1>1, <1>2, <1>6
<1>13. m + (IF o.initialized THEN 1 ELSE 0) = n + Cardinality(UpIn(s))
    BY <1>1, <1>11, UpIsFinite
<1>14. \A u \in Threads : Len(s[u]) = IF u = t THEN Len(scopes[t]) + 1 ELSE Len(scopes[u])
    BY <1>6
<1>15. Counted(s, n, m + IF o.initialized THEN 1 ELSE 0)
    BY <1>1, <1>5, <1>7, <1>12, <1>13 DEF Counted
<1> QED BY <1>5, <1>14, <1>15 DEF s

\* The innermost object goes out of scope.
LEMMA LeaveScope ==
    ASSUME NEW n, NEW m, Counted(scopes, n, m), NEW t \in Threads, Len(scopes[t]) > 0,
           NEW s, s = [scopes EXCEPT ![t] = SubSeq(@, 1, Len(scopes[t]) - 1)]
    PROVE  /\ scopes[t][Len(scopes[t])] \in Objects
           /\ \A u \in Threads : Len(s[u]) <= Len(scopes[u])
           /\ Counted(s, n, m - IF scopes[t][Len(scopes[t])].initialized THEN 1 ELSE 0)
<1> DEFINE k == Len(scopes[t])
           o == scopes[t][k]
<1>1. /\ scopes \in [Threads -> Seq(Objects)] /\ \A u \in Threads : Len(scopes[u]) <= MaxDepth
      /\ Sheltered(scopes) /\ n \in Nat /\ m = n + Cardinality(UpIn(scopes)) /\ MaxDepth \in Nat
    BY SmallPartsAssumption DEF Counted
<1>2. /\ k \in Nat /\ k \in 1..MaxDepth /\ k \in 1..Len(scopes[t])
      /\ \A u \in Threads : Len(scopes[u]) \in Nat /\ DOMAIN scopes[u] = 1..Len(scopes[u])
    BY <1>1, ScopeFacts
<1>3. o \in Objects
    BY <1>1, <1>2, ScopeFacts
<1>4. /\ SubSeq(scopes[t], 1, k - 1) \in Seq(Objects) /\ Len(SubSeq(scopes[t], 1, k - 1)) = k - 1
      /\ DOMAIN SubSeq(scopes[t], 1, k - 1) = 1..(k - 1)
      /\ \A i \in 1..(k - 1) : SubSeq(scopes[t], 1, k - 1)[i] = scopes[t][i]
    <2>1. \A i \in 1..(k - 1) : scopes[t][i] \in Objects
        BY <1>1, <1>2, ScopeFacts
    <2> DEFINE front == SubSeq(scopes[t], 1, k - 1)
    <2>2. /\ front \in Seq(Objects) /\ Len(front) = IF 1 <= k - 1 THEN k - 1 - 1 + 1 ELSE 0
          /\ \A i \in 1..(k - 1 - 1 + 1) : front[i] = scopes[t][1 + i - 1]
        BY <1>2, <2>1, SubSeqProperties
    <2> HIDE DEF front
    <2>3. Len(front) = k - 1
        BY <1>2, <2>2
    <2>4. \A i \in 1..(k - 1) : front[i] = scopes[t][i]
        <3> TAKE i \in 1..(k - 1)
        <3>1. i \in 1..(k - 1 - 1 + 1) /\ 1 + i - 1 = i
            BY <1>2
        <3> QED BY <2>2, <3>1
    <2>5. DOMAIN front = 1..(k - 1)
        BY <2>2, <2>3, LenProperties
    <2> QED BY <2>2, <2>3, <2>4, <2>5 DEF front
<1>5. /\ s \in [Threads -> Seq(Objects)] /\ s[t] = SubSeq(scopes[t], 1, k - 1)
      /\ \A u \in Threads : u # t => s[u] = scopes[u]
    BY <1>1, <1>4
<1>6. /\ DOMAIN s[t] = 1..(k - 1) /\ Len(s[t]) = k - 1
      /\ \A u \in Threads : u # t => DOMAIN s[u] = DOMAIN scopes[u] /\ Len(s[u]) = Len(scopes[u])
      /\ \A i \in 1..(k - 1) : i # k /\ i \in 1..k /\ s[t][i] = scopes[t][i]
    BY <1>2, <1>4, <1>5
<1>7. \A u \in Threads : /\ Len(s[u]) <= Len(scopes[u]) /\ Len(s[u]) <= MaxDepth
                         /\ DOMAIN s[u] \subseteq DOMAIN scopes[u]
                         /\ \A i \in DOMAIN s[u] : s[u][i] = scopes[u][i]
    <2> TAKE u \in Threads
    <2>1. CASE u = t
        <3>1. k - 1 <= k /\ k - 1 <= MaxDepth /\ 1..(k - 1) \subseteq 1..k
            BY <1>1, <1>2
        <3> QED BY <1>2, <1>6, <2>1, <3>1
    <2>2. CASE u # t
        <3>1. s[u] = scopes[u]
            BY <1>5, <2>2
        <3>2. Len(scopes[u]) \in Nat /\ Len(scopes[u]) <= MaxDepth
            BY <1>1, ScopeFacts
        <3>3. Len(scopes[u]) <= Len(scopes[u])
            BY <3>2
        <3> QED BY <3>1, <3>2, <3>3
    <2> QED BY <2>1, <2>2
<1>8. Sheltered(s)
    BY <1>1, <1>7 DEF Sheltered
<1>9. <<t, k>> \in Threads \X (1..MaxDepth) /\ (<<t, k>> \in UpIn(scopes) <=> o.initialized)
    BY <1>2 DEF UpIn
<1>10. ASSUME NEW u \in Threads, NEW i \in 1..MaxDepth
       PROVE  (i \in DOMAIN s[u] /\ s[u][i].initialized) <=>
              (i \in DOMAIN scopes[u] /\ scopes[u][i].initialized) /\ ~(u = t /\ i = k)
    BY <1>2, <1>5, <1>6
<1>11. UpIn(s) = UpIn(scopes) \ {<<t, k>>}
    <2>1. \A p \in Threads \X (1..MaxDepth) :
             p \in UpIn(s) <=> p \in UpIn(scopes) /\ ~(p[1] = t /\ p[2] = k)
        BY <1>10 DEF UpIn
    <2>2. \A p \in Threads \X (1..MaxDepth) : p[1] = t /\ p[2] = k <=> p = <<t, k>>
        OBVIOUS
    <2>3. UpIn(s) \subseteq Threads \X (1..MaxDepth) /\ UpIn(scopes) \subseteq Threads \X (1..MaxDepth)
        BY DEF UpIn
    <2> QED BY <1>9, <2>1, <2>2, <2>3
<1>12. Cardinality(UpIn(s)) = Cardinality(UpIn(scopes)) - IF o.initialized THEN 1 ELSE 0
    <2>1. CASE o.initialized
        <3>1. Cardinality(UpIn(scopes) \ {<<t, k>>}) = Cardinality(UpIn(scopes)) - 1
            BY <1>9, <2>1, UpIsFinite, FS_RemoveElement
        <3> QED BY <1>11, <2>1, <3>1
    <2>2. CASE ~o.initialized
        <3>1. Cardinality(UpIn(scopes) \ {<<t, k>>}) = Cardinality(UpIn(scopes))
            BY <1>9, <2>2, UpIsFinite, FS_RemoveElement
        <3>2. (IF o.initialized THEN 1 ELSE 0) = 0 /\ Cardinality(UpIn(scopes)) \in Nat
            BY <2>2, UpIsFinite
        <3>3. Cardinality(UpIn(s)) = Cardinality(UpIn(scopes))
            BY <1>11, <3>1
        <3>4. \A x \in Nat : x = x - 0
            OBVIOUS
        <3> QED BY <3>2, <3>3, <3>4
    <2> QED BY <2>1, <2>2
<1>13. m - (IF o.initialized THEN 1 ELSE 0) = n + Cardinality(UpIn(s))
    BY <1>1, <1>12, UpIsFinite
<1>14. Counted(s, n, m - IF o.initialized THEN 1 ELSE 0)
    BY <1>1, <1>5, <1>7, <1>8, <1>13 DEF Counted
<1> QED BY <1>3, <1>7, <1>14
\* ::WSACleanup, by a runtime that was counted and is so no more. When it is the
\* last one, nothing is inside an initialized runtime.
LEMMA CleanupKeeps ==
    ASSUME NEW s, NEW n, Counted(s, n, started - 1), started \in Nat \ {0}, Winsock!WSACleanup(s)
    PROVE  /\ Counted(scopes', n, started')
           /\ \A t \in Threads : Len(scopes'[t]) = Len(s[t])
<1>1. /\ s \in [Threads -> Seq(Objects)] /\ \A t \in Threads : Len(s[t]) <= MaxDepth
      /\ Sheltered(s) /\ n \in Nat /\ started - 1 = n + Cardinality(UpIn(s)) /\ MaxDepth \in Nat
    BY SmallPartsAssumption DEF Counted
<1>2. started' = started - 1 /\ scopes' = Winsock!Surviving(s)
    BY DEF Winsock!WSACleanup
<1>3. CASE started > 1
    BY <1>2, <1>3 DEF Winsock!Surviving
<1>4. CASE ~(started > 1)
    <2>1. n = 0 /\ Cardinality(UpIn(s)) = 0
        BY <1>1, <1>4, UpIsFinite
    <2>2. scopes' = [t \in Threads |-> [i \in DOMAIN s[t] |->
                        IF s[t][i] = Winsock!Socket("open") THEN Winsock!Socket("dead") ELSE s[t][i]]]
        BY <1>2, <1>4 DEF Winsock!Surviving
    <2>3. ASSUME NEW t \in Threads
          PROVE  /\ scopes'[t] \in Seq(Objects) /\ Len(scopes'[t]) = Len(s[t])
                 /\ DOMAIN scopes'[t] = DOMAIN s[t] /\ DOMAIN s[t] = 1..Len(s[t])
                 /\ DOMAIN s[t] \subseteq 1..MaxDepth
                 /\ \A i \in DOMAIN s[t] : scopes'[t][i].initialized <=> s[t][i].initialized
        <3>1. /\ Len(s[t]) \in Nat /\ DOMAIN s[t] = 1..Len(s[t]) /\ Len(s[t]) <= MaxDepth
              /\ \A i \in 1..Len(s[t]) : s[t][i] \in Objects
            BY <1>1, ScopeFacts
        <3>2. Winsock!Socket("dead") \in Objects /\ ~Winsock!Socket("dead").initialized
              /\ ~Winsock!Socket("open").initialized
            BY ObjectsFacts
        <3>3. scopes'[t] = [i \in 1..Len(s[t]) |->
                    IF s[t][i] = Winsock!Socket("open") THEN Winsock!Socket("dead") ELSE s[t][i]]
            BY <2>2, <3>1
        <3>4. scopes'[t] \in [1..Len(s[t]) -> Objects]
            BY <3>1, <3>2, <3>3
        <3>5. scopes'[t] \in Seq(Objects)
            BY <3>1, <3>4, SeqDef
        <3>6. DOMAIN scopes'[t] = 1..Len(s[t]) /\ Len(scopes'[t]) = Len(s[t])
            BY <3>1, <3>4, <3>5, LenProperties
        <3>7. \A i \in 1..Len(s[t]) : scopes'[t][i].initialized <=> s[t][i].initialized
            BY <3>2, <3>3
        <3>8. 1..Len(s[t]) \subseteq 1..MaxDepth
            BY <1>1, <3>1
        <3> QED BY <3>1, <3>5, <3>6, <3>7, <3>8
    <2>4. UpIn(scopes') = UpIn(s)
        <3>1. \A p \in Threads \X (1..MaxDepth) : p \in UpIn(scopes') <=> p \in UpIn(s)
            BY <2>3 DEF UpIn
        <3> QED BY <3>1 DEF UpIn
    <2>5. scopes' \in [Threads -> Seq(Objects)]
        BY <2>2, <2>3
    <2>6. \A t \in Threads : \A i \in DOMAIN scopes'[t] : ~scopes'[t][i].initialized
        BY <2>1, <2>3, NothingUp
    <2>7. Sheltered(scopes')
        BY <2>6 DEF Sheltered
    <2>8. \A t \in Threads : Len(scopes'[t]) <= MaxDepth
        BY <1>1, <2>3
    <2> QED BY <1>1, <1>2, <2>3, <2>4, <2>5, <2>7, <2>8 DEF Counted
<1> QED BY <1>3, <1>4

\* A socket gets a descriptor whenever it is inside an initialized runtime.
LEMMA OpenKeeps ==
    ASSUME WinsockInv, NEW t \in Threads, NEW i \in DOMAIN scopes[t], Winsock!Open(t, i)
    PROVE  WinsockInv'
<1> DEFINE o == Winsock!Socket(IF started > 0 THEN "open" ELSE "refused")
           n == Cardinality(constructing)
<1>1. /\ scopes \in [Threads -> Seq(Objects)] /\ \A u \in Threads : Len(scopes[u]) <= MaxDepth
      /\ Sheltered(scopes) /\ n \in Nat /\ started = n + Cardinality(UpIn(scopes)) /\ MaxDepth \in Nat
    BY SmallPartsAssumption DEF WinsockInv, Counted
<1>2. \A u \in Threads : /\ Len(scopes[u]) \in Nat /\ DOMAIN scopes[u] = 1..Len(scopes[u])
                         /\ 1..Len(scopes[u]) \subseteq 1..MaxDepth
    BY <1>1, ScopeFacts
<1>3. /\ o \in Objects /\ o.initialized = FALSE /\ scopes[t][i].initialized = FALSE
      /\ started > 0 => o \notin Lost
    BY ObjectsFacts DEF Winsock!Open, Winsock!Socket
<1>4. /\ scopes' = [scopes EXCEPT ![t] = [scopes[t] EXCEPT ![i] = o]]
      /\ constructing' = constructing /\ started' = started
    BY <1>1 DEF Winsock!Open
<1> HIDE DEF o
<1>5. /\ [scopes[t] EXCEPT ![i] = o] \in Seq(Objects)
      /\ Len([scopes[t] EXCEPT ![i] = o]) = Len(scopes[t])
    BY <1>1, <1>2, <1>3, ExceptSeq
<1>6. /\ scopes' \in [Threads -> Seq(Objects)]
      /\ \A u \in Threads : Len(scopes'[u]) = Len(scopes[u])
    BY <1>1, <1>4, <1>5
<1>7. ASSUME NEW u \in Threads
      PROVE  /\ DOMAIN scopes'[u] = DOMAIN scopes[u]
             /\ \A j \in DOMAIN scopes[u] :
                   /\ scopes'[u][j] = IF u = t /\ j = i THEN o ELSE scopes[u][j]
                   /\ scopes'[u][j].initialized = scopes[u][j].initialized
    <2>1. DOMAIN scopes'[u] = 1..Len(scopes'[u])
        BY <1>6, ScopeFacts
    <2>2. \A j \in DOMAIN scopes[u] : scopes'[u][j] = IF u = t /\ j = i THEN o ELSE scopes[u][j]
        BY <1>1, <1>4
    <2> QED BY <1>2, <1>3, <1>6, <2>1, <2>2
<1>8. UpIn(scopes') = UpIn(scopes)
    <2>1. \A p \in Threads \X (1..MaxDepth) : p \in UpIn(scopes') <=> p \in UpIn(scopes)
        BY <1>7 DEF UpIn
    <2> QED BY <2>1 DEF UpIn
<1>9. Sheltered(scopes')
    <2> SUFFICES ASSUME NEW u \in Threads, NEW j \in DOMAIN scopes[u], NEW outer \in DOMAIN scopes[u],
                        scopes[u][outer].initialized, outer < j
                 PROVE  scopes'[u][j] \notin Lost
        BY <1>7 DEF Sheltered
    <2>1. started > 0
        <3> SUFFICES ASSUME Cardinality(UpIn(scopes)) = 0 PROVE FALSE
            BY <1>1, UpIsFinite
        <3>1. \A w \in Threads : DOMAIN scopes[w] \subseteq 1..MaxDepth
            BY <1>2
        <3> QED BY <3>1, NothingUp
    <2>2. scopes[u][j] \notin Lost
        BY <1>1 DEF Sheltered
    <2> QED BY <1>3, <1>7, <2>1, <2>2
<1>10. Counted(scopes', n, started')
    BY <1>1, <1>4, <1>6, <1>8, <1>9 DEF Counted
<1> QED BY <1>4, <1>6, <1>10 DEF WinsockInv

LEMMA WinsockStep == WinsockInv /\ (Winsock!Next \/ UNCHANGED winsock) => WinsockInv'
<1> SUFFICES ASSUME WinsockInv, Winsock!Next \/ UNCHANGED winsock PROVE WinsockInv'
    OBVIOUS
<1> DEFINE n == Cardinality(constructing)
<1>1. /\ constructing \subseteq Threads /\ \A u \in constructing : Len(scopes[u]) < MaxDepth
      /\ Counted(scopes, n, started)
    BY DEF WinsockInv
<1>2. /\ scopes \in [Threads -> Seq(Objects)] /\ \A u \in Threads : Len(scopes[u]) \in Nat
      /\ n \in Nat /\ started = n + Cardinality(UpIn(scopes)) /\ started \in Nat
      /\ MaxDepth \in Nat
    <2>1. /\ scopes \in [Threads -> Seq(Objects)] /\ n \in Nat /\ MaxDepth \in Nat
          /\ started = n + Cardinality(UpIn(scopes))
        BY <1>1, SmallPartsAssumption DEF Counted
    <2> QED BY <2>1, UpIsFinite, ScopeFacts
<1>3. IsFiniteSet(constructing)
    BY <1>1, SmallPartsAssumption, FS_Subset
<1> HIDE DEF n
<1>4. ASSUME NEW t \in Threads, Winsock!Startup(t) PROVE WinsockInv'
    <2>1. t \notin constructing /\ Len(scopes[t]) < MaxDepth
        BY <1>4 DEF Winsock!Startup, Winsock!CanEnter
    <2>2. CASE started' = started + 1 /\ constructing' = constructing \cup {t} /\ UNCHANGED scopes
        <3>1. Cardinality(constructing') = n + 1
            BY <1>3, <2>1, <2>2, FS_AddElement DEF n
        <3>2. Counted(scopes', n + 1, started')
            BY <1>1, <1>2, <2>2, UpIsFinite DEF Counted
        <3> QED BY <1>1, <2>1, <2>2, <3>1, <3>2 DEF WinsockInv
    <2>3. CASE /\ scopes' = Winsock!With(t, Winsock!Runtime(FALSE, "startupFailed"))
               /\ UNCHANGED <<constructing, started>>
        <3> DEFINE o == Winsock!Runtime(FALSE, "startupFailed")
        <3>1. o \in Objects \ Lost /\ o.initialized = FALSE
            BY ObjectsFacts DEF Winsock!Runtime
        <3>2. /\ Counted(scopes', n, started + 0)
              /\ \A u \in Threads : Len(scopes'[u]) = IF u = t THEN Len(scopes[t]) + 1 ELSE Len(scopes[u])
            BY <1>1, <2>1, <2>3, <3>1, EnterScope
        <3>3. started + 0 = started' /\ Cardinality(constructing') = n
            BY <1>2, <2>3 DEF n
        <3>4. \A u \in constructing' : Len(scopes'[u]) < MaxDepth
            BY <1>1, <2>1, <2>3, <3>2
        <3> QED BY <1>1, <2>3, <3>2, <3>3, <3>4 DEF WinsockInv
    <2> QED BY <1>4, <2>2, <2>3 DEF Winsock!Startup
<1>5. ASSUME NEW t \in Threads, Winsock!CheckVersion(t) PROVE WinsockInv'
    <2>1. t \in constructing /\ constructing' = constructing \ {t} /\ Len(scopes[t]) < MaxDepth
        BY <1>1, <1>5 DEF Winsock!CheckVersion
    <2>2. Cardinality(constructing') = n - 1 /\ n - 1 \in Nat /\ started - 1 \in Nat
          /\ started \in Nat \ {0}
        <3>1. Cardinality(constructing') = n - 1 /\ IsFiniteSet(constructing')
            BY <1>3, <2>1, FS_RemoveElement DEF n
        <3>2. n - 1 \in Nat
            BY <3>1, FS_CardinalityType
        <3> QED BY <1>2, <3>1, <3>2, UpIsFinite
    <2>3. Counted(scopes, n - 1, started - 1)
        BY <1>1, <1>2, <2>2, UpIsFinite DEF Counted
    <2>4. CASE scopes' = Winsock!With(t, Winsock!Runtime(TRUE, "none")) /\ UNCHANGED started
        <3> DEFINE o == Winsock!Runtime(TRUE, "none")
        <3>1. o \in Objects \ Lost /\ o.initialized = TRUE
            BY ObjectsFacts DEF Winsock!Runtime
        <3>2. /\ Counted(scopes', n - 1, started - 1 + 1)
              /\ \A u \in Threads : Len(scopes'[u]) = IF u = t THEN Len(scopes[t]) + 1 ELSE Len(scopes[u])
            BY <2>1, <2>3, <2>4, <3>1, EnterScope
        <3>3. started - 1 + 1 = started'
            BY <1>2, <2>4
        <3> QED BY <1>1, <2>1, <2>2, <3>2, <3>3 DEF WinsockInv
    <2>5. CASE Winsock!WSACleanup(Winsock!With(t, Winsock!Runtime(FALSE, "versionNotSupported")))
        <3> DEFINE o == Winsock!Runtime(FALSE, "versionNotSupported")
                   s == Winsock!With(t, o)
        <3>1. o \in Objects \ Lost /\ o.initialized = FALSE
            BY ObjectsFacts DEF Winsock!Runtime
        <3>2. /\ Counted(s, n - 1, started - 1 + 0)
              /\ \A u \in Threads : Len(s[u]) = IF u = t THEN Len(scopes[t]) + 1 ELSE Len(scopes[u])
            BY <2>1, <2>3, <3>1, EnterScope
        <3>3. started - 1 + 0 = started - 1
            BY <1>2
        <3>4. Counted(scopes', n - 1, started') /\ \A u \in Threads : Len(scopes'[u]) = Len(s[u])
            BY <2>2, <2>5, <3>2, <3>3, CleanupKeeps
        <3>5. \A u \in constructing' : Len(scopes'[u]) = Len(scopes[u])
            BY <1>1, <2>1, <3>2, <3>4
        <3> QED BY <1>1, <2>1, <2>2, <3>4, <3>5 DEF WinsockInv
    <2> QED BY <1>5, <2>4, <2>5 DEF Winsock!CheckVersion
<1>6. ASSUME NEW t \in Threads, Winsock!Declare(t) PROVE WinsockInv'
    <2> DEFINE o == Winsock!Socket("invalid")
    <2>1. /\ t \notin constructing /\ Len(scopes[t]) < MaxDepth
          /\ scopes' = Winsock!With(t, o) /\ UNCHANGED <<constructing, started>>
        BY <1>6 DEF Winsock!Declare, Winsock!CanEnter
    <2>2. o \in Objects \ Lost /\ o.initialized = FALSE
        BY ObjectsFacts DEF Winsock!Socket
    <2>3. /\ Counted(scopes', n, started + 0)
          /\ \A u \in Threads : Len(scopes'[u]) = IF u = t THEN Len(scopes[t]) + 1 ELSE Len(scopes[u])
        BY <1>1, <2>1, <2>2, EnterScope
    <2> QED BY <1>1, <1>2, <2>1, <2>3 DEF WinsockInv, n
<1>7. ASSUME NEW t \in Threads, Winsock!Leave(t) PROVE WinsockInv'
    <2> DEFINE k == Len(scopes[t])
               s == [scopes EXCEPT ![t] = SubSeq(@, 1, k - 1)]
    <2>1. /\ t \notin constructing /\ k > 0 /\ constructing' = constructing
          /\ \/ scopes[t][k].initialized /\ Winsock!WSACleanup(s)
             \/ ~scopes[t][k].initialized /\ scopes' = s /\ UNCHANGED started
        BY <1>7 DEF Winsock!Leave
    <2>2. /\ scopes[t][k] \in Objects /\ \A u \in Threads : Len(s[u]) <= Len(scopes[u])
          /\ Counted(s, n, started - IF scopes[t][k].initialized THEN 1 ELSE 0)
        BY <1>1, <2>1, LeaveScope
    <2> HIDE DEF s
    <2>3. s \in [Threads -> Seq(Objects)] /\ \A u \in Threads : Len(s[u]) \in Nat
        BY <2>2, ScopeFacts DEF Counted
    <2>4. CASE scopes[t][k].initialized /\ Winsock!WSACleanup(s)
        <3>1. Counted(s, n, started - 1)
            BY <2>2, <2>4
        <3>2. started \in Nat \ {0}
            BY <1>2, <3>1, UpIsFinite DEF Counted
        <3>3. Counted(scopes', n, started') /\ \A u \in Threads : Len(scopes'[u]) = Len(s[u])
            BY <2>4, <3>1, <3>2, CleanupKeeps
        <3>4. \A u \in constructing : Len(scopes'[u]) < MaxDepth
            BY <1>1, <1>2, <2>2, <2>3, <3>3
        <3> QED BY <1>1, <2>1, <3>3, <3>4 DEF WinsockInv, n
    <2>5. CASE ~scopes[t][k].initialized /\ scopes' = s /\ UNCHANGED started
        <3>1. started - (IF scopes[t][k].initialized THEN 1 ELSE 0) = started'
            BY <1>2, <2>5
        <3>2. Counted(scopes', n, started')
            BY <2>2, <2>5, <3>1
        <3>3. \A u \in constructing : Len(scopes'[u]) < MaxDepth
            BY <1>1, <1>2, <2>2, <2>3, <2>5
        <3> QED BY <1>1, <2>1, <3>2, <3>3 DEF WinsockInv, n
    <2> QED BY <2>1, <2>4, <2>5
<1>8. CASE UNCHANGED winsock
    BY <1>8 DEF WinsockInv, winsock
<1> QED BY <1>4, <1>5, <1>6, <1>7, <1>8, OpenKeeps DEF Winsock!Next

\* What the invariant says of Winsock's own state.
LEMMA WinsockKept ==
    WinsockInv => Winsock!TypeOK /\ Winsock!Balanced /\ Winsock!NestedSocketsWork
<1> SUFFICES ASSUME WinsockInv PROVE Winsock!TypeOK /\ Winsock!Balanced /\ Winsock!NestedSocketsWork
    OBVIOUS
<1>1. /\ constructing \subseteq Threads /\ scopes \in [Threads -> Seq(Objects)]
      /\ Cardinality(constructing) \in Nat
      /\ started = Cardinality(constructing) + Cardinality(UpIn(scopes)) /\ Sheltered(scopes)
    BY DEF WinsockInv, Counted
<1>2. started \in Nat
    BY <1>1, UpIsFinite
<1>3. ASSUME NEW t \in Threads, NEW i \in DOMAIN scopes[t] PROVE scopes[t][i] \in Objects
    BY <1>1, <1>3, ScopeFacts
<1>4. Winsock!TypeOK
    BY <1>1, <1>2, <1>3 DEF Winsock!TypeOK, Objects
<1>5. {place \in Threads \X (1..MaxDepth) : place[2] \in Winsock!Initialized(place[1])} = UpIn(scopes)
    BY DEF UpIn, Winsock!Initialized
<1>6. Winsock!Balanced
    BY <1>1, <1>5, SameCardinality DEF Winsock!Balanced
<1>7. Winsock!NestedSocketsWork
    BY <1>1 DEF Winsock!NestedSocketsWork, Winsock!Initialized, Sheltered, Lost
<1> QED BY <1>4, <1>6, <1>7

LEMMA WinsockStart == Winsock!Init => WinsockInv
<1> SUFFICES ASSUME Winsock!Init PROVE WinsockInv
    OBVIOUS
<1>1. /\ scopes = [t \in Threads |-> <<>>] /\ constructing = {} /\ started = 0
    BY DEF Winsock!Init
<1>2. /\ scopes \in [Threads -> Seq(Objects)] /\ \A t \in Threads : Len(scopes[t]) = 0 /\ DOMAIN scopes[t] = {}
    BY <1>1
<1>3. UpIn(scopes) = {} /\ Sheltered(scopes)
    BY <1>2 DEF UpIn, Sheltered
<1>4. Cardinality(UpIn(scopes)) = 0 /\ Cardinality(constructing) = 0
    BY <1>1, <1>3, FS_EmptySet
<1>5. Counted(scopes, 0, 0)
    BY <1>2, <1>3, <1>4, SmallPartsAssumption DEF Counted
<1> QED BY <1>1, <1>4, <1>5 DEF WinsockInv

LEMMA WinsockAlways == PartsSpec => [](part = "winsock" => WinsockInv)
<1>1. PartsInit => (part = "winsock" => WinsockInv)
    BY WinsockStart DEF PartsInit, PartsStart
<1>2. (part = "winsock" => WinsockInv) /\ [PartsNext]_allVars => (part = "winsock" => WinsockInv)'
    <2>1. CASE PartsNext
        BY <2>1, WinsockStep DEF PartsNext
    <2>2. CASE UNCHANGED allVars
        BY <2>2, WinsockStep DEF allVars
    <2> QED BY <2>1, <2>2
<1> QED BY <1>1, <1>2, PTL DEF PartsSpec

\* Winsock is up for every socket inside an initialized runtime and counts the
\* runtimes exactly, in every interleaving of scopes (socket_runtime.hpp:13-45).
THEOREM WinsockStaysUp == PartsSpec => []WinsockIsUp
<1>1. (part = "winsock" => WinsockInv) => WinsockIsUp
    BY WinsockKept DEF WinsockIsUp
<1> QED BY <1>1, WinsockAlways, PTL
-----------------------------------------------------------------------------
(***************************************************************************)
(* Timers. What a scope's report will say is known before it is written:   *)
(* the invariant follows a timer from the stack of live ones (Ordered)     *)
(* over its formatted line (Formatted) to the stream (Reported), and says  *)
(* at each place how its time relates to the reports written so far.       *)
(***************************************************************************)

Names == Threads \X Nat
Timer == [label : Names, m_start : Nat]
Reports == [of : Names, from : Nat, duration : Nat]

\* What a timer is about to insert.
Report(name, from, time) == <<[of |-> name, from |-> from, duration |-> time]>>

\* The time of `report` lies in the one from `from` on.
Covers(from, time, report) == from <= report.from /\ report.from + report.duration <= from + time

TimersType ==
    /\ now \in Nat /\ ~terminated
    /\ built \in [Threads -> Nat]
    /\ timers \in [Threads -> Seq(Timer)]
    /\ os \in Seq(Reports)
    /\ DOMAIN line = Threads

\* The live timers of a thread were constructed one after the other.
Ordered(t) ==
    \A i \in 1..Len(timers[t]) :
        /\ timers[t][i].label[1] = t /\ timers[t][i].label[2] \in 1..built[t]
        /\ timers[t][i].m_start <= now
        /\ \A j \in 1..Len(timers[t]) :
              i < j => /\ timers[t][i].label[2] < timers[t][j].label[2]
                       /\ timers[t][i].m_start <= timers[t][j].m_start

\* The line about to be inserted is that of a timer inside all live ones, and
\* covers the reports of later timers.
About(t, k, from, time) ==
    /\ from + time <= now
    /\ \A i \in 1..Len(timers[t]) : timers[t][i].label[2] < k /\ timers[t][i].m_start <= from
    /\ \A i \in 1..Len(os) :
          os[i].of[1] = t /\ os[i].of[2] > k => Covers(from, time, os[i])

Formatted(t) ==
    \/ line[t] = <<>>
    \/ \E k \in 1..built[t], from \in Nat, time \in Nat :
          line[t] = Report(<<t, k>>, from, time) /\ About(t, k, from, time)

\* What a report says of the timers that are still live.
Settled(report) ==
    /\ report.of[2] \in 1..built[report.of[1]]
    /\ report.from + report.duration <= now
    /\ \A j \in 1..Len(timers[report.of[1]]) :
          LET timer == timers[report.of[1]][j] IN
          timer.label[2] < report.of[2] => timer.m_start <= report.from

Reported == \A i \in 1..Len(os) : Settled(os[i])

\* A report covers those of later timers of its thread written before it.
Nested ==
    \A i, j \in 1..Len(os) :
        i < j /\ os[i].of[1] = os[j].of[1] /\ os[i].of[2] > os[j].of[2]
        => Covers(os[j].from, os[j].duration, os[i])

TimersInv ==
    /\ TimersType
    /\ \A t \in Threads : Ordered(t) /\ Formatted(t)
    /\ Reported /\ Nested

LEMMA TimersTypes ==
    ASSUME TimersType
    PROVE  /\ Len(os) \in Nat /\ DOMAIN os = 1..Len(os)
           /\ \A i \in 1..Len(os) : /\ os[i] \in Reports /\ os[i].of[1] \in Threads /\ os[i].of[2] \in Nat
                                    /\ os[i].from \in Nat /\ os[i].duration \in Nat
           /\ \A t \in Threads :
                 /\ Len(timers[t]) \in Nat
                 /\ \A i \in 1..Len(timers[t]) : /\ timers[t][i] \in Timer /\ timers[t][i].label \in Names
                                                 /\ timers[t][i].label[2] \in Nat
                                                 /\ timers[t][i].m_start \in Nat
<1>1. Len(os) \in Nat /\ DOMAIN os = 1..Len(os) /\ \A i \in 1..Len(os) : os[i] \in Reports
    BY LenProperties, ElementOfSeq DEF TimersType
<1>2. \A p \in Reports : /\ p.of[1] \in Threads /\ p.of[2] \in Nat
                        /\ p.from \in Nat /\ p.duration \in Nat
    BY DEF Reports, Names
<1>3. \A t \in Threads : /\ Len(timers[t]) \in Nat
                         /\ \A i \in 1..Len(timers[t]) : timers[t][i] \in Timer
    BY LenProperties, ElementOfSeq DEF TimersType
<1>4. \A x \in Timer : x.label \in Names /\ x.label[2] \in Nat /\ x.m_start \in Nat
    BY DEF Timer, Names
<1> QED BY <1>1, <1>2, <1>3, <1>4

\* Time passes over a state, also together with nothing else.
LEMMA TimePasses ==
    ASSUME TimersInv, now' \in Nat, now <= now', UNCHANGED <<timers, built, line, os, terminated>>
    PROVE  TimersInv'
<1>1. TimersType /\ TimersType'
    BY DEF TimersInv, TimersType
<1>2. ASSUME NEW t \in Threads PROVE Ordered(t)'
    <2>1. Ordered(t)
        BY DEF TimersInv
    <2> QED BY <1>1, <2>1, TimersTypes DEF Ordered, TimersType
<1>3. ASSUME NEW t \in Threads PROVE Formatted(t)'
    <2>1. Formatted(t)
        BY DEF TimersInv
    <2>2. ASSUME NEW k \in 1..built[t], NEW from \in Nat, NEW time \in Nat, About(t, k, from, time)
          PROVE  About(t, k, from, time)'
        <3>1. from + time \in Nat /\ from + time <= now
            BY <2>2 DEF About
        <3>2. from + time <= now'
            BY <1>1, <3>1 DEF TimersType
        <3> QED BY <2>2, <3>2 DEF About, Covers
    <2> QED BY <2>1, <2>2 DEF Formatted
<1>4. Reported'
    <2>1. ASSUME NEW i \in 1..Len(os) PROVE Settled(os[i])'
        <3>1. Settled(os[i])
            BY DEF TimersInv, Reported
        <3>2. os[i].from + os[i].duration \in Nat
            BY <1>1, TimersTypes
        <3>3. os[i].from + os[i].duration <= now'
            BY <1>1, <3>1, <3>2 DEF Settled, TimersType
        <3> QED BY <3>1, <3>3 DEF Settled
    <2> QED BY <2>1 DEF Reported
<1>5. Nested'
    BY DEF TimersInv, Nested, Covers
<1> QED BY <1>1, <1>2, <1>3, <1>4, <1>5 DEF TimersInv

\* A timer is constructed inside the live ones.
LEMMA ConstructKeeps ==
    ASSUME TimersInv, NEW t \in Threads, Timers!Construct(t)
    PROVE  TimersInv'
<1> DEFINE k == built[t] + 1
           new == [label |-> <<t, k>>, m_start |-> now]
           n == Len(timers[t])
<1>1. TimersType
    BY DEF TimersInv
<1>2. /\ line[t] = <<>> /\ built' = [built EXCEPT ![t] = k]
      /\ timers' = [timers EXCEPT ![t] = Append(timers[t], new)]
      /\ UNCHANGED <<now, line, os, terminated>>
    BY <1>1 DEF Timers!Construct, Timers!Nothing, TimersType
<1>3. new \in Timer /\ k \in Nat /\ now \in Nat /\ n \in Nat /\ built[t] \in Nat /\ built[t] < k
    BY <1>1, TimersTypes DEF TimersType, Timer, Names
<1>4. /\ Append(timers[t], new) \in Seq(Timer) /\ Len(Append(timers[t], new)) = n + 1
      /\ \A i \in 1..(n + 1) : Append(timers[t], new)[i] = IF i = n + 1 THEN new ELSE timers[t][i]
    BY <1>1, <1>3 DEF TimersType
<1>5. TimersType'
    BY <1>1, <1>2, <1>3, <1>4 DEF TimersType
<1>6. /\ Len(timers'[t]) = n + 1 /\ built'[t] = k
      /\ timers'[t][n + 1] = new
      /\ \A i \in 1..(n + 1) : i # n + 1 => i \in 1..n /\ timers'[t][i] = timers[t][i]
      /\ \A u \in Threads : u # t => timers'[u] = timers[u] /\ built'[u] = built[u]
    BY <1>1, <1>2, <1>3, <1>4 DEF TimersType
<1>7. new.label[1] = t /\ new.label[2] = k /\ new.m_start = now
    OBVIOUS
<1> HIDE DEF new, k
<1>8. \A u \in Threads : Ordered(u) /\ Formatted(u)
    BY DEF TimersInv
<1>9. Ordered(t)'
    <2> SUFFICES ASSUME NEW i \in 1..(n + 1)
                 PROVE  /\ timers'[t][i].label[1] = t /\ timers'[t][i].label[2] \in 1..k
                        /\ timers'[t][i].m_start <= now
                        /\ \A j \in 1..(n + 1) :
                              i < j => /\ timers'[t][i].label[2] < timers'[t][j].label[2]
                                       /\ timers'[t][i].m_start <= timers'[t][j].m_start
        BY <1>2, <1>6 DEF Ordered
    <2>1. CASE i = n + 1
        <3>1. k \in 1..k /\ now <= now /\ \A j \in 1..(n + 1) : ~(i < j)
            BY <1>3, <2>1
        <3> QED BY <1>6, <1>7, <2>1, <3>1
    <2>2. CASE i # n + 1
        <3>1. /\ i \in 1..n /\ timers'[t][i] = timers[t][i]
              /\ timers[t][i].label[2] \in Nat /\ timers[t][i].m_start \in Nat
            BY <1>1, <1>6, <2>2, TimersTypes
        <3>2. /\ timers[t][i].label[1] = t /\ timers[t][i].label[2] \in 1..built[t]
              /\ timers[t][i].m_start <= now
              /\ \A j \in 1..n :
                    i < j => /\ timers[t][i].label[2] < timers[t][j].label[2]
                             /\ timers[t][i].m_start <= timers[t][j].m_start
            BY <1>8, <3>1 DEF Ordered
        <3>3. timers[t][i].label[2] < k /\ timers[t][i].label[2] \in 1..k
            BY <1>3, <3>2
        <3> QED BY <1>6, <1>7, <3>1, <3>2, <3>3
    <2> QED BY <2>1, <2>2
<1>10. Formatted(t)'
    BY <1>2 DEF Formatted
<1>11. ASSUME NEW u \in Threads, u # t PROVE Ordered(u)' /\ Formatted(u)'
    <2>1. Ordered(u)'
        BY <1>2, <1>6, <1>8, <1>11 DEF Ordered
    <2>2. \A j, from, time : About(u, j, from, time) => About(u, j, from, time)'
        BY <1>2, <1>6, <1>11 DEF About, Covers
    <2> QED BY <1>2, <1>6, <1>8, <1>11, <2>1, <2>2 DEF Formatted
<1>12. Reported'
    <2> SUFFICES ASSUME NEW i \in 1..Len(os) PROVE Settled(os[i])'
        BY <1>2 DEF Reported
    <2>1. Settled(os[i]) /\ os[i].of[1] \in Threads /\ os[i].of[2] \in Nat
        BY <1>1, TimersTypes DEF TimersInv, Reported
    <2>2. CASE os[i].of[1] # t
        <3>1. timers'[os[i].of[1]] = timers[os[i].of[1]] /\ built'[os[i].of[1]] = built[os[i].of[1]]
            BY <1>6, <2>1, <2>2
        <3> QED BY <1>2, <2>1, <3>1 DEF Settled
    <2>3. CASE os[i].of[1] = t
        <3>1. os[i].of[2] \in 1..built[t] /\ os[i].of[2] \in 1..k /\ os[i].of[2] < k
            BY <1>3, <2>1, <2>3 DEF Settled
        <3>2. ASSUME NEW j \in 1..(n + 1)
              PROVE  timers'[t][j].label[2] < os[i].of[2] => timers'[t][j].m_start <= os[i].from
            <4>1. CASE j = n + 1
                <5>1. ~(k < os[i].of[2])
                    BY <1>3, <2>1, <3>1
                <5> QED BY <1>6, <1>7, <4>1, <5>1
            <4>2. CASE j # n + 1
                BY <1>6, <2>1, <2>3, <4>2 DEF Settled
            <4> QED BY <4>1, <4>2
        <3> QED BY <1>2, <1>6, <2>1, <2>3, <3>1, <3>2 DEF Settled
    <2> QED BY <2>2, <2>3
<1>13. Nested'
    BY <1>2 DEF TimersInv, Nested, Covers
<1> QED BY <1>5, <1>9, <1>10, <1>11, <1>12, <1>13 DEF TimersInv
\* The innermost timer is destroyed: its line is about to be inserted, unless
\* memory ran out.
LEMMA DestroyKeeps ==
    ASSUME TimersInv, NEW t \in Threads, Timers!Destroy(t)
    PROVE  TimersInv'
<1> DEFINE n == Len(timers[t])
           x == timers[t][n]
           front == SubSeq(timers[t], 1, n - 1)
<1>0. PICK k, from, time : k = x.label[2] /\ from = x.m_start /\ time = now - from
    OBVIOUS
<1>1. TimersType
    BY DEF TimersInv
<1>2. timers[t] \in Seq(Timer) /\ timers[t] # <<>> /\ n \in Nat /\ n \in 1..n /\ n - 1 \in Nat
    BY <1>1, TimersTypes DEF Timers!Destroy, TimersType
<1>3. /\ line[t] = <<>> /\ timers' = [timers EXCEPT ![t] = front]
      /\ UNCHANGED <<now, built, os, terminated>>
      /\ \/ line' = [line EXCEPT ![t] = Report(x.label, from, time)]
         \/ line' = [line EXCEPT ![t] = <<>>]
    BY <1>0, <1>1 DEF Timers!Destroy, Timers!Nothing, Timers!Swallow, Timers!Last, Timers!Front,
           Report, TimersType
<1>4. /\ x.label \in Names /\ k \in Nat /\ from \in Nat /\ now \in Nat
    BY <1>0, <1>1, <1>2, TimersTypes DEF TimersType
<1>5. Ordered(t) /\ \A u \in Threads : Ordered(u) /\ Formatted(u)
    BY DEF TimersInv
<1>6. /\ x.label[1] = t /\ k \in 1..built[t] /\ from <= now
      /\ \A i \in 1..(n - 1) : timers[t][i].label[2] < k /\ timers[t][i].m_start <= from
    <2>1. \A i \in 1..(n - 1) : i \in 1..n /\ i < n
        BY <1>2
    <2> QED BY <1>0, <1>2, <1>5, <2>1 DEF Ordered
<1>7. x.label = <<t, k>>
    BY <1>0, <1>4, <1>6 DEF Names
<1>8. time \in Nat /\ from + time = now
    <2>1. \A a, b \in Nat : a <= b => b - a \in Nat /\ a + (b - a) = b
        OBVIOUS
    <2>2. from <= now /\ time = now - from
        BY <1>0, <1>6
    <2> QED BY <1>4, <2>1, <2>2
<1>9. /\ front \in Seq(Timer) /\ Len(front) = n - 1
      /\ \A i \in 1..(n - 1) : i \in 1..n /\ front[i] = timers[t][i]
    BY <1>2
<1> HIDE DEF x, front
<1>10. TimersType'
    BY <1>1, <1>3, <1>9 DEF TimersType
<1>11. /\ timers'[t] = front /\ Len(timers'[t]) = n - 1
       /\ \A i \in 1..(n - 1) : i \in 1..n /\ timers'[t][i] = timers[t][i]
       /\ \A u \in Threads : u # t => timers'[u] = timers[u]
    BY <1>1, <1>3, <1>9 DEF TimersType
<1>12. /\ line'[t] = Report(<<t, k>>, from, time) \/ line'[t] = <<>>
       /\ \A u \in Threads : u # t => line'[u] = line[u]
    BY <1>1, <1>3, <1>7 DEF TimersType
<1>13. Ordered(t)'
    <2> SUFFICES ASSUME NEW i \in 1..(n - 1)
                 PROVE  /\ timers'[t][i].label[1] = t /\ timers'[t][i].label[2] \in 1..built[t]
                        /\ timers'[t][i].m_start <= now
                        /\ \A j \in 1..(n - 1) :
                              i < j => /\ timers'[t][i].label[2] < timers'[t][j].label[2]
                                       /\ timers'[t][i].m_start <= timers'[t][j].m_start
        BY <1>3, <1>11 DEF Ordered
    <2>1. /\ i \in 1..n /\ timers'[t][i] = timers[t][i]
          /\ \A j \in 1..(n - 1) : j \in 1..n /\ timers'[t][j] = timers[t][j]
        BY <1>11
    <2>2. /\ timers[t][i].label[1] = t /\ timers[t][i].label[2] \in 1..built[t]
          /\ timers[t][i].m_start <= now
          /\ \A j \in 1..n :
                i < j => /\ timers[t][i].label[2] < timers[t][j].label[2]
                         /\ timers[t][i].m_start <= timers[t][j].m_start
        BY <1>5, <2>1 DEF Ordered
    <2> QED BY <2>1, <2>2
<1>14. ASSUME NEW i \in 1..Len(os)
       PROVE  os[i].of[1] = t /\ os[i].of[2] > k => Covers(from, time, os[i])
    <2>1. Settled(os[i])
        BY DEF TimersInv, Reported
    <2>2. os[i].of[2] \in Nat
        BY <1>1, TimersTypes
    <2>3. ASSUME os[i].of[1] = t
          PROVE  k < os[i].of[2] => from <= os[i].from
        BY <1>0, <1>2, <2>1, <2>3 DEF Settled, x
    <2>4. os[i].from + os[i].duration <= now
        BY <2>1 DEF Settled
    <2>5. os[i].of[2] > k => k < os[i].of[2]
        BY <1>4, <2>2
    <2> QED BY <1>8, <2>3, <2>4, <2>5 DEF Covers
<1>15. Formatted(t)'
    <2>1. About(t, k, from, time)'
        <3>1. from + time <= now
            BY <1>4, <1>8
        <3>2. \A i \in 1..(n - 1) : timers'[t][i].label[2] < k /\ timers'[t][i].m_start <= from
            BY <1>6, <1>11
        <3>3. \A i \in 1..Len(timers'[t]) : timers'[t][i].label[2] < k /\ timers'[t][i].m_start <= from
            BY <1>11, <3>2
        <3> QED BY <1>3, <1>14, <3>1, <3>3 DEF About, Covers
    <2>2. k \in 1..built'[t]
        BY <1>3, <1>6
    <2>3. CASE line'[t] = Report(<<t, k>>, from, time)
        <3>1. \E j \in 1..built'[t], f \in Nat, d \in Nat :
                 line'[t] = Report(<<t, j>>, f, d) /\ About(t, j, f, d)'
            BY <1>4, <1>8, <2>1, <2>2, <2>3
        <3> QED BY <3>1 DEF Formatted, Report
    <2>4. CASE line'[t] = <<>>
        BY <2>4 DEF Formatted
    <2> QED BY <1>12, <2>3, <2>4
<1>16. ASSUME NEW u \in Threads, u # t PROVE Ordered(u)' /\ Formatted(u)'
    <2>1. Ordered(u)'
        BY <1>3, <1>5, <1>11, <1>16 DEF Ordered
    <2>2. \A j, f, d : About(u, j, f, d) => About(u, j, f, d)'
        BY <1>3, <1>11, <1>16 DEF About, Covers
    <2> QED BY <1>3, <1>5, <1>12, <1>16, <2>1, <2>2 DEF Formatted
<1>17. Reported'
    <2> SUFFICES ASSUME NEW i \in 1..Len(os) PROVE Settled(os[i])'
        BY <1>3 DEF Reported
    <2>1. Settled(os[i]) /\ os[i].of[1] \in Threads
        BY <1>1, TimersTypes DEF TimersInv, Reported
    <2>2. CASE os[i].of[1] # t
        <3>1. timers'[os[i].of[1]] = timers[os[i].of[1]]
            BY <1>11, <2>1, <2>2
        <3> QED BY <1>3, <2>1, <3>1 DEF Settled
    <2>3. CASE os[i].of[1] = t
        <3>1. \A j \in 1..(n - 1) :
                 timers'[t][j].label[2] < os[i].of[2] => timers'[t][j].m_start <= os[i].from
            BY <1>11, <2>1, <2>3 DEF Settled
        <3> QED BY <1>3, <1>11, <2>1, <2>3, <3>1 DEF Settled
    <2> QED BY <2>2, <2>3
<1>18. Nested'
    BY <1>3 DEF TimersInv, Nested, Covers
<1> QED BY <1>10, <1>13, <1>15, <1>16, <1>17, <1>18 DEF TimersInv

\* A line is given up.
LEMMA DropKeeps ==
    ASSUME TimersInv, NEW t \in Threads, line' = [line EXCEPT ![t] = <<>>],
           UNCHANGED <<now, timers, built, os, terminated>>
    PROVE  TimersInv'
<1>1. TimersType /\ TimersType'
    BY DEF TimersInv, TimersType
<1>2. \A u \in Threads : Ordered(u) /\ Formatted(u) /\ (line'[u] = line[u] \/ line'[u] = <<>>)
    BY <1>1 DEF TimersInv, TimersType
<1>3. ASSUME NEW u \in Threads PROVE Ordered(u)' /\ Formatted(u)'
    <2>1. Ordered(u)'
        BY <1>2 DEF Ordered
    <2>2. \A j, f, d : About(u, j, f, d) => About(u, j, f, d)'
        BY DEF About, Covers
    <2> QED BY <1>2, <2>1, <2>2 DEF Formatted
<1>4. Reported' /\ Nested'
    BY DEF TimersInv, Reported, Settled, Nested, Covers
<1> QED BY <1>1, <1>3, <1>4 DEF TimersInv

\* A line is inserted.
LEMMA InsertKeeps ==
    ASSUME TimersInv, NEW t \in Threads, line[t] # <<>>, os' = os \o line[t],
           line' = [line EXCEPT ![t] = <<>>], UNCHANGED <<now, timers, built, terminated>>
    PROVE  TimersInv'
<1> DEFINE n == Len(os)
<1>1. TimersType
    BY DEF TimersInv
<1>2. PICK k \in 1..built[t], from \in Nat, time \in Nat :
         line[t] = Report(<<t, k>>, from, time) /\ About(t, k, from, time)
    BY DEF TimersInv, Formatted
<1> DEFINE report == [of |-> <<t, k>>, from |-> from, duration |-> time]
           m == n + 1
<1>3. /\ n \in Nat /\ os \in Seq(Reports) /\ built[t] \in Nat /\ k \in Nat /\ now \in Nat
    <2>1. n \in Nat /\ os \in Seq(Reports) /\ built[t] \in Nat /\ now \in Nat
        BY <1>1, TimersTypes DEF TimersType
    <2> QED BY <2>1
<1>4. /\ report.of[1] = t /\ report.of[2] = k
      /\ report.from = from /\ report.duration = time /\ report \in Reports
    BY <1>3 DEF Reports, Names
<1>5. line[t] = <<report>>
    BY <1>2 DEF Report
<1> HIDE DEF report
<1>6. line[t] \in Seq(Reports) /\ Len(line[t]) = 1 /\ line[t][1] = report
    BY <1>4, <1>5
<1>7. /\ os' \in Seq(Reports) /\ Len(os') = m
      /\ \A i \in 1..m : os'[i] = IF i <= n THEN os[i] ELSE line[t][i - n]
    <2>1. /\ os \o line[t] \in Seq(Reports) /\ Len(os \o line[t]) = Len(os) + Len(line[t])
          /\ \A i \in 1..(Len(os) + Len(line[t])) :
                (os \o line[t])[i] = IF i <= Len(os) THEN os[i] ELSE line[t][i - Len(os)]
        BY <1>3, <1>6, ConcatProperties
    <2> QED BY <1>6, <2>1
<1>8. (\A i \in 1..n : i \in 1..m /\ os'[i] = os[i]) /\ m \in 1..m /\ os'[m] = report
    <2>1. m \in 1..m /\ ~(m <= n) /\ m - n = 1
        BY <1>3
    <2>2. os'[m] = line[t][m - n]
        BY <1>7, <2>1
    <2>3. \A i \in 1..n : i \in 1..m /\ i <= n
        BY <1>3
    <2> QED BY <1>6, <1>7, <2>1, <2>2, <2>3
<1>9. \A i \in 1..m : i \in 1..n \/ i = m
    BY <1>3
<1>10. TimersType' /\ \A u \in Threads : line'[u] = IF u = t THEN <<>> ELSE line[u]
    BY <1>1, <1>7 DEF TimersType
<1>11. /\ from + time <= now
       /\ \A i \in 1..Len(timers[t]) : timers[t][i].label[2] < k /\ timers[t][i].m_start <= from
       /\ \A i \in 1..n : os[i].of[1] = t /\ os[i].of[2] > k => Covers(from, time, os[i])
    BY <1>2 DEF About
<1>12. ASSUME NEW u \in Threads PROVE Ordered(u)' /\ Formatted(u)'
    <2>1. Ordered(u) /\ Formatted(u)
        BY DEF TimersInv
    <2>2. Ordered(u)'
        BY <2>1 DEF Ordered
    <2>3. CASE u = t
        BY <1>10, <2>2, <2>3 DEF Formatted
    <2>4. CASE u # t
        <3>1. ASSUME NEW j \in 1..built[u], NEW f \in Nat, NEW d \in Nat, About(u, j, f, d)
              PROVE  About(u, j, f, d)'
            <4>1. ASSUME NEW i \in 1..m
                  PROVE  os'[i].of[1] = u /\ os'[i].of[2] > j => Covers(f, d, os'[i])
                <5>1. CASE i \in 1..n
                    BY <1>8, <3>1, <5>1 DEF About
                <5>2. CASE i = m
                    BY <1>4, <1>8, <2>4, <5>2
                <5> QED BY <1>9, <5>1, <5>2
            <4> QED BY <1>7, <3>1, <4>1 DEF About, Covers
        <3> QED BY <1>10, <2>1, <2>2, <2>4, <3>1 DEF Formatted
    <2> QED BY <2>3, <2>4
<1>13. Reported'
    <2> SUFFICES ASSUME NEW i \in 1..m PROVE Settled(os[i])'
        BY <1>7 DEF Reported
    <2>1. CASE i \in 1..n
        <3>1. Settled(os[i]) /\ os'[i] = os[i]
            BY <1>8, <2>1 DEF TimersInv, Reported
        <3> QED BY <3>1 DEF Settled
    <2>2. CASE i = m
        <3>1. os'[i].of[1] = t /\ os'[i].of[2] = k /\ os'[i].from = from /\ os'[i].duration = time
            BY <1>4, <1>8, <2>2
        <3> QED BY <1>11, <3>1 DEF Settled
    <2> QED BY <1>9, <2>1, <2>2
<1>14. Nested'
    <2> SUFFICES ASSUME NEW i \in 1..m, NEW j \in 1..m, i < j,
                        os'[i].of[1] = os'[j].of[1], os'[i].of[2] > os'[j].of[2]
                 PROVE  Covers(os'[j].from, os'[j].duration, os'[i])
        BY <1>7 DEF Nested, Covers
    <2>1. CASE i \in 1..n /\ j \in 1..n
        BY <1>8, <2>1 DEF TimersInv, Nested
    <2>2. CASE i \in 1..n /\ j = m
        BY <1>4, <1>8, <1>11, <2>2
    <2>3. i # m
        BY <1>3
    <2> QED BY <1>9, <2>1, <2>2, <2>3
<1> QED BY <1>10, <1>12, <1>13, <1>14 DEF TimersInv

LEMMA TimersStep == TimersInv /\ (Timers!Next \/ UNCHANGED timing) => TimersInv'
<1> SUFFICES ASSUME TimersInv, Timers!Next \/ UNCHANGED timing PROVE TimersInv'
    OBVIOUS
<1>1. now \in Nat /\ now <= now
    BY DEF TimersInv, TimersType
<1>2. ASSUME NEW t \in Threads, Timers!Throw(t) \/ Timers!Handle(t) PROVE TimersInv'
    BY <1>1, <1>2, TimePasses DEF Timers!Throw, Timers!Handle
<1>3. ASSUME NEW t \in Threads, Timers!Insert(t) PROVE TimersInv'
    BY <1>3, InsertKeeps, DropKeeps DEF Timers!Insert, Timers!Swallow, Timers!Nothing
<1>4. ASSUME NEW t \in Threads, Timers!Step(t) PROVE TimersInv'
    BY <1>2, <1>3, <1>4, ConstructKeeps, DestroyKeeps DEF Timers!Step
<1>5. CASE Timers!Clock
    <2>1. now' = now + 1 /\ UNCHANGED <<timers, built, line, os, terminated>>
        BY <1>5 DEF Timers!Clock, Timers!Tick
    <2>2. now' \in Nat /\ now <= now'
        BY <1>1, <2>1
    <2> QED BY <2>1, <2>2, TimePasses
<1>6. CASE UNCHANGED timing
    BY <1>1, <1>6, TimePasses DEF timing
<1> QED BY <1>4, <1>5, <1>6 DEF Timers!Next

LEMMA TimersStart == Timers!Init => TimersInv
<1> SUFFICES ASSUME Timers!Init PROVE TimersInv
    OBVIOUS
<1>1. TimersType /\ os = <<>> /\ Len(os) = 0
      /\ \A t \in Threads : Len(timers[t]) = 0 /\ line[t] = <<>>
    BY DEF Timers!Init, Timers!Nothing, TimersType
<1>2. \A t \in Threads : Ordered(t) /\ Formatted(t)
    BY <1>1 DEF Ordered, Formatted
<1>3. Reported /\ Nested
    BY <1>1 DEF Reported, Nested
<1> QED BY <1>1, <1>2, <1>3 DEF TimersInv

LEMMA TimersKept == TimersInv => Timers!InnerFitsInOuter /\ Timers!ExceptionsArrive
<1> SUFFICES ASSUME TimersInv PROVE Timers!InnerFitsInOuter /\ Timers!ExceptionsArrive
    OBVIOUS
<1>1. TimersType /\ Nested /\ DOMAIN os = 1..Len(os)
    BY TimersTypes DEF TimersInv
<1>2. ASSUME NEW i \in 1..Len(os) PROVE 0 <= os[i].duration
    BY <1>1, TimersTypes
<1>3. Timers!InnerFitsInOuter
    BY <1>1, <1>2 DEF Timers!InnerFitsInOuter, Nested, Covers
<1> QED BY <1>1, <1>3 DEF Timers!ExceptionsArrive, TimersType

LEMMA TimersAlways == PartsSpec => [](part = "timers" => TimersInv)
<1>1. PartsInit => (part = "timers" => TimersInv)
    BY TimersStart DEF PartsInit, PartsStart
<1>2. (part = "timers" => TimersInv) /\ [PartsNext]_allVars => (part = "timers" => TimersInv)'
    <2>1. CASE PartsNext
        BY <2>1, TimersStep DEF PartsNext
    <2>2. CASE UNCHANGED allVars
        BY <2>2, TimersStep DEF allVars
    <2> QED BY <2>1, <2>2
<1> QED BY <1>1, <1>2, PTL DEF PartsSpec

\* The times that any threads report nest as their scopes did, since the clock
\* never runs backwards, and no timer ends the program
\* (scope_timer.hpp:28-69).
THEOREM TimersAreTrue == PartsSpec => []TimersReport
<1>1. (part = "timers" => TimersInv) => TimersReport
    BY TimersKept DEF TimersReport
<1> QED BY <1>1, TimersAlways, PTL
-----------------------------------------------------------------------------
(***************************************************************************)
(* Endpoints as keys. operator<=> orders endpoints as the numbers their    *)
(* native addresses stand for (Rank), so that a set in its order has one   *)
(* place for each address.                                                 *)
(***************************************************************************)

LEMMA AddressFacts ==
    \A a \in Keys!Addresses :
        /\ a.m_version \in {"IPv4", "IPv6"}
        /\ a.m_bytes \in [1..3 -> {0, 1}]
        /\ a = [m_version |-> a.m_version, m_bytes |-> a.m_bytes]
        /\ a.m_version = "IPv4" => a.m_bytes[3] = 0
<1> SUFFICES ASSUME NEW v \in {"IPv4", "IPv6"}, NEW b \in [1..Keys!ByteCount(v) -> {0, 1}]
             PROVE  LET a == Keys!FromBytes(b, v) IN
                    /\ a.m_version \in {"IPv4", "IPv6"}
                    /\ a.m_bytes \in [1..3 -> {0, 1}]
                    /\ a = [m_version |-> a.m_version, m_bytes |-> a.m_bytes]
                    /\ a.m_version = "IPv4" => a.m_bytes[3] = 0
    BY DEF Keys!Addresses, Keys!IPVersion, Keys!Byte
<1>1. Keys!ByteCount(v) = IF v = "IPv4" THEN 2 ELSE 3
    BY DEF Keys!ByteCount, Keys!IPV4_BYTE_COUNT, Keys!IPV6_BYTE_COUNT
<1>2. Len(b) = Keys!ByteCount(v)
    BY <1>1
<1> QED BY <1>1, <1>2 DEF Keys!FromBytes, Keys!IPV6_BYTE_COUNT

\* The bytes that count.
LEMMA SpanFacts ==
    \A a \in Keys!Addresses :
        /\ Keys!SpanBytes(a) \in Seq({0, 1})
        /\ Len(Keys!SpanBytes(a)) = IF a.m_version = "IPv4" THEN 2 ELSE 3
        /\ \A i \in 1..(IF a.m_version = "IPv4" THEN 2 ELSE 3) : Keys!SpanBytes(a)[i] = a.m_bytes[i]
<1> TAKE a \in Keys!Addresses
<1>1. Keys!ByteCount(a.m_version) = IF a.m_version = "IPv4" THEN 2 ELSE 3
    BY DEF Keys!ByteCount, Keys!IPV4_BYTE_COUNT, Keys!IPV6_BYTE_COUNT
<1>2. \A i \in 1..Keys!ByteCount(a.m_version) : a.m_bytes[i] \in {0, 1}
    BY <1>1, AddressFacts
<1> QED BY <1>1, <1>2, SubSeqProperties DEF Keys!SpanBytes

\* The first statement of FromNative reads back what ToNative wrote.
LEMMA FromSpan ==
    \A a \in Keys!Addresses : Keys!FromBytes(Keys!SpanBytes(a), a.m_version) = a
<1> TAKE a \in Keys!Addresses
<1>1. Keys!ByteCount(a.m_version) = IF a.m_version = "IPv4" THEN 2 ELSE 3
    BY DEF Keys!ByteCount, Keys!IPV4_BYTE_COUNT, Keys!IPV6_BYTE_COUNT
<1>2. [i \in 1..3 |-> IF i <= Len(Keys!SpanBytes(a)) THEN Keys!SpanBytes(a)[i] ELSE 0] = a.m_bytes
    BY AddressFacts, SpanFacts
<1> QED BY <1>1, <1>2, AddressFacts, SpanFacts DEF Keys!FromBytes, Keys!IPV6_BYTE_COUNT

LEMMA EndpointFacts ==
    \A e \in Keys!Endpoints :
        /\ e.m_address \in Keys!Addresses /\ e.m_port \in 0..3 /\ e.m_scopeId \in 0..3
        /\ e = [m_address |-> e.m_address, m_port |-> e.m_port, m_scopeId |-> e.m_scopeId]
        /\ e.m_address.m_version = "IPv4" => e.m_scopeId = 0
BY DEF Keys!Endpoints, Keys!Make, Keys!MaxPort, Keys!MaxScope

\* The bytes of an endpoint's address as a number, and the number of all.
Number(e) ==
    LET b == e.m_address.m_bytes IN
    IF e.m_address.m_version = "IPv4" THEN 2 * b[1] + b[2] ELSE 8 + 4 * b[1] + 2 * b[2] + b[3]

LEMMA RankIs ==
    \A e \in Keys!Endpoints :
        Number(e) \in 0..15 /\ Keys!Rank(e) = Number(e) * 16 + e.m_port * 4 + e.m_scopeId
<1> TAKE e \in Keys!Endpoints
<1> DEFINE a == e.m_address
           b == a.m_bytes
<1>1. a \in Keys!Addresses
    BY EndpointFacts
<1>2. b[1] \in {0, 1} /\ b[2] \in {0, 1} /\ b[3] \in {0, 1}
    BY <1>1, AddressFacts
<1>3. CASE a.m_version = "IPv4"
    <2>1. Keys!SpanBytes(a)[1] = b[1] /\ Keys!SpanBytes(a)[2] = b[2]
        BY <1>1, <1>3, SpanFacts
    <2> QED BY <1>2, <1>3, <2>1 DEF Number, Keys!Rank
<1>4. CASE a.m_version # "IPv4"
    <2>1. /\ Keys!SpanBytes(a)[1] = b[1] /\ Keys!SpanBytes(a)[2] = b[2]
          /\ Keys!SpanBytes(a)[3] = b[3]
        BY <1>1, <1>4, SpanFacts
    <2> QED BY <1>2, <1>4, <2>1 DEF Number, Keys!Rank
<1> QED BY <1>3, <1>4

\* Addresses are equal and ordered as their numbers are.
LEMMA AddressOrder ==
    \A e, f \in Keys!Endpoints :
        LET a == e.m_address
            b == f.m_address IN
        /\ Keys!Equal(a, b) <=> Number(e) = Number(f)
        /\ Number(e) = Number(f) => a = b
        /\ ~Keys!Equal(a, b) => (Keys!Less(a, b) <=> Number(e) < Number(f))
<1> TAKE e, f \in Keys!Endpoints
<1> DEFINE a == e.m_address
           b == f.m_address
           s == Keys!SpanBytes(a)
           t == Keys!SpanBytes(b)
           x == a.m_bytes
           y == b.m_bytes
<1>1. a \in Keys!Addresses /\ b \in Keys!Addresses
    BY EndpointFacts
<1>2. /\ a.m_version \in {"IPv4", "IPv6"} /\ b.m_version \in {"IPv4", "IPv6"}
      /\ x \in [1..3 -> {0, 1}] /\ y \in [1..3 -> {0, 1}]
      /\ a = [m_version |-> a.m_version, m_bytes |-> x]
      /\ b = [m_version |-> b.m_version, m_bytes |-> y]
      /\ a.m_version = "IPv4" => x[3] = 0
      /\ b.m_version = "IPv4" => y[3] = 0
    BY <1>1, AddressFacts
<1>3. /\ x[1] \in {0, 1} /\ x[2] \in {0, 1} /\ x[3] \in {0, 1}
      /\ y[1] \in {0, 1} /\ y[2] \in {0, 1} /\ y[3] \in {0, 1}
    BY <1>2
<1>4. CASE a.m_version # b.m_version
    <2>1. Number(e) # Number(f) /\ (a.m_version = "IPv4" <=> Number(e) < Number(f))
        BY <1>2, <1>3, <1>4 DEF Number
    <2> QED BY <1>4, <2>1 DEF Keys!Equal, Keys!Less
<1>5. CASE a.m_version = b.m_version
    <2>1. Number(e) = Number(f) <=> x[1] = y[1] /\ x[2] = y[2] /\ x[3] = y[3]
        BY <1>2, <1>3, <1>5 DEF Number
    <2>2. Number(e) = Number(f) => a = b
        <3>1. ASSUME x[1] = y[1], x[2] = y[2], x[3] = y[3] PROVE x = y
            BY <1>2, <3>1
        <3> QED BY <1>2, <1>5, <2>1, <3>1
    <2> DEFINE n == IF a.m_version = "IPv4" THEN 2 ELSE 3
    <2>3. /\ s \in Seq({0, 1}) /\ t \in Seq({0, 1}) /\ Len(s) = n /\ Len(t) = n
          /\ \A i \in 1..n : s[i] = x[i] /\ t[i] = y[i]
        BY <1>1, <1>5, SpanFacts
    <2>4. DOMAIN s = 1..n
        BY <2>3
    <2>5. s[1] = x[1] /\ s[2] = x[2] /\ t[1] = y[1] /\ t[2] = y[2] /\ (n = 3 => s[3] = x[3] /\ t[3] = y[3])
        BY <2>3
    <2>6. s = t <=> Number(e) = Number(f)
        BY <1>2, <1>5, <2>1, <2>2, <2>5
    <2>7. Keys!LexLess(s, t) <=> \/ x[1] < y[1]
                                 \/ x[1] = y[1] /\ x[2] < y[2]
                                 \/ n = 3 /\ x[1] = y[1] /\ x[2] = y[2] /\ x[3] < y[3]
        <3>1. ASSUME NEW i \in 1..n, s[i] < t[i], \A j \in 1..(i - 1) : s[j] = t[j]
              PROVE  \/ x[1] < y[1]
                     \/ x[1] = y[1] /\ x[2] < y[2]
                     \/ n = 3 /\ x[1] = y[1] /\ x[2] = y[2] /\ x[3] < y[3]
            <4>1. i = 1 \/ i = 2 \/ (n = 3 /\ i = 3)
                OBVIOUS
            <4>2. CASE i = 1 BY <3>1, <4>2, <2>5
            <4>3. CASE i = 2
                <5>1. s[1] = t[1] BY <3>1, <4>3
                <5> QED BY <3>1, <4>3, <5>1, <2>5
            <4>4. CASE n = 3 /\ i = 3
                <5>1. s[1] = t[1] /\ s[2] = t[2] BY <3>1, <4>4
                <5> QED BY <3>1, <4>4, <5>1, <2>5
            <4> QED BY <4>1, <4>2, <4>3, <4>4
        <3>2. ASSUME x[1] < y[1] PROVE Keys!LexLess(s, t)
            <4>1. 1 \in DOMAIN s /\ s[1] < t[1] /\ \A j \in 1..(1 - 1) : s[j] = t[j]
                BY <3>2, <2>4, <2>5
            <4> QED BY <4>1 DEF Keys!LexLess
        <3>3. ASSUME x[1] = y[1], x[2] < y[2] PROVE Keys!LexLess(s, t)
            <4>1. 2 \in DOMAIN s /\ s[2] < t[2] /\ \A j \in 1..(2 - 1) : s[j] = t[j]
                BY <3>3, <2>4, <2>5
            <4> QED BY <4>1 DEF Keys!LexLess
        <3>4. ASSUME n = 3, x[1] = y[1], x[2] = y[2], x[3] < y[3] PROVE Keys!LexLess(s, t)
            <4>1. 3 \in DOMAIN s /\ s[3] < t[3] /\ \A j \in 1..(3 - 1) : s[j] = t[j]
                BY <3>4, <2>4, <2>5
            <4> QED BY <4>1 DEF Keys!LexLess
        <3>5. Keys!LexLess(s, t) => \E i \in 1..n : s[i] < t[i] /\ \A j \in 1..(i - 1) : s[j] = t[j]
            BY <2>4 DEF Keys!LexLess
        <3> QED BY <3>1, <3>2, <3>3, <3>4, <3>5
    <2>8. Keys!LexLess(s, t) <=> Number(e) < Number(f)
        BY <1>2, <1>3, <1>5, <2>7 DEF Number
    <2> QED BY <1>5, <2>2, <2>6, <2>8 DEF Keys!Equal, Keys!Less
<1> QED BY <1>4, <1>5

\* Comparing field by field is comparing the number of the fields.
LEMMA ThreeDigits ==
    ASSUME NEW n \in 0..15, NEW m \in 0..15, NEW p \in 0..3, NEW q \in 0..3,
           NEW s \in 0..3, NEW t \in 0..3
    PROVE  (n < m \/ (n = m /\ p < q) \/ (n = m /\ p = q /\ s < t))
               <=> n * 16 + p * 4 + s < m * 16 + q * 4 + t
OBVIOUS

LEMMA DigitsDiffer ==
    ASSUME NEW n \in 0..15, NEW m \in 0..15, NEW p \in 0..3, NEW q \in 0..3,
           NEW s \in 0..3, NEW t \in 0..3, n * 16 + p * 4 + s = m * 16 + q * 4 + t
    PROVE  n = m /\ p = q /\ s = t
OBVIOUS

\* operator<=> agrees with the numbers, and they tell all endpoints apart.
LEMMA EndpointOrder ==
    \A e, f \in Keys!Endpoints :
        /\ Keys!Rank(e) \in Nat
        /\ Keys!EndpointLess(e, f) <=> Keys!Rank(e) < Keys!Rank(f)
        /\ Keys!Rank(e) = Keys!Rank(f) => e = f
<1> TAKE e, f \in Keys!Endpoints
<1>1. /\ Number(e) \in 0..15 /\ Keys!Rank(e) = Number(e) * 16 + e.m_port * 4 + e.m_scopeId
      /\ Number(f) \in 0..15 /\ Keys!Rank(f) = Number(f) * 16 + f.m_port * 4 + f.m_scopeId
    BY RankIs
<1>2. /\ e.m_port \in 0..3 /\ e.m_scopeId \in 0..3 /\ f.m_port \in 0..3 /\ f.m_scopeId \in 0..3
      /\ e = [m_address |-> e.m_address, m_port |-> e.m_port, m_scopeId |-> e.m_scopeId]
      /\ f = [m_address |-> f.m_address, m_port |-> f.m_port, m_scopeId |-> f.m_scopeId]
    BY EndpointFacts
<1>3. Keys!EndpointLess(e, f) <=>
          \/ Number(e) < Number(f)
          \/ Number(e) = Number(f) /\ e.m_port < f.m_port
          \/ Number(e) = Number(f) /\ e.m_port = f.m_port /\ e.m_scopeId < f.m_scopeId
    <2>1. CASE Number(e) = Number(f)
        BY <1>1, <1>2, <2>1, AddressOrder DEF Keys!EndpointLess
    <2>2. CASE Number(e) # Number(f)
        BY <1>1, <1>2, <2>2, AddressOrder DEF Keys!EndpointLess
    <2> QED BY <2>1, <2>2
<1>4. Keys!EndpointLess(e, f) <=> Keys!Rank(e) < Keys!Rank(f)
    <2>1. PICK n \in 0..15, m \in 0..15 : n = Number(e) /\ m = Number(f)
        BY <1>1
    <2>2. PICK p \in 0..3, q \in 0..3, s \in 0..3, t \in 0..3 :
              p = e.m_port /\ q = f.m_port /\ s = e.m_scopeId /\ t = f.m_scopeId
        BY <1>2
    <2>3. Keys!EndpointLess(e, f) <=> (n < m \/ (n = m /\ p < q) \/ (n = m /\ p = q /\ s < t))
        BY <1>3, <2>1, <2>2
    <2>4. Keys!Rank(e) = n * 16 + p * 4 + s /\ Keys!Rank(f) = m * 16 + q * 4 + t
        BY <1>1, <2>1, <2>2
    <2> QED BY <2>3, <2>4, ThreeDigits
<1>5. ASSUME Keys!Rank(e) = Keys!Rank(f) PROVE e = f
    <2>1. Number(e) = Number(f) /\ e.m_port = f.m_port /\ e.m_scopeId = f.m_scopeId
        <3>1. PICK n \in 0..15, m \in 0..15 : n = Number(e) /\ m = Number(f)
            BY <1>1
        <3>2. PICK p \in 0..3, q \in 0..3, s \in 0..3, t \in 0..3 :
                  p = e.m_port /\ q = f.m_port /\ s = e.m_scopeId /\ t = f.m_scopeId
            BY <1>2
        <3>3. n * 16 + p * 4 + s = m * 16 + q * 4 + t
            BY <1>1, <1>5, <3>1, <3>2
        <3>4. n = m /\ p = q /\ s = t
            BY <3>3, DigitsDiffer
        <3> QED BY <3>1, <3>2, <3>4
    <2> QED BY <1>2, <2>1, AddressOrder
<1> QED BY <1>1, <1>2, <1>4, <1>5

-----------------------------------------------------------------------------
\* The keys k are in the order of their numbers.
InOrder(k) ==
    /\ k \in Seq(Keys!Endpoints)
    /\ \A i, j \in 1..Len(k) : i < j => Keys!Rank(k[i]) < Keys!Rank(k[j])

KeysOf(k) == {k[i] : i \in 1..Len(k)}

\* The library's Min is the least of a set of places.
LEMMA LeastIndex ==
    ASSUME NEW I \in SUBSET Nat, I # {}
    PROVE  Keys!Min(I) \in I /\ \A i \in I : Keys!Min(I) <= i
<1>1. PICK m \in I : \A i \in I : m <= i
    <2>1. PICK m \in I : \A i \in I : <<i, m>> \notin OpToRel(<, Nat)
        BY WFMin, NatLessThanWellFounded
    <2>2. \A i \in I : ~(i < m)
        BY <2>1 DEF OpToRel
    <2> QED BY <2>2
<1> QED BY <1>1 DEF Keys!Min

\* d is the keys with e before place m.
Put(d, m, e) ==
    /\ d \in Seq(Keys!Endpoints) /\ Len(d) = Len(keys) + 1
    /\ \A i \in 1..Len(d) : d[i] = IF i < m THEN keys[i] ELSE IF i = m THEN e ELSE keys[i - 1]

LEMMA InsertAtPuts ==
    ASSUME keys \in Seq(Keys!Endpoints), NEW e \in Keys!Endpoints, NEW m \in 1..Len(keys)
    PROVE  Put(Keys!InsertAt(keys, m, e), m, e)
<1> DEFINE a == SubSeq(keys, 1, m - 1)
           b == SubSeq(keys, m, Len(keys))
<1>1. Len(keys) \in Nat /\ m \in Nat /\ m >= 1 /\ m <= Len(keys)
    BY LenProperties
<1>2. \A i \in 1..Len(keys) : keys[i] \in Keys!Endpoints
    BY ElementOfSeq
<1>3. a \in Seq(Keys!Endpoints) /\ Len(a) = m - 1 /\ \A i \in 1..(m - 1) : a[i] = keys[i]
    BY <1>1, <1>2, SubSeqProperties
<1>4. /\ b \in Seq(Keys!Endpoints) /\ Len(b) = Len(keys) - m + 1
      /\ \A i \in 1..(Len(keys) - m + 1) : b[i] = keys[m + i - 1]
    BY <1>1, <1>2, SubSeqProperties
<1>5. Keys!InsertAt(keys, m, e) = (a \o <<e>>) \o b
    BY DEF Keys!InsertAt
<1> HIDE DEF a, b
<1> DEFINE ae == a \o <<e>>
<1>6. /\ ae \in Seq(Keys!Endpoints) /\ Len(ae) = m
      /\ \A i \in 1..m : ae[i] = IF i < m THEN keys[i] ELSE e
    <2>1. <<e>> \in Seq(Keys!Endpoints) /\ Len(<<e>>) = 1 /\ <<e>>[1] = e
        OBVIOUS
    <2>2. Len(a) + Len(<<e>>) = m
        BY <1>1, <1>3, <2>1
    <2>3. /\ ae \in Seq(Keys!Endpoints) /\ Len(ae) = m
          /\ \A i \in 1..m : ae[i] = IF i <= Len(a) THEN a[i] ELSE <<e>>[i - Len(a)]
        BY <1>3, <2>1, <2>2, ConcatProperties
    <2>4. ASSUME NEW i \in 1..m, ~(i < m) PROVE i - Len(a) = 1
        BY <1>1, <1>3, <2>4
    <2> HIDE DEF ae
    <2> QED BY <1>1, <1>3, <2>1, <2>3, <2>4
<1> HIDE DEF ae
<1> DEFINE d == ae \o b
<1>7. /\ d \in Seq(Keys!Endpoints) /\ Len(d) = Len(keys) + 1
      /\ \A i \in 1..(Len(keys) + 1) : d[i] = IF i <= m THEN ae[i] ELSE b[i - m]
    BY <1>1, <1>4, <1>6, ConcatProperties
<1> HIDE DEF d
<1>8. ASSUME NEW i \in 1..(Len(keys) + 1)
      PROVE  d[i] = IF i < m THEN keys[i] ELSE IF i = m THEN e ELSE keys[i - 1]
    <2>1. CASE i <= m
        BY <1>1, <1>6, <1>7, <2>1
    <2>2. CASE i > m
        <3>1. i - m \in 1..(Len(keys) - m + 1) /\ m + (i - m) - 1 = i - 1
            BY <1>1, <2>2
        <3>2. d[i] = b[i - m] /\ b[i - m] = keys[i - 1]
            BY <1>1, <1>4, <1>7, <2>2, <3>1
        <3> QED BY <1>1, <2>2, <3>2
    <2> QED BY <1>1, <2>1, <2>2
<1> QED BY <1>5, <1>7, <1>8 DEF Put, d, ae

\* std::set::insert keeps the order and adds the one key.
LEMMA InsertedKeepsOrder ==
    ASSUME InOrder(keys), NEW e \in Keys!Endpoints
    PROVE  InOrder(Keys!Inserted(e)) /\ KeysOf(Keys!Inserted(e)) = KeysOf(keys) \cup {e}
<1> DEFINE I == {i \in 1..Len(keys) : ~Keys!EndpointLess(keys[i], e)}
           place == IF I # {} THEN Keys!Min(I) ELSE 0
<1>1. /\ keys \in Seq(Keys!Endpoints) /\ Len(keys) \in Nat
      /\ \A i \in 1..Len(keys) : keys[i] \in Keys!Endpoints /\ Keys!Rank(keys[i]) \in Nat
      /\ \A i, j \in 1..Len(keys) : i < j => Keys!Rank(keys[i]) < Keys!Rank(keys[j])
      /\ Keys!Rank(e) \in Nat
    BY LenProperties, ElementOfSeq, EndpointOrder DEF InOrder
<1>2. Keys!Inserted(e) = IF place = 0 THEN Append(keys, e)
                         ELSE IF Keys!EndpointLess(e, keys[place]) THEN Keys!InsertAt(keys, place, e)
                         ELSE keys
    BY DEF Keys!Inserted, Keys!SelectInSeq
<1>3. CASE I = {}
    <2>1. \A i \in 1..Len(keys) : Keys!Rank(keys[i]) < Keys!Rank(e)
        BY <1>1, <1>3, EndpointOrder
    <2> DEFINE d == Append(keys, e)
    <2>2. /\ d \in Seq(Keys!Endpoints) /\ Len(d) = Len(keys) + 1 /\ d[Len(keys) + 1] = e
          /\ \A i \in 1..Len(keys) : d[i] = keys[i]
        BY <1>1
    <2>3. Keys!Inserted(e) = d
        BY <1>2, <1>3
    <2> HIDE DEF d
    <2>4. InOrder(d)
        BY <1>1, <2>1, <2>2 DEF InOrder
    <2>5. KeysOf(d) = KeysOf(keys) \cup {e}
        BY <1>1, <2>2 DEF KeysOf
    <2> QED BY <2>3, <2>4, <2>5
<1>4. CASE I # {}
    <2> DEFINE m == Keys!Min(I)
    <2>1. m \in I /\ \A i \in I : m <= i
        <3>1. I \in SUBSET Nat
            BY <1>1
        <3> HIDE DEF I
        <3> QED BY <1>4, <3>1, LeastIndex
    <2>2. m \in 1..Len(keys) /\ place = m /\ place # 0
        BY <1>1, <1>4, <2>1
    <2>3. \A i \in 1..(m - 1) : Keys!Rank(keys[i]) < Keys!Rank(e)
        <3> TAKE i \in 1..(m - 1)
        <3>1. i \in 1..Len(keys) /\ ~(m <= i)
            BY <1>1, <2>2
        <3>2. i \notin I
            BY <2>1, <3>1
        <3> HIDE DEF m
        <3>3. Keys!EndpointLess(keys[i], e)
            BY <3>1, <3>2
        <3> QED BY <1>1, <3>1, <3>3, EndpointOrder
    <2>4. ~(Keys!Rank(keys[m]) < Keys!Rank(e))
        BY <1>1, <2>1, EndpointOrder
    <2> HIDE DEF I, place, m
    <2>5. CASE Keys!Rank(e) < Keys!Rank(keys[m])
        <3> DEFINE d == Keys!InsertAt(keys, m, e)
        <3>1. Keys!Inserted(e) = d
            BY <1>1, <1>2, <2>2, <2>5, EndpointOrder
        <3>2. Put(d, m, e)
            BY <1>1, <2>2, InsertAtPuts
        <3> HIDE DEF d
        <3>3. \A i \in m..Len(keys) : Keys!Rank(e) < Keys!Rank(keys[i])
            BY <1>1, <2>2, <2>5
        <3>4. InOrder(d)
            <4>1. ASSUME NEW i \in 1..Len(d), NEW j \in 1..Len(d), i < j
                  PROVE  Keys!Rank(d[i]) < Keys!Rank(d[j])
                <5>1. /\ Len(d) = Len(keys) + 1
                      /\ d[i] = IF i < m THEN keys[i] ELSE IF i = m THEN e ELSE keys[i - 1]
                      /\ d[j] = IF j < m THEN keys[j] ELSE IF j = m THEN e ELSE keys[j - 1]
                    BY <3>2 DEF Put
                <5>2. CASE j < m
                    <6>1. i \in 1..Len(keys) /\ j \in 1..Len(keys) /\ d[i] = keys[i] /\ d[j] = keys[j]
                        BY <1>1, <2>2, <4>1, <5>1, <5>2
                    <6> QED BY <1>1, <4>1, <6>1
                <5>3. CASE j = m
                    <6>1. i \in 1..(m - 1) /\ d[i] = keys[i] /\ d[j] = e
                        BY <1>1, <2>2, <4>1, <5>1, <5>3
                    <6> QED BY <2>3, <6>1
                <5>4. CASE j > m
                    <6>1. j - 1 \in m..Len(keys) /\ d[j] = keys[j - 1]
                        BY <1>1, <2>2, <4>1, <5>1, <5>4
                    <6>2. CASE i < m
                        <7>1. i \in 1..Len(keys) /\ j - 1 \in 1..Len(keys) /\ i < j - 1 /\ d[i] = keys[i]
                            BY <1>1, <2>2, <4>1, <5>1, <5>4, <6>2
                        <7> QED BY <1>1, <6>1, <7>1
                    <6>3. CASE i = m
                        BY <3>3, <5>1, <6>1, <6>3
                    <6>4. CASE i > m
                        <7>1. i - 1 \in 1..Len(keys) /\ j - 1 \in 1..Len(keys) /\ i - 1 < j - 1 /\ d[i] = keys[i - 1]
                            BY <1>1, <2>2, <4>1, <5>1, <5>4, <6>4
                        <7> QED BY <1>1, <6>1, <7>1
                    <6> QED BY <1>1, <2>2, <6>2, <6>3, <6>4
                <5> QED BY <1>1, <2>2, <5>2, <5>3, <5>4
            <4> QED BY <3>2, <4>1 DEF Put, InOrder
        <3>5. KeysOf(d) = KeysOf(keys) \cup {e}
            <4>1. ASSUME NEW i \in 1..Len(d) PROVE d[i] \in KeysOf(keys) \cup {e}
                <5>1. Len(d) = Len(keys) + 1 /\ d[i] = IF i < m THEN keys[i] ELSE IF i = m THEN e ELSE keys[i - 1]
                    BY <3>2 DEF Put
                <5>2. CASE i < m
                    <6>1. i \in 1..Len(keys) /\ d[i] = keys[i]
                        BY <1>1, <2>2, <5>1, <5>2
                    <6> QED BY <6>1 DEF KeysOf
                <5>3. CASE i = m
                    BY <1>1, <2>2, <5>1, <5>3
                <5>4. CASE i > m
                    <6>1. i - 1 \in 1..Len(keys) /\ d[i] = keys[i - 1]
                        BY <1>1, <2>2, <5>1, <5>4
                    <6> QED BY <6>1 DEF KeysOf
                <5> QED BY <1>1, <2>2, <5>1, <5>2, <5>3, <5>4
            <4>2. ASSUME NEW i \in 1..Len(keys) PROVE keys[i] \in KeysOf(d)
                <5>1. CASE i < m
                    <6>1. i \in 1..Len(d) /\ d[i] = keys[i]
                        BY <1>1, <2>2, <3>2, <5>1 DEF Put
                    <6> QED BY <6>1 DEF KeysOf
                <5>2. CASE i >= m
                    <6>1. i + 1 \in 1..Len(d) /\ d[i + 1] = keys[i]
                        BY <1>1, <2>2, <3>2, <5>2 DEF Put
                    <6> QED BY <6>1 DEF KeysOf
                <5> QED BY <1>1, <2>2, <5>1, <5>2
            <4>3. e \in KeysOf(d)
                <5>1. m \in 1..Len(d) /\ d[m] = e
                    BY <1>1, <2>2, <3>2 DEF Put
                <5> QED BY <5>1 DEF KeysOf
            <4> QED BY <4>1, <4>2, <4>3 DEF KeysOf
        <3> QED BY <3>1, <3>4, <3>5
    <2>6. CASE ~(Keys!Rank(e) < Keys!Rank(keys[m]))
        <3>1. keys[m] = e
            BY <1>1, <2>2, <2>4, <2>6, EndpointOrder
        <3>2. Keys!Inserted(e) = keys
            BY <1>1, <1>2, <2>2, <2>6, EndpointOrder
        <3> QED BY <2>2, <3>1, <3>2 DEF KeysOf
    <2> QED BY <2>5, <2>6
<1> QED BY <1>3, <1>4

-----------------------------------------------------------------------------
LEMMA SwappedBack ==
    \A p \in 0..3 : Keys!Swapped(p) \in 0..3 /\ Keys!Swapped(Keys!Swapped(p)) = p
<1> TAKE p \in 0..3
<1>1. p = 0 \/ p = 1 \/ p = 2 \/ p = 3
    OBVIOUS
<1> QED BY <1>1 DEF Keys!Swapped

Family(version) == IF version = "IPv4" THEN "AF_INET" ELSE "AF_INET6"

LEMMA NativeIs ==
    \A e : Keys!ToNative(e) = [family |-> Family(e.m_address.m_version), port |-> Keys!Swapped(e.m_port),
                               bytes |-> Keys!SpanBytes(e.m_address), scope |-> e.m_scopeId,
                               length |-> IF e.m_address.m_version = "IPv4" THEN 16 ELSE 28]
BY DEF Keys!ToNative, Keys!NativeSize, Family

\* Endpoints that the system cannot tell apart are the same.
LEMMA NativesDiffer ==
    \A e, f \in Keys!Endpoints : Keys!ToNative(e) = Keys!ToNative(f) => e = f
<1> SUFFICES ASSUME NEW e \in Keys!Endpoints, NEW f \in Keys!Endpoints,
                    Keys!ToNative(e) = Keys!ToNative(f)
             PROVE  e = f
    OBVIOUS
<1>1. /\ Family(e.m_address.m_version) = Family(f.m_address.m_version)
      /\ Keys!Swapped(e.m_port) = Keys!Swapped(f.m_port)
      /\ Keys!SpanBytes(e.m_address) = Keys!SpanBytes(f.m_address)
      /\ e.m_scopeId = f.m_scopeId
    BY NativeIs
<1>2. /\ e.m_address \in Keys!Addresses /\ f.m_address \in Keys!Addresses
      /\ e.m_port \in 0..3 /\ f.m_port \in 0..3
      /\ e = [m_address |-> e.m_address, m_port |-> e.m_port, m_scopeId |-> e.m_scopeId]
      /\ f = [m_address |-> f.m_address, m_port |-> f.m_port, m_scopeId |-> f.m_scopeId]
    BY EndpointFacts
<1>3. e.m_address.m_version = f.m_address.m_version
    BY <1>1, <1>2, AddressFacts DEF Family
<1>4. Keys!Equal(e.m_address, f.m_address)
    BY <1>1, <1>3 DEF Keys!Equal
<1>5. e.m_address = f.m_address
    BY <1>4, AddressOrder
<1>6. e.m_port = f.m_port
    BY <1>1, <1>2, SwappedBack
<1> QED BY <1>1, <1>2, <1>5, <1>6

\* The two ways to an endpoint: a program makes it of an address, and FromNative
\* of the bytes that the system stores for that address.
LEMMA MadeFromAddress ==
    ASSUME NEW a \in Keys!Addresses, NEW p \in PortsUsed, NEW s \in ScopesUsed
    PROVE  LET e == Keys!Make(a, p, s)
               native == [family |-> Family(a.m_version), port |-> Keys!Swapped(p),
                          bytes |-> Keys!SpanBytes(a), scope |-> s,
                          length |-> IF a.m_version = "IPv4" THEN 16 ELSE 28] IN
           /\ e \in Keys!Endpoints /\ e # None
           /\ Keys!ToNative(e) = Keys!Identity(native)
           /\ \A length \in LengthsUsed :
                 Keys!FromNative(native, length) =
                     IF length < (IF a.m_version = "IPv4" THEN 16 ELSE 28) THEN None ELSE e
<1> DEFINE e == Keys!Make(a, p, s)
           size == IF a.m_version = "IPv4" THEN 16 ELSE 28
           native == [family |-> Family(a.m_version), port |-> Keys!Swapped(p),
                      bytes |-> Keys!SpanBytes(a), scope |-> s, length |-> size]
<1>1. p \in 0..3 /\ s \in 0..3 /\ LengthsUsed \subseteq Nat
      /\ None \notin Keys!Addresses /\ None \notin Keys!Endpoints
    BY KeysAssumption DEF Keys!MaxPort, Keys!MaxScope
<1>2. e \in Keys!Endpoints
    BY <1>1 DEF Keys!Endpoints, Keys!MaxPort, Keys!MaxScope
<1>3. a.m_version \in {"IPv4", "IPv6"}
    BY AddressFacts
<1>4. Keys!ToNative(e) = Keys!Identity(native)
    <2>1. e.m_address = a /\ e.m_port = p /\ e.m_scopeId = IF a.m_version = "IPv6" THEN s ELSE 0
        BY DEF Keys!Make
    <2>2. Keys!ToNative(e) = [family |-> Family(a.m_version), port |-> Keys!Swapped(p),
                              bytes |-> Keys!SpanBytes(a), scope |-> e.m_scopeId, length |-> size]
        <3> HIDE DEF e
        <3> QED BY <2>1, NativeIs
    <2>3. Keys!Identity(native) = [family |-> Family(a.m_version), port |-> Keys!Swapped(p),
                                   bytes |-> Keys!SpanBytes(a),
                                   scope |-> IF Family(a.m_version) = "AF_INET" THEN 0 ELSE s,
                                   length |-> size]
        BY DEF Keys!Identity
    <2>4. e.m_scopeId = IF Family(a.m_version) = "AF_INET" THEN 0 ELSE s
        BY <1>3, <2>1 DEF Family
    <2> QED BY <2>2, <2>3, <2>4
<1>5. ASSUME NEW length \in LengthsUsed
      PROVE  Keys!FromNative(native, length) = IF length < size THEN None ELSE e
    <2>1. length \in Nat
        BY <1>1
    <2>2. Keys!NativeSize(native.family) = size /\ native.family \in {"AF_INET", "AF_INET6"}
        BY <1>3 DEF Keys!NativeSize, Family
    <2>3. (IF native.family = "AF_INET" THEN "IPv4" ELSE "IPv6") = a.m_version
        BY <1>3 DEF Family
    <2>4. /\ Keys!FromBytes(native.bytes, a.m_version) = a /\ a # None
          /\ Keys!Swapped(native.port) = p /\ native.scope = s
        BY <1>1, FromSpan, SwappedBack
    <2>5. size >= 16
        OBVIOUS
    <2> HIDE DEF native, size, e
    <2>6. CASE length < size
        BY <2>1, <2>2, <2>6 DEF Keys!FromNative
    <2>7. CASE ~(length < size)
        <3>1. ~(length < Keys!SockaddrSize) /\ ~(length < Keys!NativeSize(native.family))
            BY <2>1, <2>2, <2>5, <2>7 DEF Keys!SockaddrSize, size
        <3> QED BY <2>2, <2>3, <2>4, <2>7, <3>1 DEF Keys!FromNative, e
    <2> QED BY <2>6, <2>7
<1> QED BY <1>1, <1>2, <1>4, <1>5

\* The set is in order, and its keys are the addresses it was given.
KeysInv ==
    /\ InOrder(keys)
    /\ seen = {Keys!ToNative(k) : k \in KeysOf(keys)}

LEMMA KeysStart == Keys!Init => KeysInv
BY DEF Keys!Init, KeysInv, InOrder, KeysOf

LEMMA KeysGrow ==
    ASSUME KeysInv, NEW e \in Keys!Endpoints, keys' = Keys!Inserted(e),
           seen' = seen \cup {Keys!ToNative(e)}
    PROVE  KeysInv'
<1>1. InOrder(keys') /\ KeysOf(keys') = KeysOf(keys) \cup {e}
    BY InsertedKeepsOrder DEF KeysInv
<1> QED BY <1>1 DEF KeysInv, InOrder, KeysOf

LEMMA KeysStep == KeysInv /\ (Keys!Next \/ UNCHANGED endpoints) => KeysInv'
<1> SUFFICES ASSUME KeysInv, Keys!Next \/ UNCHANGED endpoints PROVE KeysInv'
    OBVIOUS
<1>1. CASE UNCHANGED endpoints
    BY <1>1 DEF endpoints, KeysInv, InOrder, KeysOf
<1>2. CASE Keys!InsertMade
    <2>1. PICK a \in Keys!Addresses, p \in PortsUsed, s \in ScopesUsed :
              /\ keys' = Keys!Inserted(Keys!Make(a, p, s))
              /\ seen' = seen \cup {Keys!Identity(
                     [family |-> IF a.m_version = "IPv4" THEN "AF_INET" ELSE "AF_INET6",
                      port |-> Keys!Swapped(p), bytes |-> Keys!SpanBytes(a), scope |-> s,
                      length |-> IF a.m_version = "IPv4" THEN 16 ELSE 28])}
        BY <1>2 DEF Keys!InsertMade
    <2>2. seen' = seen \cup {Keys!ToNative(Keys!Make(a, p, s))} /\ Keys!Make(a, p, s) \in Keys!Endpoints
        BY <2>1, MadeFromAddress DEF Family
    <2> QED BY <2>1, <2>2, KeysGrow
<1>3. CASE Keys!InsertNative
    <2>1. PICK a \in Keys!Addresses, p \in PortsUsed, s \in ScopesUsed, length \in LengthsUsed,
               family \in {"AF_INET", "AF_INET6", "AF_UNIX"} :
              LET whole == IF family = "AF_INET" THEN 16 ELSE 28
                  native == [family |-> family, port |-> Keys!Swapped(p), bytes |-> Keys!SpanBytes(a),
                             scope |-> s, length |-> whole]
                  e == Keys!FromNative(native, length) IN
              /\ family # "AF_UNIX" => Len(Keys!SpanBytes(a)) = IF family = "AF_INET" THEN 2 ELSE 3
              /\ IF e = None THEN UNCHANGED keys ELSE keys' = Keys!Inserted(e)
              /\ seen' = IF family # "AF_UNIX" /\ length >= whole
                         THEN seen \cup {Keys!Identity(native)} ELSE seen
        BY <1>3 DEF Keys!InsertNative
    <2> DEFINE whole == IF family = "AF_INET" THEN 16 ELSE 28
               native == [family |-> family, port |-> Keys!Swapped(p), bytes |-> Keys!SpanBytes(a),
                          scope |-> s, length |-> whole]
    <2>2. CASE family = "AF_UNIX"
        <3>1. Keys!FromNative(native, length) = None
            BY <2>2 DEF Keys!FromNative
        <3>2. UNCHANGED endpoints
            BY <2>1, <2>2, <3>1 DEF endpoints
        <3> QED BY <1>1, <3>2
    <2>3. CASE family # "AF_UNIX"
        <3>1. a.m_version \in {"IPv4", "IPv6"} /\ (a.m_version = "IPv4" <=> family = "AF_INET")
            BY <2>1, <2>3, AddressFacts, SpanFacts
        <3>2. /\ family = Family(a.m_version)
              /\ whole = IF a.m_version = "IPv4" THEN 16 ELSE 28
            BY <2>3, <3>1 DEF Family
        <3> DEFINE e == Keys!Make(a, p, s)
        <3>3. /\ e \in Keys!Endpoints /\ e # None /\ Keys!ToNative(e) = Keys!Identity(native)
              /\ Keys!FromNative(native, length) = IF length < whole THEN None ELSE e
            BY <3>2, MadeFromAddress
        <3>4. length \in Nat /\ whole \in Nat
            BY KeysAssumption
        <3>5. /\ IF Keys!FromNative(native, length) = None THEN UNCHANGED keys
                 ELSE keys' = Keys!Inserted(Keys!FromNative(native, length))
              /\ seen' = IF length >= whole THEN seen \cup {Keys!Identity(native)} ELSE seen
            BY <2>1, <2>3
        <3> HIDE DEF native, e, whole
        <3>6. CASE length < whole
            <4>1. UNCHANGED endpoints
                BY <3>3, <3>4, <3>5, <3>6 DEF endpoints
            <4> QED BY <1>1, <4>1
        <3>7. CASE ~(length < whole)
            <4>1. keys' = Keys!Inserted(e) /\ seen' = seen \cup {Keys!ToNative(e)}
                BY <3>3, <3>4, <3>5, <3>7
            <4> QED BY <3>3, <4>1, KeysGrow
        <3> QED BY <3>6, <3>7
    <2> QED BY <2>2, <2>3
<1> QED BY <1>1, <1>2, <1>3 DEF Keys!Next

LEMMA KeysKept == KeysInv => Keys!KeysAreAddresses /\ Keys!SortedByValue
<1> SUFFICES ASSUME KeysInv PROVE Keys!KeysAreAddresses /\ Keys!SortedByValue
    OBVIOUS
<1>1. /\ Len(keys) \in Nat /\ DOMAIN keys = 1..Len(keys)
      /\ \A i \in 1..Len(keys) : keys[i] \in Keys!Endpoints /\ Keys!Rank(keys[i]) \in Nat
      /\ \A i, j \in 1..Len(keys) : i < j => Keys!Rank(keys[i]) < Keys!Rank(keys[j])
    BY LenProperties, ElementOfSeq, EndpointOrder DEF KeysInv, InOrder
<1>2. {Keys!ToNative(keys[i]) : i \in DOMAIN keys} = seen
    BY <1>1 DEF KeysInv, KeysOf
<1>3. ASSUME NEW i \in DOMAIN keys, NEW j \in DOMAIN keys, i # j
      PROVE  Keys!ToNative(keys[i]) # Keys!ToNative(keys[j])
    <2>1. i \in 1..Len(keys) /\ j \in 1..Len(keys) /\ (i < j \/ j < i)
        BY <1>1, <1>3
    <2>2. keys[i] # keys[j]
        BY <1>1, <2>1
    <2> QED BY <1>1, <2>1, <2>2, NativesDiffer
<1>4. ASSUME NEW i \in 1..(Len(keys) - 1) PROVE Keys!Rank(keys[i]) < Keys!Rank(keys[i + 1])
    BY <1>1
<1> QED BY <1>2, <1>3, <1>4 DEF Keys!KeysAreAddresses, Keys!SortedByValue

LEMMA KeysAlways == PartsSpec => [](part = "keys" => KeysInv)
<1>1. PartsInit => (part = "keys" => KeysInv)
    BY KeysStart DEF PartsInit, PartsStart
<1>2. (part = "keys" => KeysInv) /\ [PartsNext]_allVars => (part = "keys" => KeysInv)'
    <2>1. CASE PartsNext
        BY <2>1, KeysStep DEF PartsNext
    <2>2. CASE UNCHANGED allVars
        BY <2>2, KeysStep DEF allVars
    <2> QED BY <2>1, <2>2
<1> QED BY <1>1, <1>2, PTL DEF PartsSpec

\* A std::set of endpoints has one key for each native address it was given, in
\* the order of the addresses as numbers (socket_endpoint.hpp:150-234).
THEOREM KeysAreASet == PartsSpec => []EndpointKeySet
<1>1. (part = "keys" => KeysInv) => EndpointKeySet
    BY KeysKept DEF EndpointKeySet
<1> QED BY <1>1, KeysAlways, PTL
=============================================================================
