---------------------------- MODULE SocketResult ----------------------------
(***************************************************************************)
(* net::SocketResult<T> (include/net/socket_result.hpp) for a T that owns a *)
(* resource and can only be moved, as TcpSocket; T's move may throw, which *)
(* the result passes on. A result is a std::variant of T and SocketError.  *)
(*                                                                         *)
(* A T is the resource it owns, or None after it was moved from.           *)
(***************************************************************************)
EXTENDS Naturals, FiniteSets

CONSTANTS
    Results,       \* SocketResult<T> objects
    Resources,
    Errors,        \* nonzero SocketErrors
    None,          \* no resource
    NoError,       \* SocketError::Success()
    MovesMayThrow  \* T's move constructor and assignment may throw

VARIABLES
    m_storage,  \* the variant of every SocketResult<T>, or Unborn
    caller      \* resources that the program's own T objects own

vars == <<m_storage, caller>>

Value(v) == [index |-> 0, value |-> v, error |-> NoError]
Failed(e) == [index |-> 1, value |-> None, error |-> e]
Valueless == [index |-> 2, value |-> None, error |-> NoError]
Unborn == [index |-> 3, value |-> None, error |-> NoError]

HasValue(r) == m_storage[r].index = 0
Born(r) == m_storage[r] # Unborn

\* The value in r, moved from.
MovedFrom(r) == [m_storage[r] EXCEPT !.value = None]

Init ==
    /\ m_storage = [r \in Results |-> Unborn]
    /\ caller = {}

-----------------------------------------------------------------------------
\* The program makes a T; a T that nobody owns any more has been destroyed,
\* and its resource can be acquired again.
Acquire(v) ==
    /\ v \notin caller /\ \A r \in Results : m_storage[r].value # v
    /\ caller' = caller \cup {v}
    /\ UNCHANGED m_storage

\* Success(value): the value is moved into a parameter, which is destroyed when
\* the move into the variant throws.
Succeed(r, v) ==
    /\ ~Born(r) /\ v \in caller
    /\ \/ m_storage' = [m_storage EXCEPT ![r] = Value(v)]
       \/ MovesMayThrow /\ UNCHANGED m_storage
    /\ caller' = caller \ {v}

\* Error(), not to be called on a valueless result.
Error(r) == IF HasValue(r) THEN NoError ELSE m_storage[r].error

\* Failure(error), with the error of a call.
Fail(r, e) ==
    /\ ~Born(r)
    /\ m_storage' = [m_storage EXCEPT ![r] = Failed(e)]
    /\ UNCHANGED caller

\* if (!s) return Failure(s.Error()).
Forward(r, s) == Born(s) /\ m_storage[s].index = 1 /\ Fail(r, Error(s))

\* SocketResult(SocketResult&&): a value stays behind, moved from.
MoveConstruct(r, s) ==
    /\ ~Born(r) /\ Born(s)
    /\ \/ m_storage' = [m_storage EXCEPT ![r] = m_storage[s], ![s] = MovedFrom(s)]
       \/ MovesMayThrow /\ HasValue(s) /\ UNCHANGED m_storage
    /\ UNCHANGED caller

\* Slip: a failed assignment drops what the target held.
AssignDrops(r, s) ==
    /\ Born(r) /\ Born(s) /\ r # s
    /\ \/ m_storage' = [m_storage EXCEPT ![r] = m_storage[s], ![s] = MovedFrom(s)]
       \/ /\ MovesMayThrow /\ HasValue(s)
          /\ m_storage' = [m_storage EXCEPT ![r] = Valueless]
    /\ UNCHANGED caller

\* Slip: the source keeps its value.
AssignCopies(r, s) ==
    /\ Born(r) /\ Born(s) /\ r # s
    /\ m_storage' = [m_storage EXCEPT ![r] = m_storage[s]]
    /\ UNCHANGED caller

\* operator=(SocketResult&&): value to value is T's own assignment, anything
\* else destroys the old content first and may leave the result valueless.
Assign(r, s) ==
    /\ Born(r) /\ Born(s) /\ r # s
    /\ \/ m_storage' = [m_storage EXCEPT ![r] = m_storage[s], ![s] = MovedFrom(s)]
       \/ /\ MovesMayThrow /\ HasValue(s)
          /\ m_storage' = IF HasValue(r) THEN m_storage
                          ELSE [m_storage EXCEPT ![r] = Valueless]
    /\ UNCHANGED caller

\* T t = std::move(r).Value(); the result still has a value, moved from.
TakeValue(r) ==
    /\ HasValue(r)
    /\ \/ /\ caller' = caller \cup ({m_storage[r].value} \ {None})
          /\ m_storage' = [m_storage EXCEPT ![r] = MovedFrom(r)]
       \/ MovesMayThrow /\ UNCHANGED <<caller, m_storage>>

\* A T of the program or a result is destroyed.
Drop(v) == v \in caller /\ caller' = caller \ {v} /\ UNCHANGED m_storage

Destroy(r) ==
    /\ Born(r)
    /\ m_storage' = [m_storage EXCEPT ![r] = Unborn]
    /\ UNCHANGED caller

Next ==
    \/ \E v \in Resources : Acquire(v) \/ Drop(v)
    \/ \E r \in Results :
        \/ \E v \in Resources : Succeed(r, v)
        \/ \E e \in Errors : Fail(r, e)
        \/ \E s \in Results : Forward(r, s) \/ MoveConstruct(r, s) \/ Assign(r, s)
        \/ TakeValue(r) \/ Destroy(r)

Spec == Init /\ [][Next]_vars

-----------------------------------------------------------------------------
\* The type of the state: "either a value or a nonzero error"
\* (socket_result.hpp:12, 32), also when errors are passed on.
TypeOK ==
    /\ m_storage \in [Results -> {Value(v) : v \in Resources \cup {None}} \cup {Failed(e) : e \in Errors}
                                 \cup {Valueless, Unborn}]
    /\ caller \subseteq Resources

\* A resource is owned by one result or by the program, never twice, whatever
\* is returned through results, assigned over, taken out or abandoned by an
\* exception: a result whose value was taken still HasValue(), but of nothing
\* (socket_result.hpp:24-27, 65-69).
OwnedOnce ==
    \A v \in Resources :
        LET holders == {r \in Results : m_storage[r].value = v} IN
        Cardinality(holders) <= IF v \in caller THEN 0 ELSE 1

\* "A throwing T during assignment can leave storage valueless", but only in
\* place of an error: a result that holds a value keeps one, unless it is
\* assigned a valueless result (socket_result.hpp:105-106).
ValueSurvives ==
    \A r \in Results :
        HasValue(r) /\ m_storage'[r] = Valueless => \E s \in Results : m_storage[s] = Valueless
=============================================================================
