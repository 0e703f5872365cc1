------------------------------ MODULE SListAbs ------------------------------
(***************************************************************************)
(* What SList<T> (include/containers/slist.hpp) promises its users: every  *)
(* list object holds a sequence of values, positions are counted from the  *)
(* place before the first element (before_begin() is position 0), and an   *)
(* operation that throws leaves every list as it was.                      *)
(***************************************************************************)
EXTENDS Naturals, Sequences, SequencesExt

CONSTANTS
    Lists,   \* storage for list objects
    Values   \* what a list can hold

VARIABLES
    live,     \* list objects whose lifetime has begun and not ended
    contents  \* the values of each list, first to last

vars == <<live, contents>>

Init == live = {} /\ contents = [l \in Lists |-> <<>>]

\* SList(), SList(value) and SList{...}: any values the client lists.
Construct(l, vs) ==
    /\ l \notin live
    /\ live' = live \cup {l}
    /\ contents' = [contents EXCEPT ![l] = vs]

\* Copy construction and copy assignment.
Copy(d, s) ==
    /\ s \in live
    /\ live' = live \cup {d}
    /\ contents' = [contents EXCEPT ![d] = contents[s]]

\* Move construction and move assignment between two different objects.
Move(d, s) ==
    /\ s \in live
    /\ d # s
    /\ live' = live \cup {d}
    /\ contents' = [contents EXCEPT ![d] = contents[s], ![s] = <<>>]

\* emplace_back, emplace_front and emplace_after; position 0 is the front.
Insert(l, position, v) ==
    /\ l \in live
    /\ contents' = [contents EXCEPT ![l] = InsertAt(@, position + 1, v)]
    /\ UNCHANGED live

\* pop_back, pop_front and erase_after remove the element after `position`.
Erase(l, position) ==
    /\ l \in live
    /\ contents' = [contents EXCEPT ![l] = RemoveAt(@, position + 1)]
    /\ UNCHANGED live

Swap(a, b) ==
    /\ {a, b} \subseteq live
    /\ contents' = [contents EXCEPT ![a] = contents[b], ![b] = contents[a]]
    /\ UNCHANGED live

Clear(l) ==
    /\ l \in live
    /\ contents' = [contents EXCEPT ![l] = <<>>]
    /\ UNCHANGED live

Destroy(l) ==
    /\ l \in live
    /\ live' = live \ {l}
    /\ contents' = [contents EXCEPT ![l] = <<>>]

Next ==
    \/ \E l \in Lists : Clear(l) \/ Destroy(l)
    \/ \E d, s \in Lists : Copy(d, s) \/ Move(d, s) \/ Swap(d, s)
    \/ \E l \in Lists, v \in Values :
          \E position \in 0..Len(contents[l]) : Insert(l, position, v)
    \/ \E l \in Lists : \E position \in 0..(Len(contents[l]) - 1) : Erase(l, position)
    \/ \E l \in Lists : l \notin live /\ contents'[l] \in Seq(Values) /\ Construct(l, contents'[l])

Spec == Init /\ [][Next]_vars
=============================================================================
