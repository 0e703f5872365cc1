------------------------------- MODULE SList -------------------------------
(***************************************************************************)
(* SList<T> (include/containers/slist.hpp): a singly linked list that      *)
(* keeps m_head, m_tail, m_size and a sentinel m_before_head whose m_next  *)
(* must always equal m_head (sync_before_head).                            *)
(*                                                                         *)
(* The address of a list stands for the address of its sentinel, so next   *)
(* maps lists and nodes alike. Nodes are heap cells that `new` takes from  *)
(* and `delete` gives back; a step that needs a cell when none is left, or *)
(* whose element constructor throws, changes nothing (`new Node` is the    *)
(* first statement of every emplace), so only the loops that build a copy  *)
(* element by element have a throwing step of their own.                   *)
(*                                                                         *)
(* chain is a history variable the code does not have: the nodes of each   *)
(* list in the order the operations promise. Links states that the         *)
(* pointers spell it.                                                      *)
(***************************************************************************)
EXTENDS Naturals, FiniteSets, Sequences, SequencesExt

CONSTANTS
    Lists,      \* storage for the list objects of the client
    Temp,       \* the local `temp` of the constructors that copy elements
    Nodes,      \* heap cells
    Values,     \* element values
    Null,       \* nullptr
    NoValue,    \* what a free heap cell holds
    MaxInit     \* bound: longest initializer list the client writes

ASSUME ListAssumption ==
    /\ Temp \notin Lists
    /\ (Lists \cup {Temp}) \cap Nodes = {}
    /\ Null \notin Lists \cup {Temp} \cup Nodes
    /\ NoValue \notin Values
    /\ IsFiniteSet(Nodes)
    /\ MaxInit \in Nat

VARIABLES
    live,   \* list objects whose lifetime has begun and not ended
    next,   \* m_next of every sentinel and node
    value,  \* m_value of every allocated node
    head,   \* m_head
    tail,   \* m_tail
    size,   \* m_size
    alloc,  \* allocated nodes
    chain,  \* history: the nodes of each list in order
    op      \* the multi-step operation in progress, if any

vars == <<live, next, value, head, tail, size, alloc, chain, op>>
fields == <<next, value, head, tail, size, alloc, chain>>

Owners == Lists \cup {Temp}

Idle == [kind |-> "idle"]

NodesOf(l) == {chain[l][i] : i \in DOMAIN chain[l]}

\* Places an iterator of l can denote, end() excepted.
Positions(l) == {l} \cup NodesOf(l)

\* The index in chain[l] of the node at position p, 0 for before_begin().
IndexOf(l, p) == IF p = l THEN 0 ELSE CHOOSE i \in DOMAIN chain[l] : chain[l][i] = p

Ready(l) == op = Idle /\ l \in live

-----------------------------------------------------------------------------
Init ==
    /\ live = {}
    /\ next = [x \in Owners \cup Nodes |-> Null]
    /\ value = [n \in Nodes |-> NoValue]
    /\ head = [l \in Owners |-> Null]
    /\ tail = [l \in Owners |-> Null]
    /\ size = [l \in Owners |-> 0]
    /\ alloc = {}
    /\ chain = [l \in Owners |-> <<>>]
    /\ op = Idle

\* new Node(v): a free cell, its m_next null; `links` are the m_next stores
\* the caller makes afterwards.
NewNode(n, v, links) ==
    /\ n \notin alloc
    /\ alloc' = alloc \cup {n}
    /\ value' = [value EXCEPT ![n] = v]
    /\ next' = links

\* delete for every node of `gone`, after the m_next stores `links`.
Delete(gone, links) ==
    /\ alloc' = alloc \ gone
    /\ value' = [n \in Nodes |-> IF n \in gone THEN NoValue ELSE value[n]]
    /\ next' = [x \in Owners \cup Nodes |-> IF x \in gone THEN Null ELSE links[x]]

\* SList() = default.
Construct(l) ==
    /\ op = Idle
    /\ l \notin live
    /\ live' = live \cup {l}
    /\ UNCHANGED <<fields, op>>

\* SList(value_type val).
ConstructValue(l, n, v) ==
    /\ op = Idle
    /\ l \notin live
    /\ live' = live \cup {l}
    /\ NewNode(n, v, [next EXCEPT ![l] = n])
    /\ head' = [head EXCEPT ![l] = n]
    /\ tail' = [tail EXCEPT ![l] = n]
    /\ size' = [size EXCEPT ![l] = 1]
    /\ chain' = [chain EXCEPT ![l] = <<n>>]
    /\ UNCHANGED op

\* emplace_back and both push_back; also push_back of the local temp.
EmplaceBack(l, n, v) ==
    /\ \/ /\ head[l] = Null
          /\ NewNode(n, v, [next EXCEPT ![l] = n])
          /\ head' = [head EXCEPT ![l] = n]
       \/ /\ head[l] # Null
          /\ NewNode(n, v, [next EXCEPT ![tail[l]] = n])
          /\ UNCHANGED head
    /\ tail' = [tail EXCEPT ![l] = n]
    /\ size' = [size EXCEPT ![l] = @ + 1]
    /\ chain' = [chain EXCEPT ![l] = Append(@, n)]

\* emplace_front and both push_front.
EmplaceFront(l, n, v) ==
    /\ NewNode(n, v, [next EXCEPT ![n] = head[l], ![l] = n])
    /\ head' = [head EXCEPT ![l] = n]
    /\ tail' = IF head[l] = Null THEN [tail EXCEPT ![l] = n] ELSE tail
    /\ size' = [size EXCEPT ![l] = @ + 1]
    /\ chain' = [chain EXCEPT ![l] = <<n>> \o @]

\* Slip: emplace_after moves m_tail only when the list was empty.
EmplaceAfterKeepsTail(l, p, n, v) ==
    LET front == IF p = l THEN n ELSE head[l] IN
    /\ p \in Positions(l)
    /\ NewNode(n, v, [next EXCEPT ![n] = next[p], ![p] = n, ![l] = front])
    /\ head' = [head EXCEPT ![l] = front]
    /\ tail' = IF tail[l] = Null THEN [tail EXCEPT ![l] = n] ELSE tail
    /\ size' = [size EXCEPT ![l] = @ + 1]
    /\ chain' = [chain EXCEPT ![l] = InsertAt(@, IndexOf(l, p) + 1, n)]

\* emplace_after and both insert_after, at before_begin() or any element.
EmplaceAfter(l, p, n, v) ==
    LET front == IF p = l THEN n ELSE head[l] IN
    /\ p \in Positions(l)
    /\ NewNode(n, v, [next EXCEPT ![n] = next[p], ![p] = n, ![l] = front])
    /\ head' = [head EXCEPT ![l] = front]
    /\ tail' = IF tail[l] \in {p, Null} THEN [tail EXCEPT ![l] = n] ELSE tail
    /\ size' = [size EXCEPT ![l] = @ + 1]
    /\ chain' = [chain EXCEPT ![l] = InsertAt(@, IndexOf(l, p) + 1, n)]

\* Slip: pop_back decrements m_size of an empty list.
PopBackAlwaysCounts(l) ==
    /\ head[l] = Null
    /\ size' = [size EXCEPT ![l] = @ - 1]
    /\ UNCHANGED <<next, value, head, tail, alloc, chain>>

\* pop_back: nothing on an empty list; the loop stops at the last node
\* `curr`, with `prev` before it.
PopBack(l) ==
    \/ /\ head[l] = Null
       /\ UNCHANGED fields
    \/ /\ head[l] # Null
       /\ next[head[l]] = Null
       /\ Delete({head[l]}, [next EXCEPT ![l] = Null])
       /\ head' = [head EXCEPT ![l] = Null]
       /\ tail' = [tail EXCEPT ![l] = Null]
       /\ size' = [size EXCEPT ![l] = @ - 1]
       /\ chain' = [chain EXCEPT ![l] = Front(@)]
    \/ \E prev, curr \in NodesOf(l) :
       /\ next[prev] = curr
       /\ next[curr] = Null
       /\ Delete({curr}, [next EXCEPT ![prev] = Null, ![l] = head[l]])
       /\ tail' = [tail EXCEPT ![l] = prev]
       /\ size' = [size EXCEPT ![l] = @ - 1]
       /\ chain' = [chain EXCEPT ![l] = Front(@)]
       /\ UNCHANGED head

\* pop_front: nothing on an empty list.
PopFront(l) ==
    \/ /\ head[l] = Null
       /\ UNCHANGED fields
    \/ LET second == next[head[l]] IN
       /\ head[l] # Null
       /\ Delete({head[l]}, [next EXCEPT ![l] = second])
       /\ head' = [head EXCEPT ![l] = second]
       /\ tail' = IF second = Null THEN [tail EXCEPT ![l] = Null] ELSE tail
       /\ size' = [size EXCEPT ![l] = @ - 1]
       /\ chain' = [chain EXCEPT ![l] = Tail(@)]

\* Slip: erase_after leaves m_tail on the deleted node.
EraseAfterKeepsTail(l, p) ==
    LET gone  == next[p]
        front == IF gone = head[l] THEN next[gone] ELSE head[l] IN
    /\ p \in Positions(l)
    /\ gone # Null
    /\ Delete({gone}, [next EXCEPT ![p] = next[gone], ![l] = front])
    /\ head' = [head EXCEPT ![l] = front]
    /\ size' = [size EXCEPT ![l] = @ - 1]
    /\ chain' = [chain EXCEPT ![l] = RemoveAt(@, IndexOf(l, p) + 1)]
    /\ UNCHANGED tail

\* erase_after(pos): there must be an element after pos.
EraseAfter(l, p) ==
    LET gone  == next[p]
        front == IF gone = head[l] THEN next[gone] ELSE head[l] IN
    /\ p \in Positions(l)
    /\ gone # Null
    /\ Delete({gone}, [next EXCEPT ![p] = next[gone], ![l] = front])
    /\ head' = [head EXCEPT ![l] = front]
    /\ tail' = IF gone = tail[l] THEN [tail EXCEPT ![l] = IF p = l THEN Null ELSE p] ELSE tail
    /\ size' = [size EXCEPT ![l] = @ - 1]
    /\ chain' = [chain EXCEPT ![l] = RemoveAt(@, IndexOf(l, p) + 1)]

\* The fields of an empty list, as clear() leaves them.
ClearFields(l) ==
    /\ Delete(NodesOf(l), [next EXCEPT ![l] = Null])
    /\ head' = [head EXCEPT ![l] = Null]
    /\ tail' = [tail EXCEPT ![l] = Null]
    /\ size' = [size EXCEPT ![l] = 0]
    /\ chain' = [chain EXCEPT ![l] = <<>>]

\* Slip: swap exchanges the pointers and forgets m_size.
SwapForgetsSize(a, b) ==
    /\ head' = [head EXCEPT ![a] = head[b], ![b] = head[a]]
    /\ tail' = [tail EXCEPT ![a] = tail[b], ![b] = tail[a]]
    /\ next' = [next EXCEPT ![a] = head[b], ![b] = head[a]]
    /\ chain' = [chain EXCEPT ![a] = chain[b], ![b] = chain[a]]
    /\ UNCHANGED <<value, alloc, size>>

\* swap(): the three fields change places and both sentinels are synced.
SwapFields(a, b) ==
    /\ head' = [head EXCEPT ![a] = head[b], ![b] = head[a]]
    /\ tail' = [tail EXCEPT ![a] = tail[b], ![b] = tail[a]]
    /\ size' = [size EXCEPT ![a] = size[b], ![b] = size[a]]
    /\ next' = [next EXCEPT ![a] = head[b], ![b] = head[a]]
    /\ chain' = [chain EXCEPT ![a] = chain[b], ![b] = chain[a]]
    /\ UNCHANGED <<value, alloc>>

\* Slip: d takes over what s held and its own nodes are forgotten.
TakeOverLeaks(d, s) ==
    /\ head' = [head EXCEPT ![d] = head[s], ![s] = Null]
    /\ tail' = [tail EXCEPT ![d] = tail[s], ![s] = Null]
    /\ size' = [size EXCEPT ![d] = size[s], ![s] = 0]
    /\ next' = [next EXCEPT ![d] = head[s], ![s] = Null]
    /\ chain' = [chain EXCEPT ![d] = chain[s], ![s] = <<>>]
    /\ UNCHANGED <<value, alloc>>

\* d takes over what s held, s becomes empty and what d held is deleted: the
\* end of every copy-and-swap and move-and-swap. An unborn d holds nothing.
TakeOver(d, s) ==
    /\ Delete(NodesOf(d), [next EXCEPT ![d] = head[s], ![s] = Null])
    /\ head' = [head EXCEPT ![d] = head[s], ![s] = Null]
    /\ tail' = [tail EXCEPT ![d] = tail[s], ![s] = Null]
    /\ size' = [size EXCEPT ![d] = size[s], ![s] = 0]
    /\ chain' = [chain EXCEPT ![d] = chain[s], ![s] = <<>>]

\* SList(SList&&).
MoveConstruct(d, s) ==
    /\ Ready(s)
    /\ d \notin live
    /\ live' = live \cup {d}
    /\ TakeOver(d, s)
    /\ UNCHANGED op

\* operator=(SList&&): a temporary takes over `other` and is swapped with
\* *this; moving a list to itself gives it its own nodes back.
MoveAssign(d, s) ==
    /\ Ready(s)
    /\ d \in live
    /\ IF d = s THEN UNCHANGED fields ELSE TakeOver(d, s)
    /\ UNCHANGED <<live, op>>

Destroy(l) ==
    /\ Ready(l)
    /\ live' = live \ {l}
    /\ ClearFields(l)
    /\ UNCHANGED op

\* The operations of a live list that finish in one step.
Modify(l) ==
    /\ Ready(l)
    /\ \/ \E n \in Nodes, v \in Values : EmplaceBack(l, n, v) \/ EmplaceFront(l, n, v)
       \/ \E p \in Positions(l), n \in Nodes, v \in Values : EmplaceAfter(l, p, n, v)
       \/ \E p \in Positions(l) : EraseAfter(l, p)
       \/ PopBack(l)
       \/ PopFront(l)
       \/ ClearFields(l)
    /\ UNCHANGED <<live, op>>

Swap(a, b) ==
    /\ Ready(a)
    /\ b \in live
    /\ SwapFields(a, b)
    /\ UNCHANGED <<live, op>>

-----------------------------------------------------------------------------
(***************************************************************************)
(* Operations that loop over elements: each iteration is a step, and every *)
(* push_back of a copying constructor may throw.                           *)
(***************************************************************************)

\* SList(const SList&) for an unborn d, operator=(const SList&) for a live one
\* (d = s allowed): `for (const auto& value : other)` starts at m_head.
BeginCopy(d, s) ==
    /\ Ready(s)
    /\ op' = [kind |-> "copy", to |-> d, from |-> s, at |-> head[s]]
    /\ UNCHANGED <<live, fields>>

\* SList(std::initializer_list).
BeginInit(d, vs) ==
    /\ op = Idle
    /\ d \notin live
    /\ op' = [kind |-> "init", to |-> d, rest |-> vs]
    /\ UNCHANGED <<live, fields>>

\* Slip: the copy loop pushes to the front.
CopyElementFront(n) ==
    /\ op.kind = "copy"
    /\ op.at # Null
    /\ EmplaceFront(Temp, n, value[op.at])
    /\ op' = [op EXCEPT !.at = next[op.at]]
    /\ UNCHANGED live

\* temp.push_back(value) in the two loops.
CopyElement(n) ==
    /\ op.kind = "copy"
    /\ op.at # Null
    /\ EmplaceBack(Temp, n, value[op.at])
    /\ op' = [op EXCEPT !.at = next[op.at]]
    /\ UNCHANGED live

InitElement(n) ==
    /\ op.kind = "init"
    /\ op.rest # <<>>
    /\ EmplaceBack(Temp, n, Head(op.rest))
    /\ op' = [op EXCEPT !.rest = Tail(@)]
    /\ UNCHANGED live

LastElement ==
    \/ op.kind = "copy" /\ op.at = Null
    \/ op.kind = "init" /\ op.rest = <<>>

\* swap(temp), and for an assignment the swap with *this and the destruction
\* of the old nodes.
BuildDone ==
    /\ LastElement
    /\ live' = live \cup {op.to}
    /\ TakeOver(op.to, Temp)
    /\ op' = Idle

\* Slip: a copy that throws starts over instead of reporting.
BuildRetries ==
    /\ op.kind \in {"copy", "init"}
    /\ ~LastElement
    /\ ClearFields(Temp)
    /\ op' = IF op.kind = "copy" THEN [op EXCEPT !.at = head[op.from]] ELSE Idle
    /\ UNCHANGED live

\* Slip: a throwing copy assignment has already cleared its target.
BuildThrowClears ==
    /\ op.kind \in {"copy", "init"}
    /\ ~LastElement
    /\ TakeOver(op.to, Temp)
    /\ op' = Idle
    /\ UNCHANGED live

\* An element constructor or `new` throws: temp is destroyed, *this is as
\* before, and an object under construction is never born.
BuildThrow ==
    /\ op.kind \in {"copy", "init"}
    /\ ~LastElement
    /\ ClearFields(Temp)
    /\ op' = Idle
    /\ UNCHANGED live

\* erase_after(first, last): last is reached by ++ from first, or is end().
BeginErase(l, first, last) ==
    /\ Ready(l)
    /\ first \in Positions(l)
    /\ last \in NodesOf(l) \cup {Null}
    /\ last # Null => IndexOf(l, first) < IndexOf(l, last)
    /\ op' = [kind |-> "erase", list |-> l, first |-> first, last |-> last]
    /\ UNCHANGED <<live, fields>>

\* Slip: the loop runs to the end of the list.
EraseStepToEnd ==
    /\ op.kind = "erase"
    /\ \/ /\ next[op.first] = Null
          /\ op' = Idle
          /\ UNCHANGED fields
       \/ /\ next[op.first] # Null
          /\ EraseAfter(op.list, op.first)
          /\ UNCHANGED op
    /\ UNCHANGED live

\* One test of the loop condition and, unless it ends the loop, its body.
EraseStep ==
    /\ op.kind = "erase"
    /\ \/ /\ next[op.first] = op.last
          /\ op' = Idle
          /\ UNCHANGED fields
       \/ /\ next[op.first] # op.last
          /\ EraseAfter(op.list, op.first)
          /\ UNCHANGED op
    /\ UNCHANGED live

LoopStep == (\E n \in Nodes : CopyElement(n) \/ InitElement(n)) \/ BuildDone \/ BuildThrow \/ EraseStep

Next ==
    \/ \E l \in Lists : Construct(l) \/ Destroy(l) \/ Modify(l)
    \/ \E l \in Lists, n \in Nodes, v \in Values : ConstructValue(l, n, v)
    \/ \E d, s \in Lists : MoveConstruct(d, s) \/ MoveAssign(d, s) \/ Swap(d, s) \/ BeginCopy(d, s)
    \/ \E d \in Lists, vs \in SeqOf(Values, MaxInit) : BeginInit(d, vs)
    \/ \E l \in Lists, first \in Lists \cup Nodes, last \in Nodes \cup {Null} :
          BeginErase(l, first, last)
    \/ LoopStep

Spec == Init /\ [][Next]_vars

-----------------------------------------------------------------------------
(***************************************************************************)
(* The operations that only read, as the code computes them.               *)
(***************************************************************************)
\* The nodes a loop `while (node) node = node->next()` visits from m_head; a
\* cycle shows as more nodes than there are.
Walk(l) ==
    LET at[k \in 0..Cardinality(Nodes)] ==
            IF k = 0 THEN head[l] ELSE IF at[k - 1] = Null THEN Null ELSE next[at[k - 1]]
        visited == {k \in DOMAIN at : at[k] # Null}
    IN [i \in 1..Cardinality(visited) |-> at[i - 1]]

\* What range-for over the list sees.
Contents(l) == [i \in DOMAIN Walk(l) |-> value[Walk(l)[i]]]

\* operator==: m_size first, then both chains; b is not tested for null.
EqualTo(a, b) ==
    /\ size[a] = size[b]
    /\ \A i \in DOMAIN Walk(a) : Contents(a)[i] = Contents(b)[i]

\* operator<<: a separator after every node that is not m_tail.
Streamed(l) ==
    FlattenSeq([i \in DOMAIN Walk(l) |->
        IF Walk(l)[i] # tail[l] THEN <<Contents(l)[i], ", ">> ELSE <<Contents(l)[i]>>])

-----------------------------------------------------------------------------
\* The type of the state (slist.hpp:19-44, 218-222); m_size never wraps.
TypeOK ==
    /\ live \subseteq Lists
    /\ next \in [Owners \cup Nodes -> Nodes \cup {Null}]
    /\ value \in [Nodes -> Values \cup {NoValue}]
    /\ head \in [Owners -> Nodes \cup {Null}]
    /\ tail \in [Owners -> Nodes \cup {Null}]
    /\ size \in [Owners -> Nat]
    /\ alloc \subseteq Nodes
    /\ chain \in [Owners -> Seq(Nodes)]
    /\ op.kind \in {"idle", "copy", "init", "erase"}

\* The pointers of every list, the local temp included, spell its nodes in
\* order: the sentinel and m_head name the first node, each node the next
\* one, the last one null, m_tail the last one and m_size their number; so
\* no operation leaves a stale m_tail, sentinel or m_size behind
\* (slist.hpp:292-356, 395-513).
Links ==
    \A l \in Owners :
        LET c == chain[l] IN
        /\ size[l] = Len(c)
        /\ next[l] = head[l]
        /\ c = <<>> => head[l] = Null /\ tail[l] = Null
        /\ c # <<>> => head[l] = c[1] /\ tail[l] = c[Len(c)] /\ next[c[Len(c)]] = Null
        /\ \A i \in 1..(Len(c) - 1) : next[c[i]] = c[i + 1]

\* Every allocated node is in exactly one list, once: nothing leaks when an
\* element constructor throws, on assignment or destruction, and no list
\* keeps or shares a deleted node (slist.hpp:247-288, 395-500).
NodesOwned ==
    /\ alloc = UNION {NodesOf(l) : l \in Owners}
    /\ \A l \in Owners : IsInjective(chain[l])
    /\ \A a, b \in Owners : a # b => NodesOf(a) \cap NodesOf(b) = {}
    /\ op = Idle => chain[Temp] = <<>>
    /\ \A l \in Lists \ live : chain[l] = <<>>

\* operator== says equal exactly when the element sequences are equal, never
\* reading past the shorter chain (slist.hpp:147-170).
EqualityIsContents ==
    \A a, b \in live :
        /\ size[a] = size[b] => Len(Walk(a)) = Len(Walk(b))
        /\ EqualTo(a, b) <=> Contents(a) = Contents(b)

\* operator<< writes the elements separated by ", " and nothing after the
\* last one, although it recognises the last one by m_tail
\* (slist.hpp:127-145).
StreamIsContents ==
    \A l \in live :
        LET c == Contents(l)
            s == Streamed(l) IN
        /\ Len(s) = IF c = <<>> THEN 0 ELSE 2 * Len(c) - 1
        /\ \A i \in DOMAIN s : s[i] = IF i % 2 = 1 THEN c[(i + 1) \div 2] ELSE ", "

\* While a copy is under way, the elements copied so far and those still to
\* be visited are the source's, in order (slist.hpp:248-258).
CopyIsFaithful ==
    op.kind = "copy" =>
        LET done == Contents(Temp) IN
        /\ IsPrefix(done, Contents(op.from))
        /\ op.at = IF Len(done) = Len(chain[op.from]) THEN Null
                   ELSE chain[op.from][Len(done) + 1]

\* The three together, which every operation preserves and whose parts only
\* hold because of each other: pop_back deletes the node m_tail names, and
\* clear the nodes the links reach (slist.hpp:218-223).
Structure == TypeOK /\ Links /\ NodesOwned /\ CopyIsFaithful

\* What the reading operations compute from such a list is its contents.
ReadersAgree == EqualityIsContents /\ StreamIsContents

\* The elements of a list from node n on; none from its end.
ElementsFrom(l, n) == IF n = Null THEN 0 ELSE Len(chain[l]) + 1 - IndexOf(l, n)

\* How many elements the loop in progress still has before it, plus its last
\* test.
Left ==
    CASE op.kind = "copy"  -> 1 + ElementsFrom(op.from, op.at)
      [] op.kind = "init"  -> 1 + Len(op.rest)
      [] op.kind = "erase" -> 1 + ElementsFrom(op.list, next[op.first]) - ElementsFrom(op.list, op.last)
      [] OTHER -> 0

\* The nodes outside of the range that is erased: those up to `first`, and
\* `last` with those after it.
OutsideRange ==
    {n \in NodesOf(op.list) :
        \/ IndexOf(op.list, n) <= IndexOf(op.list, op.first)
        \/ op.last # Null /\ IndexOf(op.list, n) >= IndexOf(op.list, op.last)}

\* Every step of a loop takes it nearer to its end, or ends it: copies and
\* initializations by finishing or by throwing, never by starting over, and
\* range erasure exactly when nothing of the range is left, without a step that
\* takes a node from outside of it, although it reads the link after every
\* deletion again (slist.hpp:239-242, 252-255, 478-481).
LoopsAdvance ==
    [][op # Idle =>
          /\ op.kind = "erase" =>
                (\A l \in {op.list} : OutsideRange \subseteq NodesOf(l)') /\ Left' = Left - 1
          /\ 0 <= Left' /\ Left' < Left]_vars

\* A list as a client reads it, from m_head to null.
View == [l \in Lists |-> Contents(l)]

\* SList implements the sequence SListAbs describes; a copy that throws and the
\* intermediate steps of a copy are invisible (slist.hpp:225-513).
Abs == INSTANCE SListAbs WITH contents <- View
ImplementsSequence == Abs!Spec
=============================================================================
