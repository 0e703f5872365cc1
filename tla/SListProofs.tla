---------------------------- MODULE SListProofs ----------------------------
(***************************************************************************)
(* Proofs about SList for any lists, any finite heap and any values.       *)
(*                                                                         *)
(* The pointers alone say little: that pop_back may free the node m_tail   *)
(* names, or that clear meets each node once, follows from the chain the   *)
(* pointers spell. The inductive invariant IInv is therefore about chains: *)
(*   Heap     each owner's fields spell its chain (Spells), every          *)
(*            allocated node is in exactly one chain, once (Owned), holds  *)
(*            a value, and a free cell has a null link;                    *)
(*   Control  what the operation in progress knows: a copy has the first   *)
(*            elements of its source and stands at the next one (Copied),  *)
(*            an erase stands before an element of the range it was given  *)
(*            (Span), and the local temp is empty otherwise.               *)
(* The heap is stated over its fields as parameters (Well), so that each   *)
(* action is one of a few changes of them: an element put in, elements     *)
(* taken out, everything taken out, two lists exchanged or one moved.      *)
(*                                                                         *)
(* What the code reads it reads by walking the links. A walk is given by   *)
(* its recursive equation; two functions that satisfy it are equal, by     *)
(* their least point of difference, and the chain satisfies it.            *)
(***************************************************************************)
EXTENDS SList, SequenceTheorems, FiniteSetTheorems, WellFoundedInduction, TLAPS

-----------------------------------------------------------------------------
(***************************************************************************)
(* Walking the links.                                                      *)
(***************************************************************************)

\* The fields of list l spell the sequence c through the links nx.
Spells(l, c, nx, h, t, s) ==
    /\ s = Len(c)
    /\ nx[l] = h
    /\ c = <<>> => h = Null /\ t = Null
    /\ c # <<>> => h = c[1] /\ t = c[Len(c)] /\ nx[c[Len(c)]] = Null
    /\ \A i \in 1..(Len(c) - 1) : nx[c[i]] = c[i + 1]

\* f is a walk of n steps along nx from h.
Walks(f, n, h, nx) ==
    f = [k \in 0..n |-> IF k = 0 THEN h ELSE IF f[k - 1] = Null THEN Null ELSE nx[f[k - 1]]]

\* Two walks from the same node are the same.
LEMMA OneWalk ==
    ASSUME NEW n \in Nat, NEW h, NEW nx, NEW f, NEW g, Walks(f, n, h, nx), Walks(g, n, h, nx)
    PROVE  f = g
<1> DEFINE Differ == {k \in 0..n : f[k] # g[k]}
<1>1. Differ = {}
    <2> SUFFICES ASSUME Differ # {} PROVE FALSE
        OBVIOUS
    <2>1. Differ \subseteq Nat
        OBVIOUS
    <2>2. PICK x \in Differ : \A y \in Differ : <<y, x>> \notin OpToRel(<, Nat)
        BY <2>1, WFMin, NatLessThanWellFounded
    <2>3. \A y \in Differ : ~(y < x)
        BY <2>1, <2>2 DEF OpToRel
    <2>4. x # 0
        BY DEF Walks
    <2>5. x - 1 \in 0..n /\ x - 1 \notin Differ
        BY <2>3, <2>4
    <2> QED BY <2>4, <2>5 DEF Walks
<1>2. DOMAIN f = 0..n /\ DOMAIN g = 0..n /\ f = [k \in 0..n |-> f[k]] /\ g = [k \in 0..n |-> g[k]]
    BY DEF Walks
<1> QED BY <1>1, <1>2

\* A walk along links that spell c visits c and then stays at null.
LEMMA SpelledWalk ==
    ASSUME NEW l, NEW c \in Seq(Nodes), NEW nx, NEW h, NEW t, NEW s, NEW n \in Nat,
           Len(c) <= n, Null \notin Nodes, Spells(l, c, nx, h, t, s)
    PROVE  Walks([k \in 0..n |-> IF k < Len(c) THEN c[k + 1] ELSE Null], n, h, nx)
<1> DEFINE f == [k \in 0..n |-> IF k < Len(c) THEN c[k + 1] ELSE Null]
<1> SUFFICES ASSUME NEW k \in 0..n
             PROVE  f[k] = IF k = 0 THEN h ELSE IF f[k - 1] = Null THEN Null ELSE nx[f[k - 1]]
    BY DEF Walks
<1>1. Len(c) \in Nat /\ (c = <<>> <=> Len(c) = 0)
    BY EmptySeq, LenProperties
<1>2. CASE k = 0
    BY <1>1, <1>2 DEF Spells
<1>3. CASE k # 0 /\ k < Len(c)
    <2>1. k - 1 \in 0..n /\ k - 1 < Len(c) /\ k \in 1..(Len(c) - 1) /\ c[k] \in Nodes
        BY <1>1, <1>3, ElementOfSeq
    <2> QED BY <2>1, <1>3 DEF Spells
<1>4. CASE k # 0 /\ k = Len(c)
    <2>1. k - 1 \in 0..n /\ k - 1 < Len(c) /\ c[k] \in Nodes
        BY <1>1, <1>4, ElementOfSeq
    <2> QED BY <1>1, <2>1, <1>4 DEF Spells
<1>5. CASE k > Len(c)
    BY <1>1, <1>5
<1> QED BY <1>1, <1>2, <1>3, <1>4, <1>5

\* A chain without repetition is no longer than the heap.
LEMMA ChainFitsHeap ==
    ASSUME NEW c \in Seq(Nodes), IsInjective(c)
    PROVE  Cardinality(Nodes) \in Nat /\ Len(c) <= Cardinality(Nodes)
<1>1. Len(c) \in Nat /\ DOMAIN c = 1..Len(c) /\ c \in [1..Len(c) -> Nodes]
    BY LenProperties
<1>2. c \in Injection(1..Len(c), Nodes)
    BY <1>1 DEF Injection, IsInjective
<1>3. Cardinality(1..Len(c)) <= Cardinality(Nodes) /\ Cardinality(Nodes) \in Nat
    BY <1>2, FS_Injection, FS_CardinalityType, ListAssumption
<1>4. Cardinality(1..Len(c)) = Len(c)
    BY <1>1, FS_Interval
<1> QED BY <1>3, <1>4

\* The loop of the readers visits exactly the nodes a list holds.
LEMMA WalkIsChain ==
    ASSUME NEW l \in Owners, chain[l] \in Seq(Nodes), IsInjective(chain[l]),
           Spells(l, chain[l], next, head[l], tail[l], size[l])
    PROVE  Walk(l) = chain[l]
<1> DEFINE c == chain[l]
           n == Cardinality(Nodes)
           f == [k \in 0..n |-> IF k < Len(c) THEN c[k + 1] ELSE Null]
           at == CHOOSE at : Walks(at, n, head[l], next)
           visited == {k \in DOMAIN at : at[k] # Null}
<1>1. n \in Nat /\ Len(c) \in Nat /\ Len(c) <= n /\ c = [i \in 1..Len(c) |-> c[i]]
    BY ChainFitsHeap, LenProperties
<1>2. Walks(f, n, head[l], next)
    BY <1>1, SpelledWalk, ListAssumption
<1>3. at = f
    BY <1>1, <1>2, OneWalk
<1>4. Walk(l) = [i \in 1..Cardinality(visited) |-> at[i - 1]]
    BY DEF Walk, Walks
<1> HIDE DEF at
<1>5. visited = 0..(Len(c) - 1)
    BY <1>1, <1>3, ElementOfSeq, ListAssumption
<1> HIDE DEF visited
<1>6. Cardinality(visited) = Len(c)
    <2>1. ASSUME NEW m \in Nat PROVE Cardinality(0..(m - 1)) = m
        <3>1. Cardinality(0..(m - 1)) = IF 0 > m - 1 THEN 0 ELSE (m - 1) - 0 + 1
            BY FS_Interval
        <3> QED BY <3>1
    <2> HIDE DEF c
    <2> QED BY <1>1, <1>5, <2>1
<1>7. \A i \in 1..Len(c) : at[i - 1] = c[i]
    BY <1>1, <1>3
<1> QED BY <1>1, <1>4, <1>6, <1>7

-----------------------------------------------------------------------------
(***************************************************************************)
(* What inserting and removing one element does to a sequence.             *)
(***************************************************************************)
Elements(c) == {c[i] : i \in DOMAIN c}

\* d is c with e after the first k elements.
Inserted(c, d, k, e) ==
    /\ Len(d) = Len(c) + 1
    /\ \A i \in 1..Len(d) : d[i] = IF i <= k THEN c[i] ELSE IF i = k + 1 THEN e ELSE c[i - 1]

\* d is c without its element k.
Removed(c, d, k) ==
    /\ Len(d) = Len(c) - 1
    /\ \A i \in 1..Len(d) : d[i] = IF i < k THEN c[i] ELSE c[i + 1]

\* The first m elements, and the elements from m on.
LEMMA TakeFirst ==
    ASSUME NEW S, NEW c \in Seq(S), NEW m \in 0..Len(c)
    PROVE  /\ SubSeq(c, 1, m) \in Seq(S)
           /\ Len(SubSeq(c, 1, m)) = m
           /\ \A i \in 1..m : SubSeq(c, 1, m)[i] = c[i]
<1>1. \A i \in 1..m : c[i] \in S
    BY LenProperties, ElementOfSeq
<1> QED BY <1>1, LenProperties, SubSeqProperties

LEMMA DropFirst ==
    ASSUME NEW S, NEW c \in Seq(S), NEW m \in 1..(Len(c) + 1)
    PROVE  /\ SubSeq(c, m, Len(c)) \in Seq(S)
           /\ Len(SubSeq(c, m, Len(c))) = Len(c) - m + 1
           /\ \A i \in 1..(Len(c) - m + 1) : SubSeq(c, m, Len(c))[i] = c[m + i - 1]
<1>1. Len(c) \in Int /\ m \in Int /\ m <= Len(c) + 1
    BY LenProperties
<1>2. \A i \in m..Len(c) : c[i] \in S
    BY <1>1, ElementOfSeq
<1> QED BY <1>1, <1>2, SubSeqProperties

LEMMA InsertAtInserts ==
    ASSUME NEW S, NEW c \in Seq(S), NEW k \in 0..Len(c), NEW e \in S
    PROVE  InsertAt(c, k + 1, e) \in Seq(S) /\ Inserted(c, InsertAt(c, k + 1, e), k, e)
<1> DEFINE m == k + 1
           a == SubSeq(c, 1, k)
           b == SubSeq(c, m, Len(c))
           ae == a \o <<e>>
<1>1. Len(c) \in Nat /\ k \in Nat /\ m \in 1..(Len(c) + 1) /\ m = k + 1 /\ m - 1 = k
    BY LenProperties
<1>2. InsertAt(c, m, e) = ae \o b
    BY <1>1 DEF InsertAt
<1> HIDE DEF m
<1>3. a \in Seq(S) /\ Len(a) = k /\ \A i \in 1..k : a[i] = c[i]
    BY TakeFirst
<1>4. b \in Seq(S) /\ Len(b) = Len(c) - m + 1 /\ \A i \in 1..(Len(c) - m + 1) : b[i] = c[m + i - 1]
    BY <1>1, DropFirst
<1> HIDE DEF a, b
<1>5. ae \in Seq(S) /\ Len(ae) = m /\ \A i \in 1..m : ae[i] = IF i <= k THEN a[i] ELSE e
    <2>1. <<e>> \in Seq(S) /\ Len(<<e>>) = 1 /\ <<e>>[1] = e
        OBVIOUS
    <2>2. Len(a) + Len(<<e>>) = m
        BY <1>1, <1>3, <2>1
    <2>3. /\ ae \in Seq(S) /\ Len(ae) = m
          /\ \A i \in 1..m : ae[i] = IF i <= Len(a) THEN a[i] ELSE <<e>>[i - Len(a)]
        BY <1>3, <2>1, <2>2, ConcatProperties
    <2>4. ASSUME NEW i \in 1..m, ~(i <= k) PROVE i - k = 1
        BY <1>1, <2>4
    <2> HIDE DEF ae
    <2> QED BY <1>3, <2>1, <2>3, <2>4
<1> HIDE DEF ae
<1>6. /\ ae \o b \in Seq(S)
      /\ Len(ae \o b) = Len(c) + 1
      /\ \A i \in 1..(Len(c) + 1) : (ae \o b)[i] = IF i <= m THEN ae[i] ELSE b[i - m]
    <2>1. ae \in Seq(S) /\ b \in Seq(S) /\ Len(ae) = m /\ Len(ae) + Len(b) = Len(c) + 1
        BY <1>1, <1>4, <1>5
    <2> QED BY <2>1, ConcatProperties
<1>7. ASSUME NEW i \in 1..(Len(c) + 1)
      PROVE  (ae \o b)[i] = IF i <= k THEN c[i] ELSE IF i = k + 1 THEN e ELSE c[i - 1]
    <2>1. CASE i <= m
        <3>1. (ae \o b)[i] = ae[i] /\ i \in 1..m
            BY <1>1, <1>6, <2>1
        <3> QED BY <1>1, <1>3, <1>5, <3>1
    <2>2. CASE i > m
        <3>1. i - m \in 1..(Len(c) - m + 1) /\ m + (i - m) - 1 = i - 1 /\ ~(i <= m)
            BY <1>1, <2>2
        <3>2. (ae \o b)[i] = b[i - m] /\ b[i - m] = c[i - 1]
            BY <1>4, <1>6, <3>1
        <3> QED BY <1>1, <2>2, <3>2
    <2>3. i <= m \/ i > m
        BY <1>1
    <2> QED BY <2>1, <2>2, <2>3
<1>8. InsertAt(c, k + 1, e) = ae \o b
    BY <1>1, <1>2
<1> DEFINE d == ae \o b
<1>9. d \in Seq(S) /\ Len(d) = Len(c) + 1 /\ InsertAt(c, k + 1, e) = d
    BY <1>6, <1>8
<1>10. \A i \in 1..(Len(c) + 1) : d[i] = IF i <= k THEN c[i] ELSE IF i = k + 1 THEN e ELSE c[i - 1]
    BY <1>7
<1> HIDE DEF d
<1> QED BY <1>9, <1>10 DEF Inserted

LEMMA AppendInserts ==
    ASSUME NEW S, NEW c \in Seq(S), NEW e \in S
    PROVE  Append(c, e) \in Seq(S) /\ Inserted(c, Append(c, e), Len(c), e)
BY AppendProperties, LenProperties DEF Inserted

LEMMA PrependInserts ==
    ASSUME NEW S, NEW c \in Seq(S), NEW e \in S
    PROVE  <<e>> \o c \in Seq(S) /\ Inserted(c, <<e>> \o c, 0, e)
<1>1. <<e>> \in Seq(S) /\ Len(<<e>>) = 1 /\ <<e>>[1] = e /\ Len(c) \in Nat
    BY LenProperties
<1> QED BY <1>1, ConcatProperties DEF Inserted

LEMMA RemoveAtRemoves ==
    ASSUME NEW S, NEW c \in Seq(S), NEW k \in 1..Len(c)
    PROVE  RemoveAt(c, k) \in Seq(S) /\ Removed(c, RemoveAt(c, k), k)
<1> DEFINE m == k - 1
           j == k + 1
           a == SubSeq(c, 1, m)
           b == SubSeq(c, j, Len(c))
<1>1. RemoveAt(c, k) = a \o b
    BY DEF RemoveAt
<1>2. Len(c) \in Nat /\ m \in 0..Len(c) /\ j \in 1..(Len(c) + 1) /\ k = m + 1 /\ j = m + 2 /\ m < Len(c)
    BY LenProperties
<1> HIDE DEF m, j
<1>3. a \in Seq(S) /\ Len(a) = m /\ \A i \in 1..m : a[i] = c[i]
    BY <1>2, TakeFirst
<1>4. b \in Seq(S) /\ Len(b) = Len(c) - j + 1 /\ \A i \in 1..(Len(c) - j + 1) : b[i] = c[j + i - 1]
    BY <1>2, DropFirst
<1> HIDE DEF a, b
<1>5. /\ a \o b \in Seq(S)
      /\ Len(a \o b) = Len(c) - 1
      /\ \A i \in 1..(Len(c) - 1) : (a \o b)[i] = IF i <= m THEN a[i] ELSE b[i - m]
    <2>1. Len(a) + Len(b) = Len(c) - 1
        BY <1>2, <1>3, <1>4
    <2>2. /\ a \o b \in Seq(S) /\ Len(a \o b) = Len(a) + Len(b)
          /\ \A i \in 1..(Len(a) + Len(b)) : (a \o b)[i] = IF i <= Len(a) THEN a[i] ELSE b[i - Len(a)]
        BY <1>3, <1>4, ConcatProperties
    <2> QED BY <1>3, <2>1, <2>2
<1>6. ASSUME NEW i \in 1..(Len(c) - 1)
      PROVE  (a \o b)[i] = IF i < k THEN c[i] ELSE c[i + 1]
    <2>1. CASE i <= m
        BY <1>2, <1>3, <1>5, <2>1
    <2>2. CASE i > m
        <3>1. i - m \in 1..(Len(c) - j + 1) /\ j + (i - m) - 1 = i + 1 /\ ~(i <= m) /\ ~(i < k)
            BY <1>2, <2>2
        <3>2. (a \o b)[i] = b[i - m] /\ b[i - m] = c[i + 1]
            BY <1>4, <1>5, <3>1
        <3> QED BY <3>1, <3>2
    <2>3. i <= m \/ i > m
        BY <1>2
    <2> QED BY <2>1, <2>2, <2>3
<1> QED BY <1>1, <1>5, <1>6 DEF Removed

LEMMA FrontRemoves ==
    ASSUME NEW S, NEW c \in Seq(S), c # <<>>
    PROVE  Front(c) \in Seq(S) /\ Removed(c, Front(c), Len(c))
<1> DEFINE m == Len(c) - 1
<1>1. Len(c) \in Nat \ {0} /\ m \in 0..Len(c) /\ m = Len(c) - 1
    BY EmptySeq
<1>2. Front(c) = SubSeq(c, 1, m)
    BY DEF Front
<1> HIDE DEF m
<1> QED BY <1>1, <1>2, TakeFirst DEF Removed

LEMMA TailRemoves ==
    ASSUME NEW S, NEW c \in Seq(S), c # <<>>
    PROVE  Tail(c) \in Seq(S) /\ Removed(c, Tail(c), 1)
<1>1. Len(c) \in Nat \ {0}
    BY EmptySeq
<1> QED BY <1>1, HeadTailProperties DEF Removed

\* Inserting a new element keeps a sequence free of repetition.
LEMMA InsertedElements ==
    ASSUME NEW S, NEW c \in Seq(S), NEW d \in Seq(S), NEW k \in 0..Len(c), NEW e,
           Inserted(c, d, k, e), IsInjective(c), e \notin Elements(c)
    PROVE  IsInjective(d) /\ Elements(d) = Elements(c) \cup {e}
<1>1. Len(c) \in Nat /\ DOMAIN c = 1..Len(c) /\ DOMAIN d = 1..(Len(c) + 1)
    BY LenProperties DEF Inserted
<1>2. ASSUME NEW i \in 1..Len(c) PROVE \E j \in 1..(Len(c) + 1) : d[j] = c[i]
    <2>1. CASE i <= k
        BY <1>1, <2>1 DEF Inserted
    <2>2. CASE i > k
        <3>1. i + 1 \in 1..(Len(c) + 1) /\ d[i + 1] = c[i]
            BY <1>1, <2>2 DEF Inserted
        <3> QED BY <3>1
    <2> QED BY <1>1, <2>1, <2>2
<1>3. k + 1 \in 1..(Len(c) + 1) /\ d[k + 1] = e
    BY <1>1 DEF Inserted
<1>4. ASSUME NEW j \in 1..(Len(c) + 1)
      PROVE  \/ j <= k /\ j \in 1..Len(c) /\ d[j] = c[j]
             \/ j = k + 1 /\ d[j] = e
             \/ j > k + 1 /\ j - 1 \in 1..Len(c) /\ d[j] = c[j - 1]
    BY <1>1 DEF Inserted
<1>5. Elements(d) = Elements(c) \cup {e}
    <2>1. ASSUME NEW x \in Elements(d) PROVE x \in Elements(c) \cup {e}
        BY <1>1, <1>4 DEF Elements
    <2>2. ASSUME NEW x \in Elements(c) PROVE x \in Elements(d)
        BY <1>1, <1>2 DEF Elements
    <2>3. e \in Elements(d)
        BY <1>1, <1>3 DEF Elements
    <2> QED BY <2>1, <2>2, <2>3
<1>6. \A i \in 1..Len(c) : c[i] # e
    BY <1>1 DEF Elements
<1>7. \A i, j \in 1..Len(c) : c[i] = c[j] => i = j
    BY <1>1 DEF IsInjective
<1>8. ASSUME NEW i \in 1..(Len(c) + 1), NEW j \in 1..(Len(c) + 1), d[i] = d[j] PROVE i = j
    BY <1>1, <1>4, <1>6, <1>7, <1>8
<1> QED BY <1>1, <1>5, <1>8 DEF IsInjective

LEMMA RemovedElements ==
    ASSUME NEW S, NEW c \in Seq(S), NEW d \in Seq(S), NEW k \in 1..Len(c),
           Removed(c, d, k), IsInjective(c)
    PROVE  IsInjective(d) /\ Elements(d) = Elements(c) \ {c[k]}
<1>1. Len(c) \in Nat /\ DOMAIN c = 1..Len(c) /\ DOMAIN d = 1..(Len(c) - 1)
    BY LenProperties DEF Removed
<1>2. ASSUME NEW i \in 1..Len(c), i # k PROVE \E j \in 1..(Len(c) - 1) : d[j] = c[i]
    <2>1. CASE i < k
        BY <1>1, <2>1 DEF Removed
    <2>2. CASE i > k
        <3>1. i - 1 \in 1..(Len(c) - 1) /\ d[i - 1] = c[i]
            BY <1>1, <2>2 DEF Removed
        <3> QED BY <3>1
    <2> QED BY <1>1, <1>2, <2>1, <2>2
<1>3. ASSUME NEW j \in 1..(Len(c) - 1)
      PROVE  \/ j < k /\ j \in 1..Len(c) /\ d[j] = c[j]
             \/ j >= k /\ j + 1 \in 1..Len(c) /\ d[j] = c[j + 1]
    BY <1>1 DEF Removed
<1>4. \A i, j \in 1..Len(c) : c[i] = c[j] => i = j
    BY <1>1 DEF IsInjective
<1>5. ASSUME NEW i \in 1..(Len(c) - 1), NEW j \in 1..(Len(c) - 1), d[i] = d[j] PROVE i = j
    BY <1>1, <1>3, <1>4, <1>5
<1>6. ASSUME NEW j \in 1..(Len(c) - 1) PROVE d[j] # c[k]
    BY <1>1, <1>3, <1>4
<1>7. Elements(d) = Elements(c) \ {c[k]}
    <2>1. ASSUME NEW x \in Elements(d) PROVE x \in Elements(c) \ {c[k]}
        BY <1>1, <1>3, <1>6 DEF Elements
    <2>2. ASSUME NEW x \in Elements(c), x # c[k] PROVE x \in Elements(d)
        BY <1>1, <1>2, <2>2 DEF Elements
    <2> QED BY <2>1, <2>2
<1> QED BY <1>1, <1>5, <1>7 DEF IsInjective

-----------------------------------------------------------------------------
(***************************************************************************)
(* What inserting and removing one node does to a list.                    *)
(***************************************************************************)

\* Fields that spell c go on spelling it when no link of its nodes changes.
LEMMA SpellsFrame ==
    ASSUME NEW l, NEW c \in Seq(Nodes), NEW nx, NEW ny, NEW h, NEW t, NEW s,
           Spells(l, c, nx, h, t, s), ny[l] = nx[l], \A x \in Elements(c) : ny[x] = nx[x]
    PROVE  Spells(l, c, ny, h, t, s)
<1>1. Len(c) \in Nat /\ DOMAIN c = 1..Len(c) /\ (c # <<>> => Len(c) # 0)
    BY LenProperties, EmptySeq
<1>2. \A i \in 1..Len(c) : ny[c[i]] = nx[c[i]]
    BY <1>1 DEF Elements
<1> QED BY <1>1, <1>2 DEF Spells

\* The links after node n was put behind the first k nodes of c.
LinkedIn(l, c, nx, ny, k, n) ==
    /\ ny[n] = IF k = Len(c) THEN Null ELSE c[k + 1]
    /\ k # 0 => ny[c[k]] = n
    /\ ny[l] = IF k = 0 THEN n ELSE nx[l]
    /\ \A x \in Elements(c) : (k = 0 \/ x # c[k]) => ny[x] = nx[x]

LEMMA InsertedSpells ==
    ASSUME NEW l, NEW c \in Seq(Nodes), NEW d \in Seq(Nodes), NEW k \in 0..Len(c), NEW n \in Nodes,
           NEW nx, NEW ny, NEW h, NEW t, NEW s,
           Inserted(c, d, k, n), IsInjective(c), Spells(l, c, nx, h, t, s),
           LinkedIn(l, c, nx, ny, k, n)
    PROVE  Spells(l, d, ny, IF k = 0 THEN n ELSE h, IF k = Len(c) THEN n ELSE t, s + 1)
<1>0. Len(c) \in Nat
    BY LenProperties
<1>1. /\ Len(c) \in Nat /\ DOMAIN c = 1..Len(c) /\ Len(d) = Len(c) + 1 /\ d # <<>>
      /\ c = <<>> <=> Len(c) = 0
    BY LenProperties, EmptySeq DEF Inserted
<1>2. \A i \in 1..Len(c) : c[i] \in Elements(c) /\ (k # 0 /\ c[i] = c[k] => i = k)
    BY <1>1 DEF Elements, IsInjective
<1>3. \A i \in 1..(Len(c) + 1) : d[i] = IF i <= k THEN c[i] ELSE IF i = k + 1 THEN n ELSE c[i - 1]
    BY <1>1 DEF Inserted
<1>4. ny[l] = IF k = 0 THEN n ELSE h
    BY DEF LinkedIn, Spells
<1>5. d[1] = IF k = 0 THEN n ELSE h
    BY <1>1, <1>3 DEF Spells
<1>6. d[Len(d)] = IF k = Len(c) THEN n ELSE t
    <2>1. CASE k = Len(c)
        BY <1>1, <1>3, <2>1
    <2>2. CASE k # Len(c)
        <3>1. k \in 0..(Len(c) - 1) /\ Len(c) # 0
            BY <1>0, <2>2
        <3>2. d[Len(c) + 1] = c[Len(c)]
            BY <1>1, <1>3, <3>1
        <3>3. t = c[Len(c)]
            BY <1>1, <3>1 DEF Spells
        <3> QED BY <1>1, <2>2, <3>2, <3>3
    <2> QED BY <2>1, <2>2
<1>7. ny[d[Len(d)]] = Null
    <2>1. CASE k = Len(c)
        BY <1>6, <2>1 DEF LinkedIn
    <2>2. CASE k # Len(c)
        <3>1. Len(c) \in 1..Len(c) /\ Len(c) # k /\ Len(c) # 0
            BY <1>0, <2>2
        <3>2. ny[c[Len(c)]] = nx[c[Len(c)]]
            BY <1>2, <3>1 DEF LinkedIn
        <3>3. t = c[Len(c)] /\ nx[c[Len(c)]] = Null
            BY <1>1, <3>1 DEF Spells
        <3> QED BY <1>6, <2>2, <3>2, <3>3
    <2> QED BY <2>1, <2>2
<1>8. ASSUME NEW i \in 1..(Len(d) - 1) PROVE ny[d[i]] = d[i + 1]
    <2>1. i \in 1..Len(c)
        BY <1>1
    <2>2. CASE i < k
        <3>1. d[i] = c[i] /\ d[i + 1] = c[i + 1] /\ i \in 1..(Len(c) - 1) /\ i # k /\ k # 0
            BY <1>1, <1>3, <2>2
        <3>2. ny[c[i]] = nx[c[i]]
            BY <1>2, <2>1, <3>1 DEF LinkedIn
        <3> QED BY <3>1, <3>2 DEF Spells
    <2>3. CASE i = k
        <3>1. d[i] = c[k] /\ d[i + 1] = n /\ k # 0
            BY <1>1, <1>3, <2>3
        <3> QED BY <3>1 DEF LinkedIn
    <2>4. CASE i = k + 1
        <3>1. i + 1 \in 1..(Len(c) + 1) /\ ~(i <= k) /\ ~(i + 1 <= k) /\ i + 1 # k + 1 /\ i + 1 - 1 = k + 1
              /\ k # Len(c) /\ i \in 1..(Len(c) + 1)
            BY <1>0, <2>1, <2>4
        <3>2. d[i] = n /\ d[i + 1] = c[k + 1]
            BY <1>3, <2>4, <3>1
        <3> QED BY <3>1, <3>2 DEF LinkedIn
    <2>5. CASE i > k + 1
        <3>1. d[i] = c[i - 1] /\ d[i + 1] = c[i] /\ i - 1 \in 1..(Len(c) - 1) /\ i - 1 \in 1..Len(c) /\ i - 1 # k
            BY <1>1, <1>3, <2>5
        <3>2. ny[c[i - 1]] = nx[c[i - 1]]
            BY <1>2, <3>1 DEF LinkedIn
        <3>3. nx[c[i - 1]] = c[i - 1 + 1] /\ i - 1 + 1 = i
            BY <3>1 DEF Spells
        <3> QED BY <3>1, <3>2, <3>3
    <2>6. i < k \/ i = k \/ i = k + 1 \/ i > k + 1
        BY <1>1
    <2> QED BY <2>2, <2>3, <2>4, <2>5, <2>6
<1>9. s + 1 = Len(d)
    BY <1>1 DEF Spells
<1> QED BY <1>1, <1>4, <1>5, <1>6, <1>7, <1>8, <1>9 DEF Spells

\* The links after node k of c was taken out.
LinkedOut(l, c, nx, ny, k) ==
    /\ ny[l] = IF k = 1 THEN nx[c[k]] ELSE nx[l]
    /\ k # 1 => ny[c[k - 1]] = nx[c[k]]
    /\ \A x \in Elements(c) : x # c[k] /\ (k = 1 \/ x # c[k - 1]) => ny[x] = nx[x]

LEMMA RemovedSpells ==
    ASSUME NEW l, NEW c \in Seq(Nodes), NEW d \in Seq(Nodes), NEW k \in 1..Len(c),
           NEW nx, NEW ny, NEW h, NEW t, NEW s,
           Removed(c, d, k), IsInjective(c), Spells(l, c, nx, h, t, s), LinkedOut(l, c, nx, ny, k)
    PROVE  Spells(l, d, ny, IF k = 1 THEN nx[c[1]] ELSE h,
                  IF k = Len(c) THEN IF k = 1 THEN Null ELSE c[k - 1] ELSE t, s - 1)
<1>0. Len(c) \in Nat
    BY LenProperties
<1>1. /\ Len(c) \in Nat /\ DOMAIN c = 1..Len(c) /\ Len(d) = Len(c) - 1 /\ c # <<>>
      /\ d = <<>> <=> Len(c) = 1
    BY LenProperties, EmptySeq DEF Removed
<1>2. \A i, j \in 1..Len(c) : c[i] \in Elements(c) /\ (c[i] = c[j] => i = j)
    BY <1>1 DEF Elements, IsInjective
<1>3. \A i \in 1..(Len(c) - 1) : d[i] = IF i < k THEN c[i] ELSE c[i + 1]
    BY <1>1 DEF Removed
<1>4. ny[l] = IF k = 1 THEN nx[c[1]] ELSE h
    BY DEF LinkedOut, Spells
<1>5. \A i \in 1..Len(c) : i # k /\ i # k - 1 => ny[c[i]] = nx[c[i]]
    <2> TAKE i \in 1..Len(c)
    <2> HAVE i # k /\ i # k - 1
    <2>1. c[i] \in Elements(c) /\ c[i] # c[k]
        BY <1>2
    <2>2. k = 1 \/ c[i] # c[k - 1]
        <3>1. CASE k # 1
            <4>1. k - 1 \in 1..Len(c)
                BY <1>1, <3>1
            <4> QED BY <1>2, <4>1
        <3> QED BY <3>1
    <2> QED BY <2>1, <2>2 DEF LinkedOut
<1>6. nx[c[Len(c)]] = Null /\ h = c[1] /\ t = c[Len(c)] /\ \A i \in 1..(Len(c) - 1) : nx[c[i]] = c[i + 1]
    BY <1>1 DEF Spells
<1>7. CASE d = <<>>
    <2>1. Len(c) = 1 /\ k = 1
        BY <1>1, <1>7
    <2> QED BY <1>1, <1>4, <1>6, <1>7, <2>1, EmptySeq DEF Spells
<1>8. CASE d # <<>>
    <2>1. Len(c) > 1
        BY <1>1, <1>8
    <2>2. d[1] = IF k = 1 THEN nx[c[1]] ELSE h
        BY <1>1, <1>3, <1>6, <2>1
    <2>3. d[Len(d)] = IF k = Len(c) THEN IF k = 1 THEN Null ELSE c[k - 1] ELSE t
        <3>1. Len(d) \in 1..(Len(c) - 1) /\ Len(d) + 1 = Len(c) /\ Len(d) = Len(c) - 1
            BY <1>1, <2>1
        <3>2. CASE k = Len(c)
            BY <1>3, <2>1, <3>1, <3>2
        <3>3. CASE k # Len(c)
            <4> DEFINE m == Len(c) - 1
            <4>1. m \in 1..(Len(c) - 1) /\ m + 1 = Len(c) /\ ~(m < k)
                BY <1>0, <2>1, <3>3
            <4>2. Len(d) = m
                BY <3>1
            <4> HIDE DEF m
            <4> QED BY <1>3, <1>6, <3>3, <4>1, <4>2
        <3> QED BY <3>2, <3>3
    <2>4. ny[d[Len(d)]] = Null
        <3>1. CASE k = Len(c)
            <4>1. k # 1
                BY <2>1, <3>1
            <4> QED BY <1>6, <2>3, <3>1, <4>1 DEF LinkedOut
        <3>2. CASE k # Len(c)
            <4>1. Len(c) \in 1..Len(c) /\ Len(c) # k - 1
                BY <1>1, <2>1
            <4> QED BY <1>5, <1>6, <2>3, <3>2, <4>1
        <3> QED BY <3>1, <3>2
    <2>5. ASSUME NEW i \in 1..(Len(d) - 1) PROVE ny[d[i]] = d[i + 1]
        <3>1. i \in 1..(Len(c) - 2) /\ i \in 1..(Len(c) - 1) /\ i + 1 \in 1..(Len(c) - 1)
              /\ i \in 1..Len(c) /\ i + 1 \in 1..Len(c) /\ i + 1 + 1 = i + 2
            BY <1>1
        <3>2. CASE i < k - 1
            <4>1. i < k /\ i + 1 < k /\ i # k /\ i # k - 1
                BY <3>1, <3>2
            <4>2. d[i] = c[i] /\ d[i + 1] = c[i + 1]
                BY <1>3, <3>1, <4>1
            <4>3. ny[c[i]] = nx[c[i]]
                BY <1>5, <3>1, <4>1
            <4>4. nx[c[i]] = c[i + 1]
                BY <1>6, <3>1
            <4> QED BY <4>2, <4>3, <4>4
        <3>3. CASE i = k - 1
            <4>1. i < k /\ ~(i + 1 < k) /\ i + 1 = k /\ k # 1 /\ k \in 1..(Len(c) - 1)
                BY <3>1, <3>3
            <4>2. d[i] = c[k - 1] /\ d[i + 1] = c[k + 1]
                BY <1>3, <3>1, <3>3, <4>1
            <4> QED BY <1>6, <4>1, <4>2 DEF LinkedOut
        <3>4. CASE i > k - 1
            <4>0. ~(i < k) /\ ~(i + 1 < k) /\ i + 1 + 1 = i + 2
                BY <3>1, <3>4
            <4>1. d[i] = c[i + 1] /\ d[i + 1] = c[i + 2]
                BY <1>3, <3>1, <4>0
            <4>2. ny[c[i + 1]] = nx[c[i + 1]]
                BY <1>5, <3>1, <3>4
            <4>3. nx[c[i + 1]] = c[i + 2]
                BY <1>6, <3>1
            <4> QED BY <4>1, <4>2, <4>3
        <3>5. i < k - 1 \/ i = k - 1 \/ i > k - 1
            BY <3>1
        <3> QED BY <3>2, <3>3, <3>4, <3>5
    <2>6. s - 1 = Len(d)
        BY <1>1 DEF Spells
    <2> QED BY <1>4, <1>8, <2>2, <2>3, <2>4, <2>5, <2>6 DEF Spells
<1> QED BY <1>7, <1>8

-----------------------------------------------------------------------------
(***************************************************************************)
(* The heap: every list spells its chain and every allocated node is in    *)
(* exactly one chain.                                                      *)
(***************************************************************************)

\* Every node of al is in exactly one of the chains, once.
Owned(ch, al) ==
    /\ al = UNION {Elements(ch[l]) : l \in Owners}
    /\ \A l \in Owners : IsInjective(ch[l])
    /\ \A a, b \in Owners : a # b => Elements(ch[a]) \cap Elements(ch[b]) = {}

Typed(nx, vl, h, t, s, al, ch) ==
    /\ nx \in [Owners \cup Nodes -> Nodes \cup {Null}]
    /\ vl \in [Nodes -> Values \cup {NoValue}]
    /\ h \in [Owners -> Nodes \cup {Null}]
    /\ t \in [Owners -> Nodes \cup {Null}]
    /\ s \in [Owners -> Nat]
    /\ al \subseteq Nodes
    /\ ch \in [Owners -> Seq(Nodes)]

Well(nx, vl, h, t, s, al, ch) ==
    /\ Typed(nx, vl, h, t, s, al, ch)
    /\ \A l \in Owners : Spells(l, ch[l], nx, h[l], t[l], s[l])
    /\ Owned(ch, al)
    /\ \A n \in al : vl[n] \in Values
    /\ \A n \in Nodes \ al : nx[n] = Null

Heap == Well(next, value, head, tail, size, alloc, chain)

LEMMA ElementsType ==
    ASSUME NEW c \in Seq(Nodes)
    PROVE  /\ Elements(c) \subseteq Nodes
           /\ \A i \in 1..Len(c) : c[i] \in Elements(c)
           /\ c = <<>> <=> Elements(c) = {}
<1>1. Len(c) \in Nat /\ DOMAIN c = 1..Len(c) /\ (c = <<>> <=> Len(c) = 0)
    BY LenProperties, EmptySeq
<1>2. \A i \in 1..Len(c) : c[i] \in Elements(c) /\ c[i] \in Nodes
    BY <1>1, ElementOfSeq DEF Elements
<1>3. Elements(c) \subseteq Nodes
    BY <1>1, <1>2 DEF Elements
<1>4. ASSUME c # <<>> PROVE Elements(c) # {}
    <2>1. 1 \in 1..Len(c)
        BY <1>1, <1>4
    <2> QED BY <1>2, <2>1
<1>5. ASSUME c = <<>> PROVE Elements(c) = {}
    <2>1. 1..Len(c) = {}
        BY <1>1, <1>5
    <2> QED BY <1>1, <2>1 DEF Elements
<1> QED BY <1>2, <1>3, <1>4, <1>5

LEMMA OwnedElements ==
    ASSUME NEW ch, NEW al, Owned(ch, al), NEW l \in Owners
    PROVE  Elements(ch[l]) \subseteq al
BY DEF Owned

LEMMA OwnedInsert ==
    ASSUME NEW ch \in [Owners -> Seq(Nodes)], NEW al, Owned(ch, al), NEW l \in Owners,
           NEW n, n \notin al, NEW d \in Seq(Nodes), IsInjective(d),
           Elements(d) = Elements(ch[l]) \cup {n}
    PROVE  Owned([ch EXCEPT ![l] = d], al \cup {n})
<1> DEFINE new == [ch EXCEPT ![l] = d]
<1>1. new[l] = d /\ \A a \in Owners : a # l => new[a] = ch[a]
    OBVIOUS
<1> HIDE DEF new
<1>2. al \cup {n} = UNION {Elements(new[a]) : a \in Owners}
    <2>1. ASSUME NEW x \in al \cup {n} PROVE \E a \in Owners : x \in Elements(new[a])
        BY <1>1 DEF Owned
    <2>2. ASSUME NEW a \in Owners, NEW x \in Elements(new[a]) PROVE x \in al \cup {n}
        BY <1>1, OwnedElements
    <2> QED BY <2>1, <2>2
<1>3. \A a \in Owners : IsInjective(new[a])
    BY <1>1 DEF Owned
<1>4. ASSUME NEW a \in Owners, NEW b \in Owners, a # b
      PROVE  Elements(new[a]) \cap Elements(new[b]) = {}
    <2>1. \A c \in Owners : n \notin Elements(ch[c])
        BY OwnedElements
    <2>2. Elements(ch[a]) \cap Elements(ch[b]) = {}
        BY <1>4 DEF Owned
    <2> QED BY <1>1, <1>4, <2>1, <2>2
<1> QED BY <1>2, <1>3, <1>4 DEF Owned, new

LEMMA OwnedRemove ==
    ASSUME NEW ch \in [Owners -> Seq(Nodes)], NEW al, Owned(ch, al), NEW l \in Owners,
           NEW gone \in SUBSET Elements(ch[l]), NEW d \in Seq(Nodes), IsInjective(d),
           Elements(d) = Elements(ch[l]) \ gone
    PROVE  Owned([ch EXCEPT ![l] = d], al \ gone)
<1> DEFINE new == [ch EXCEPT ![l] = d]
<1>1. new[l] = d /\ \A a \in Owners : a # l => new[a] = ch[a]
    OBVIOUS
<1> HIDE DEF new
<1>2. al \ gone = UNION {Elements(new[a]) : a \in Owners}
    <2>1. ASSUME NEW x \in al \ gone PROVE \E a \in Owners : x \in Elements(new[a])
        BY <1>1 DEF Owned
    <2>2. ASSUME NEW a \in Owners, NEW x \in Elements(new[a]) PROVE x \in al \ gone
        <3>1. CASE a = l
            BY <1>1, <3>1, OwnedElements
        <3>2. CASE a # l
            <4>1. Elements(ch[a]) \cap Elements(ch[l]) = {}
                BY <3>2 DEF Owned
            <4> QED BY <1>1, <3>2, <4>1, OwnedElements
        <3> QED BY <3>1, <3>2
    <2> QED BY <2>1, <2>2
<1>3. \A a \in Owners : IsInjective(new[a])
    BY <1>1 DEF Owned
<1>4. ASSUME NEW a \in Owners, NEW b \in Owners, a # b
      PROVE  Elements(new[a]) \cap Elements(new[b]) = {}
    <2>1. Elements(ch[a]) \cap Elements(ch[b]) = {}
        BY <1>4 DEF Owned
    <2> QED BY <1>1, <1>4, <2>1
<1> QED BY <1>2, <1>3, <1>4 DEF Owned, new

\* A new node in one list: the others keep their links.
LEMMA WellInsert ==
    ASSUME NEW nx, NEW vl, NEW h, NEW t, NEW s, NEW al, NEW ch, Well(nx, vl, h, t, s, al, ch),
           NEW l \in Owners, NEW n \in Nodes \ al, NEW v \in Values,
           NEW k \in 0..Len(ch[l]), NEW d \in Seq(Nodes), Inserted(ch[l], d, k, n),
           NEW ny \in [Owners \cup Nodes -> Nodes \cup {Null}], LinkedIn(l, ch[l], nx, ny, k, n),
           \A x \in (Owners \cup Nodes) \ ({l, n} \cup Elements(ch[l])) : ny[x] = nx[x]
    PROVE  Well(ny, [vl EXCEPT ![n] = v],
                [h EXCEPT ![l] = IF k = 0 THEN n ELSE h[l]],
                [t EXCEPT ![l] = IF k = Len(ch[l]) THEN n ELSE t[l]],
                [s EXCEPT ![l] = s[l] + 1], al \cup {n}, [ch EXCEPT ![l] = d])
<1> USE DEF Typed
<1> DEFINE vl2 == [vl EXCEPT ![n] = v]
           h2 == [h EXCEPT ![l] = IF k = 0 THEN n ELSE h[l]]
           t2 == [t EXCEPT ![l] = IF k = Len(ch[l]) THEN n ELSE t[l]]
           s2 == [s EXCEPT ![l] = s[l] + 1]
           ch2 == [ch EXCEPT ![l] = d]
<1>1. Owners \cap Nodes = {} /\ \A a \in Owners : ch[a] \in Seq(Nodes) /\ Elements(ch[a]) \subseteq Nodes
    BY ElementsType, ListAssumption DEF Well, Owners
<1>2. n \notin Elements(ch[l]) /\ IsInjective(ch[l])
    BY OwnedElements DEF Well, Owned
<1>3. IsInjective(d) /\ Elements(d) = Elements(ch[l]) \cup {n}
    BY <1>1, <1>2, InsertedElements
<1>4. Owned(ch2, al \cup {n})
    BY <1>3, OwnedInsert DEF Well
<1>5. ASSUME NEW a \in Owners PROVE Spells(a, ch2[a], ny, h2[a], t2[a], s2[a])
    <2>1. CASE a = l
        BY <1>1, <1>2, <2>1, InsertedSpells DEF Well
    <2>2. CASE a # l
        <3>1. Elements(ch[a]) \cap Elements(ch[l]) = {} /\ n \notin Elements(ch[a])
            BY <2>2, OwnedElements DEF Well, Owned
        <3>2. ny[a] = nx[a] /\ \A x \in Elements(ch[a]) : ny[x] = nx[x]
            BY <1>1, <2>2, <3>1
        <3>3. ch[a] \in Seq(Nodes) /\ Spells(a, ch[a], nx, h[a], t[a], s[a])
            BY <1>1 DEF Well
        <3>4. Spells(a, ch[a], ny, h[a], t[a], s[a])
            BY <3>2, <3>3, SpellsFrame
        <3> QED BY <2>2, <3>4 DEF Well
    <2> QED BY <2>1, <2>2
<1>6. \A m \in al \cup {n} : vl2[m] \in Values
    BY DEF Well
<1>7. \A m \in Nodes \ (al \cup {n}) : ny[m] = Null
    BY <1>1, OwnedElements DEF Well
<1>8. Typed(ny, vl2, h2, t2, s2, al \cup {n}, ch2)
    BY DEF Well
<1> QED BY <1>4, <1>5, <1>6, <1>7, <1>8 DEF Well

\* The links after node k of c, the chain of l, was taken out and deleted.
Unlinked(l, c, nx, ny, k) ==
    /\ ny \in [Owners \cup Nodes -> Nodes \cup {Null}]
    /\ LinkedOut(l, c, nx, ny, k)
    /\ ny[c[k]] = Null
    /\ \A x \in (Owners \cup Nodes) \ ({l} \cup Elements(c)) : ny[x] = nx[x]

\* The values after the nodes of gone were deleted.
Without(vl, gone) == [n \in Nodes |-> IF n \in gone THEN NoValue ELSE vl[n]]

\* The links after the nodes of gone were deleted.
Unlinking(links, gone) == [x \in Owners \cup Nodes |-> IF x \in gone THEN Null ELSE links[x]]

\* The ends of the chain c when node k leaves it.
Trimmed(c, nx, h, t, k, h1, t1) ==
    /\ h1 = IF k = 1 THEN nx[c[1]] ELSE h
    /\ t1 = IF k = Len(c) THEN IF k = 1 THEN Null ELSE c[k - 1] ELSE t

\* A node leaves one list.
LEMMA WellRemove ==
    ASSUME NEW nx, NEW vl, NEW h, NEW t, NEW s, NEW al, NEW ch, Well(nx, vl, h, t, s, al, ch),
           NEW l \in Owners, NEW k \in 1..Len(ch[l]),
           NEW d \in Seq(Nodes), Removed(ch[l], d, k), NEW ny, Unlinked(l, ch[l], nx, ny, k),
           NEW h1, NEW t1, Trimmed(ch[l], nx, h[l], t[l], k, h1, t1)
    PROVE  Well(ny, Without(vl, {ch[l][k]}), [h EXCEPT ![l] = h1], [t EXCEPT ![l] = t1],
                [s EXCEPT ![l] = s[l] - 1], al \ {ch[l][k]}, [ch EXCEPT ![l] = d])
<1> USE DEF Typed, Unlinked, Without, Trimmed
<1> DEFINE gone == ch[l][k]
           vl2 == Without(vl, {gone})
           h2 == [h EXCEPT ![l] = h1]
           t2 == [t EXCEPT ![l] = t1]
           s2 == [s EXCEPT ![l] = s[l] - 1]
           ch2 == [ch EXCEPT ![l] = d]
<1>1. Owners \cap Nodes = {} /\ \A a \in Owners : ch[a] \in Seq(Nodes) /\ Elements(ch[a]) \subseteq Nodes
    BY ElementsType, ListAssumption DEF Well, Owners
<1>0. Len(ch[l]) \in Nat
    BY <1>1, LenProperties
<1>2. IsInjective(ch[l]) /\ gone \in Elements(ch[l])
    BY <1>1, ElementsType DEF Well, Owned
<1>3. IsInjective(d) /\ Elements(d) = Elements(ch[l]) \ {gone}
    BY <1>1, <1>2, RemovedElements
<1>4. Owned(ch2, al \ {gone})
    BY <1>2, <1>3, OwnedRemove DEF Well
<1>5. ASSUME NEW a \in Owners PROVE Spells(a, ch2[a], ny, h2[a], t2[a], s2[a])
    <2>1. CASE a = l
        BY <1>1, <1>2, <2>1, RemovedSpells DEF Well
    <2>2. CASE a # l
        <3>1. Elements(ch[a]) \cap Elements(ch[l]) = {}
            BY <2>2 DEF Well, Owned
        <3>2. ny[a] = nx[a] /\ \A x \in Elements(ch[a]) : ny[x] = nx[x]
            BY <1>1, <2>2, <3>1
        <3>3. ch[a] \in Seq(Nodes) /\ Spells(a, ch[a], nx, h[a], t[a], s[a])
            BY <1>1 DEF Well
        <3>4. Spells(a, ch[a], ny, h[a], t[a], s[a])
            BY <3>2, <3>3, SpellsFrame
        <3> QED BY <2>2, <3>4 DEF Well
    <2> QED BY <2>1, <2>2
<1>6. \A m \in al \ {gone} : vl2[m] \in Values
    BY DEF Well
<1>7. \A m \in Nodes \ (al \ {gone}) : ny[m] = Null
    BY <1>1, OwnedElements DEF Well
<1>8. Typed(ny, vl2, h2, t2, s2, al \ {gone}, ch2)
    <2>1. s2 \in [Owners -> Nat]
        <3>1. s[l] = Len(ch[l]) /\ Len(ch[l]) \in Nat
            BY <1>1, LenProperties DEF Well, Spells
        <3>2. s[l] - 1 \in Nat
            <4>1. Len(ch[l]) - 1 \in Nat
                BY <1>0
            <4> QED BY <3>1, <4>1
        <3> QED BY <3>2 DEF Well
    <2>2. t2 \in [Owners -> Nodes \cup {Null}]
        <3>1. k # 1 => ch[l][k - 1] \in Nodes
            <4>1. k # 1 => k - 1 \in 1..Len(ch[l])
                BY <1>0
            <4> QED BY <1>1, <4>1, ElementOfSeq
        <3> QED BY <3>1 DEF Well
    <2>3. h2 \in [Owners -> Nodes \cup {Null}]
        <3>1. ch[l][1] \in Nodes
            BY <1>1, LenProperties, ElementOfSeq
        <3> QED BY <3>1 DEF Well
    <2> QED BY <2>1, <2>2, <2>3 DEF Well
<1> QED BY <1>4, <1>5, <1>6, <1>7, <1>8 DEF Well

\* The links after the nodes of c, all those of list l, were given back.
LinkedNone(l, c, nx, ny) ==
    /\ ny \in [Owners \cup Nodes -> Nodes \cup {Null}]
    /\ ny[l] = Null
    /\ \A x \in Elements(c) : ny[x] = Null
    /\ \A x \in (Owners \cup Nodes) \ ({l} \cup Elements(c)) : ny[x] = nx[x]

\* A list gives its nodes back.
LEMMA WellClear ==
    ASSUME NEW nx, NEW vl, NEW h, NEW t, NEW s, NEW al, NEW ch, Well(nx, vl, h, t, s, al, ch),
           NEW l \in Owners, NEW ny, LinkedNone(l, ch[l], nx, ny)
    PROVE  Well(ny, Without(vl, Elements(ch[l])),
                [h EXCEPT ![l] = Null], [t EXCEPT ![l] = Null], [s EXCEPT ![l] = 0],
                al \ Elements(ch[l]), [ch EXCEPT ![l] = <<>>])
<1> USE DEF Typed, LinkedNone, Without
<1> DEFINE vl2 == Without(vl, Elements(ch[l]))
           h2 == [h EXCEPT ![l] = Null]
           t2 == [t EXCEPT ![l] = Null]
           s2 == [s EXCEPT ![l] = 0]
           ch2 == [ch EXCEPT ![l] = <<>>]
           gone == Elements(ch[l])
<1>1. Owners \cap Nodes = {} /\ \A a \in Owners : ch[a] \in Seq(Nodes) /\ Elements(ch[a]) \subseteq Nodes
    BY ElementsType, ListAssumption DEF Well, Owners
<1>2. <<>> \in Seq(Nodes) /\ Len(<<>>) = 0 /\ Elements(<<>>) = {} /\ IsInjective(<<>>)
    BY EmptySeq DEF Elements, IsInjective
<1>3. Owned(ch2, al \ gone)
    BY <1>2, OwnedRemove DEF Well
<1>4. ASSUME NEW a \in Owners PROVE Spells(a, ch2[a], ny, h2[a], t2[a], s2[a])
    <2>1. CASE a = l
        <3>1. ch2[a] = <<>> /\ h2[a] = Null /\ t2[a] = Null /\ s2[a] = 0 /\ ny[a] = Null
            BY <2>1 DEF Well
        <3> QED BY <1>2, <3>1 DEF Spells
    <2>2. CASE a # l
        <3>1. Elements(ch[a]) \cap Elements(ch[l]) = {}
            BY <2>2 DEF Well, Owned
        <3>2. ny[a] = nx[a] /\ \A x \in Elements(ch[a]) : ny[x] = nx[x]
            BY <1>1, <2>2, <3>1
        <3>3. ch[a] \in Seq(Nodes) /\ Spells(a, ch[a], nx, h[a], t[a], s[a])
            BY <1>1 DEF Well
        <3>4. Spells(a, ch[a], ny, h[a], t[a], s[a])
            BY <3>2, <3>3, SpellsFrame
        <3> QED BY <2>2, <3>4 DEF Well
    <2> QED BY <2>1, <2>2
<1>5. \A m \in al \ gone : vl2[m] \in Values
    BY DEF Well
<1>6. \A m \in Nodes \ (al \ gone) : ny[m] = Null
    BY <1>1, OwnedElements DEF Well
<1>7. Typed(ny, vl2, h2, t2, s2, al \ gone, ch2)
    BY <1>2 DEF Well
<1> QED BY <1>3, <1>4, <1>5, <1>6, <1>7 DEF Well

\* f with the values of a and b exchanged.
Exchanged(f, a, b) == [f EXCEPT ![a] = f[b], ![b] = f[a]]

\* Two lists change places.
LEMMA WellSwap ==
    ASSUME NEW nx, NEW vl, NEW h, NEW t, NEW s, NEW al, NEW ch, Well(nx, vl, h, t, s, al, ch),
           NEW a \in Owners, NEW b \in Owners
    PROVE  Well([nx EXCEPT ![a] = h[b], ![b] = h[a]], vl, Exchanged(h, a, b), Exchanged(t, a, b),
                Exchanged(s, a, b), al, Exchanged(ch, a, b))
<1> USE DEF Typed
<1> DEFINE ny == [nx EXCEPT ![a] = h[b], ![b] = h[a]]
           h2 == Exchanged(h, a, b)
           t2 == Exchanged(t, a, b)
           s2 == Exchanged(s, a, b)
           ch2 == Exchanged(ch, a, b)
           other(l) == IF l = a THEN b ELSE IF l = b THEN a ELSE l
<1>1. Owners \cap Nodes = {} /\ \A l \in Owners : ch[l] \in Seq(Nodes) /\ Elements(ch[l]) \subseteq Nodes
    BY ElementsType, ListAssumption DEF Well, Owners
<1>2. \A l \in Owners : /\ other(l) \in Owners
                        /\ h2[l] = h[other(l)] /\ t2[l] = t[other(l)] /\ s2[l] = s[other(l)]
                        /\ ch2[l] = ch[other(l)] /\ ny[l] = h[other(l)]
    BY DEF Well, Exchanged, Spells
<1>3. \A l, m \in Owners : l # m => other(l) # other(m)
    OBVIOUS
<1>4. \A l \in Owners : other(other(l)) = l
    OBVIOUS
<1>5. Typed(ny, vl, h2, t2, s2, al, ch2)
    BY DEF Well, Exchanged
<1>6. \A x \in Nodes : ny[x] = nx[x]
    BY <1>1 DEF Well
<1> HIDE DEF other, ny, h2, t2, s2, ch2
<1>7. Owned(ch2, al)
    <2>1. al = UNION {Elements(ch2[l]) : l \in Owners}
        BY <1>2, <1>4 DEF Well, Owned
    <2> QED BY <1>2, <1>3, <2>1 DEF Well, Owned
<1>8. ASSUME NEW l \in Owners PROVE Spells(l, ch2[l], ny, h2[l], t2[l], s2[l])
    <2> DEFINE m == other(l)
    <2>1. m \in Owners /\ ch[m] \in Seq(Nodes) /\ Spells(m, ch[m], nx, h[m], t[m], s[m])
        BY <1>1, <1>2 DEF Well
    <2>2. Len(ch[m]) \in Nat /\ (ch[m] # <<>> => Len(ch[m]) # 0) /\ \A i \in 1..Len(ch[m]) : ch[m][i] \in Nodes
        BY <2>1, LenProperties, ElementOfSeq, EmptySeq
    <2>3. \A i \in 1..Len(ch[m]) : ny[ch[m][i]] = nx[ch[m][i]]
        BY <1>6, <2>2
    <2>4. ch2[l] = ch[m] /\ h2[l] = h[m] /\ t2[l] = t[m] /\ s2[l] = s[m] /\ ny[l] = h[m]
        BY <1>2
    <2> HIDE DEF m
    <2>5. Spells(l, ch[m], ny, h[m], t[m], s[m])
        BY <2>1, <2>2, <2>3, <2>4 DEF Spells
    <2> QED BY <2>4, <2>5
<1>9. \A n \in Nodes \ al : ny[n] = Null
    BY <1>6 DEF Well
<1>10. Well(ny, vl, h2, t2, s2, al, ch2)
    BY <1>5, <1>7, <1>8, <1>9 DEF Well
<1> QED BY <1>10 DEF ny, h2, t2, s2, ch2

\* One list takes over the nodes of another and gives its own back.
LEMMA WellTakeOver ==
    ASSUME NEW nx, NEW vl, NEW h, NEW t, NEW s, NEW al, NEW ch, Well(nx, vl, h, t, s, al, ch),
           NEW a \in Owners, NEW b \in Owners, a # b
    PROVE  Well(Unlinking([nx EXCEPT ![a] = h[b], ![b] = Null], Elements(ch[a])),
                Without(vl, Elements(ch[a])),
                [h EXCEPT ![a] = h[b], ![b] = Null], [t EXCEPT ![a] = t[b], ![b] = Null],
                [s EXCEPT ![a] = s[b], ![b] = 0], al \ Elements(ch[a]),
                [ch EXCEPT ![a] = ch[b], ![b] = <<>>])
<1> USE DEF Typed
<1> DEFINE vl2 == Without(vl, Elements(ch[a]))
           h2 == [h EXCEPT ![a] = Null]
           t2 == [t EXCEPT ![a] = Null]
           s2 == [s EXCEPT ![a] = 0]
           ch2 == [ch EXCEPT ![a] = <<>>]
           nx2 == Unlinking([nx EXCEPT ![a] = Null], Elements(ch[a]))
<1>1. Owners \cap Nodes = {} /\ Elements(ch[a]) \subseteq Nodes
    BY ElementsType, ListAssumption DEF Well, Owners
<1>2. LinkedNone(a, ch[a], nx, nx2)
    BY <1>1 DEF Well, LinkedNone, Unlinking
<1> HIDE DEF nx2
<1>3. Well(nx2, vl2, h2, t2, s2, al \ Elements(ch[a]), ch2)
    BY <1>2, WellClear
<1>4. Well([nx2 EXCEPT ![a] = h2[b], ![b] = h2[a]], vl2, Exchanged(h2, a, b), Exchanged(t2, a, b),
           Exchanged(s2, a, b), al \ Elements(ch[a]), Exchanged(ch2, a, b))
    BY <1>3, WellSwap
<1>5. /\ Exchanged(h2, a, b) = [h EXCEPT ![a] = h[b], ![b] = Null]
      /\ Exchanged(t2, a, b) = [t EXCEPT ![a] = t[b], ![b] = Null]
    BY DEF Exchanged, Well
<1>6. Exchanged(s2, a, b) = [s EXCEPT ![a] = s[b], ![b] = 0]
    BY DEF Exchanged, Well
<1>7. Exchanged(ch2, a, b) = [ch EXCEPT ![a] = ch[b], ![b] = <<>>]
    BY DEF Exchanged, Well
<1>8. [nx2 EXCEPT ![a] = h2[b], ![b] = h2[a]]
        = Unlinking([nx EXCEPT ![a] = h[b], ![b] = Null], Elements(ch[a]))
    <2>1. h2[b] = h[b] /\ h2[a] = Null /\ a \notin Elements(ch[a]) /\ b \notin Elements(ch[a])
        BY <1>1 DEF Well
    <2> QED BY <2>1 DEF Well, nx2, Unlinking
<1> QED BY <1>4, <1>5, <1>6, <1>7, <1>8

-----------------------------------------------------------------------------
(***************************************************************************)
(* What the steps do to the heap.                                          *)
(***************************************************************************)

\* A second element follows the first of a longer sequence.
LEMMA Following ==
    ASSUME NEW n, n \in Nat, 1 \in 1..n
    PROVE  1 # n => 1 + 1 \in 1..n
OBVIOUS

\* The fields of a list, as its chain determines them.
LEMMA Fields ==
    ASSUME Heap, NEW l \in Owners
    PROVE  LET c == chain[l] IN
           /\ c \in Seq(Nodes) /\ Len(c) \in Nat /\ (c = <<>> <=> Len(c) = 0)
           /\ head[l] = IF Len(c) = 0 THEN Null ELSE c[1]
           /\ tail[l] = IF Len(c) = 0 THEN Null ELSE c[Len(c)]
           /\ size[l] = Len(c) /\ next[l] = head[l]
           /\ \A i \in 1..Len(c) : /\ c[i] \in Nodes /\ c[i] \in alloc
                                   /\ next[c[i]] = IF i = Len(c) THEN Null ELSE c[i + 1]
           /\ \A i, j \in 1..Len(c) : c[i] = c[j] => i = j
           /\ l \notin Nodes /\ Null \notin Nodes
<1> DEFINE c == chain[l]
<1>1. c \in Seq(Nodes) /\ IsInjective(c) /\ Spells(l, c, next, head[l], tail[l], size[l])
    BY DEF Heap, Well, Typed, Owned
<1>2. Elements(c) \subseteq alloc
    BY OwnedElements DEF Heap, Well
<1>3. l \notin Nodes /\ Null \notin Nodes
    BY ListAssumption DEF Owners
<1> HIDE DEF c
<1>4. Len(c) \in Nat
    BY <1>1, LenProperties
<1>5. (c = <<>> <=> Len(c) = 0) /\ DOMAIN c = 1..Len(c)
    BY <1>1, LenProperties, EmptySeq
<1>6. \A i \in 1..Len(c) : c[i] \in Nodes /\ c[i] \in alloc
    BY <1>1, <1>2, ElementOfSeq, ElementsType
<1>7. \A i, j \in 1..Len(c) : c[i] = c[j] => i = j
    BY <1>1, <1>5 DEF IsInjective
<1>8. /\ head[l] = IF Len(c) = 0 THEN Null ELSE c[1]
      /\ tail[l] = IF Len(c) = 0 THEN Null ELSE c[Len(c)]
      /\ size[l] = Len(c) /\ next[l] = head[l]
    BY <1>1, <1>5 DEF Spells
<1>9. ASSUME NEW i \in 1..Len(c) PROVE next[c[i]] = IF i = Len(c) THEN Null ELSE c[i + 1]
    <2>1. CASE i = Len(c)
        <3>1. Len(c) # 0
            BY <1>4, <2>1
        <3> QED BY <1>1, <1>5, <2>1, <3>1 DEF Spells
    <2>2. CASE i # Len(c)
        <3>1. i \in 1..(Len(c) - 1)
            BY <1>4, <2>2
        <3> QED BY <1>1, <2>2, <3>1 DEF Spells
    <2> QED BY <2>1, <2>2
<1> QED BY <1>1, <1>3, <1>4, <1>5, <1>6, <1>7, <1>8, <1>9 DEF c

\* Where a position is in the chain.
LEMMA Place ==
    ASSUME Heap, NEW l \in Owners, NEW p \in Positions(l)
    PROVE  LET c == chain[l]
               k == IndexOf(l, p) IN
           /\ k \in 0..Len(c)
           /\ p = l <=> k = 0
           /\ k # 0 => p = c[k]
           /\ next[p] = IF k = Len(c) THEN Null ELSE c[k + 1]
           /\ p \in Owners \cup Nodes
<1> DEFINE c == chain[l]
           k == IndexOf(l, p)
<1>1. /\ c \in Seq(Nodes) /\ Len(c) \in Nat /\ l \notin Nodes /\ next[l] = head[l]
      /\ head[l] = IF Len(c) = 0 THEN Null ELSE c[1]
      /\ \A i \in 1..Len(c) : c[i] \in Nodes /\ next[c[i]] = IF i = Len(c) THEN Null ELSE c[i + 1]
    BY Fields
<1>2. CASE p = l
    <2>1. k = 0
        BY <1>2 DEF IndexOf
    <2> HIDE DEF k, c
    <2> QED BY <1>1, <1>2, <2>1 DEF k, c
<1>3. CASE p # l
    <2>1. DOMAIN c = 1..Len(c)
        BY <1>1, LenProperties
    <2>2. k = CHOOSE i \in DOMAIN c : c[i] = p
        BY <1>3 DEF IndexOf
    <2>3. \E i \in DOMAIN c : c[i] = p
        BY <1>3 DEF Positions, NodesOf
    <2>4. k \in 1..Len(c) /\ c[k] = p
        BY <2>1, <2>2, <2>3
    <2> HIDE DEF k, c
    <2> QED BY <1>1, <1>3, <2>4 DEF k, c
<1> QED BY <1>2, <1>3

\* The step puts node n with value v behind the first k nodes of l.
PutIn(l, n, v, k) ==
    \E d \in Seq(Nodes) :
        /\ n \in Nodes \ alloc /\ k \in 0..Len(chain[l])
        /\ Inserted(chain[l], d, k, n)
        /\ chain' = [chain EXCEPT ![l] = d]
        /\ value' = [value EXCEPT ![n] = v]
        /\ Heap'

LEMMA PutsIn ==
    ASSUME Heap, NEW l \in Owners, NEW n \in Nodes, n \notin alloc, NEW v \in Values,
           NEW k \in 0..Len(chain[l]), NEW d \in Seq(Nodes), Inserted(chain[l], d, k, n),
           next' \in [Owners \cup Nodes -> Nodes \cup {Null}],
           LinkedIn(l, chain[l], next, next', k, n),
           \A x \in (Owners \cup Nodes) \ ({l, n} \cup Elements(chain[l])) : next'[x] = next[x],
           value' = [value EXCEPT ![n] = v], alloc' = alloc \cup {n},
           head' = [head EXCEPT ![l] = IF k = 0 THEN n ELSE head[l]],
           tail' = [tail EXCEPT ![l] = IF k = Len(chain[l]) THEN n ELSE tail[l]],
           size' = [size EXCEPT ![l] = size[l] + 1], chain' = [chain EXCEPT ![l] = d]
    PROVE  PutIn(l, n, v, k)
<1> DEFINE ny == next'
<1>1. ny \in [Owners \cup Nodes -> Nodes \cup {Null}] /\ LinkedIn(l, chain[l], next, ny, k, n)
    OBVIOUS
<1>2. \A x \in (Owners \cup Nodes) \ ({l, n} \cup Elements(chain[l])) : ny[x] = next[x]
    OBVIOUS
<1>3. Well(next, value, head, tail, size, alloc, chain) /\ n \in Nodes \ alloc
    BY DEF Heap
<1> HIDE DEF ny
<1>4. Well(ny, [value EXCEPT ![n] = v],
           [head EXCEPT ![l] = IF k = 0 THEN n ELSE head[l]],
           [tail EXCEPT ![l] = IF k = Len(chain[l]) THEN n ELSE tail[l]],
           [size EXCEPT ![l] = size[l] + 1], alloc \cup {n}, [chain EXCEPT ![l] = d])
    BY <1>1, <1>2, <1>3, WellInsert
<1> QED BY <1>4 DEF PutIn, Heap, ny

\* emplace_back.
LEMMA EmplaceBackHeap ==
    ASSUME Heap, NEW l \in Owners, NEW n \in Nodes, NEW v \in Values, EmplaceBack(l, n, v)
    PROVE  PutIn(l, n, v, Len(chain[l]))
<1> DEFINE c == chain[l]
<1>1. /\ c \in Seq(Nodes) /\ Len(c) \in Nat /\ l \notin Nodes /\ Null \notin Nodes
      /\ head[l] = IF Len(c) = 0 THEN Null ELSE c[1]
      /\ tail[l] = IF Len(c) = 0 THEN Null ELSE c[Len(c)]
      /\ next[l] = head[l]
      /\ \A i \in 1..Len(c) : c[i] \in Nodes /\ c[i] \in alloc
      /\ \A i, j \in 1..Len(c) : c[i] = c[j] => i = j
    BY Fields
<1>2. /\ next \in [Owners \cup Nodes -> Nodes \cup {Null}] /\ head \in [Owners -> Nodes \cup {Null}]
      /\ n \notin alloc /\ next[n] = Null
      /\ value' = [value EXCEPT ![n] = v] /\ alloc' = alloc \cup {n}
      /\ tail' = [tail EXCEPT ![l] = n] /\ size' = [size EXCEPT ![l] = size[l] + 1]
      /\ chain' = [chain EXCEPT ![l] = Append(c, n)]
    BY DEF Heap, Well, Typed, EmplaceBack, NewNode
<1>3. Append(c, n) \in Seq(Nodes) /\ Inserted(c, Append(c, n), Len(c), n)
    BY <1>1, AppendInserts
<1>4. Elements(c) \subseteq Nodes \ {n}
    BY <1>1, <1>2, ElementsType, OwnedElements DEF Heap, Well
<1>5. CASE head[l] = Null
    <2>1. Len(c) = 0
        <3>1. Len(c) # 0 => c[1] \in Nodes
            BY <1>1
        <3> QED BY <1>1, <1>5, <3>1
    <2>2. next' = [next EXCEPT ![l] = n] /\ head' = [head EXCEPT ![l] = n]
        BY <1>5 DEF EmplaceBack, NewNode
    <2>3. Elements(c) = {}
        BY <1>1, <2>1, ElementsType, EmptySeq
    <2>4. LinkedIn(l, c, next, next', Len(c), n)
        BY <1>1, <1>2, <2>1, <2>2, <2>3 DEF LinkedIn
    <2>5. next' \in [Owners \cup Nodes -> Nodes \cup {Null}]
          /\ \A x \in (Owners \cup Nodes) \ ({l, n} \cup Elements(c)) : next'[x] = next[x]
        BY <1>2, <2>2
    <2>6. head' = [head EXCEPT ![l] = IF Len(c) = 0 THEN n ELSE head[l]]
          /\ tail' = [tail EXCEPT ![l] = IF Len(c) = Len(chain[l]) THEN n ELSE tail[l]]
        BY <1>2, <2>1, <2>2
    <2>7. Len(c) \in 0..Len(chain[l])
        BY <1>1
    <2> QED BY <1>2, <1>3, <2>4, <2>5, <2>6, <2>7, PutsIn
<1>6. CASE head[l] # Null
    <2>1. Len(c) # 0 /\ Len(c) \in 1..Len(c)
        BY <1>1, <1>6
    <2>2. next' = [next EXCEPT ![c[Len(c)]] = n] /\ head' = head
        BY <1>1, <1>6, <2>1 DEF EmplaceBack, NewNode
    <2>3. c[Len(c)] \in Elements(c) /\ c[Len(c)] \in Nodes /\ c[Len(c)] # l
        BY <1>1, <2>1, ElementsType
    <2>4. LinkedIn(l, c, next, next', Len(c), n)
        BY <1>2, <1>4, <2>1, <2>2, <2>3 DEF LinkedIn
    <2>5. next' \in [Owners \cup Nodes -> Nodes \cup {Null}]
          /\ \A x \in (Owners \cup Nodes) \ ({l, n} \cup Elements(c)) : next'[x] = next[x]
        BY <1>2, <2>2, <2>3
    <2>6. head' = [head EXCEPT ![l] = IF Len(c) = 0 THEN n ELSE head[l]]
          /\ tail' = [tail EXCEPT ![l] = IF Len(c) = Len(chain[l]) THEN n ELSE tail[l]]
        BY <1>2, <2>1, <2>2
    <2>7. Len(c) \in 0..Len(chain[l])
        BY <1>1
    <2> QED BY <1>2, <1>3, <2>4, <2>5, <2>6, <2>7, PutsIn
<1> QED BY <1>5, <1>6

\* emplace_front.
LEMMA EmplaceFrontHeap ==
    ASSUME Heap, NEW l \in Owners, NEW n \in Nodes, NEW v \in Values, EmplaceFront(l, n, v)
    PROVE  PutIn(l, n, v, 0)
<1> DEFINE c == chain[l]
<1>1. /\ c \in Seq(Nodes) /\ Len(c) \in Nat /\ l \notin Nodes /\ Null \notin Nodes
      /\ head[l] = IF Len(c) = 0 THEN Null ELSE c[1]
      /\ \A i \in 1..Len(c) : c[i] \in Nodes
    BY Fields
<1>2. /\ next \in [Owners \cup Nodes -> Nodes \cup {Null}] /\ head \in [Owners -> Nodes \cup {Null}]
      /\ tail \in [Owners -> Nodes \cup {Null}]
      /\ n \notin alloc /\ next' = [next EXCEPT ![n] = head[l], ![l] = n]
      /\ value' = [value EXCEPT ![n] = v] /\ alloc' = alloc \cup {n}
      /\ head' = [head EXCEPT ![l] = n] /\ size' = [size EXCEPT ![l] = size[l] + 1]
      /\ tail' = (IF head[l] = Null THEN [tail EXCEPT ![l] = n] ELSE tail)
      /\ chain' = [chain EXCEPT ![l] = <<n>> \o c]
    BY DEF Heap, Well, Typed, EmplaceFront, NewNode
<1>3. <<n>> \o c \in Seq(Nodes) /\ Inserted(c, <<n>> \o c, 0, n)
    BY <1>1, PrependInserts
<1>4. Elements(c) \subseteq Nodes \ {n}
    BY <1>1, <1>2, ElementsType, OwnedElements DEF Heap, Well
<1>5. head[l] = Null <=> Len(c) = 0
    <2>1. Len(c) # 0 => 1 \in 1..Len(c)
        BY <1>1
    <2> QED BY <1>1, <2>1
<1>6. LinkedIn(l, c, next, next', 0, n)
    BY <1>1, <1>2, <1>4, <1>5 DEF LinkedIn
<1>7. next' \in [Owners \cup Nodes -> Nodes \cup {Null}]
      /\ \A x \in (Owners \cup Nodes) \ ({l, n} \cup Elements(c)) : next'[x] = next[x]
    BY <1>2
<1>8. head' = [head EXCEPT ![l] = IF 0 = 0 THEN n ELSE head[l]]
    BY <1>2
<1>9. tail' = [tail EXCEPT ![l] = IF 0 = Len(c) THEN n ELSE tail[l]]
    BY <1>2, <1>5
<1>10. 0 \in 0..Len(c)
    BY <1>1
<1> QED BY <1>2, <1>3, <1>6, <1>7, <1>8, <1>9, <1>10, PutsIn

\* emplace_after.
LEMMA EmplaceAfterHeap ==
    ASSUME Heap, NEW l \in Owners, NEW p, NEW n \in Nodes, NEW v \in Values, EmplaceAfter(l, p, n, v)
    PROVE  PutIn(l, n, v, IndexOf(l, p))
<1> DEFINE c == chain[l]
           k == IndexOf(l, p)
           front == IF p = l THEN n ELSE head[l]
<1>1. /\ c \in Seq(Nodes) /\ Len(c) \in Nat /\ l \notin Nodes /\ Null \notin Nodes
      /\ tail[l] = IF Len(c) = 0 THEN Null ELSE c[Len(c)]
      /\ next[l] = head[l]
      /\ \A i \in 1..Len(c) : c[i] \in Nodes
      /\ \A i, j \in 1..Len(c) : c[i] = c[j] => i = j
    BY Fields
<1>2. /\ next \in [Owners \cup Nodes -> Nodes \cup {Null}] /\ head \in [Owners -> Nodes \cup {Null}]
      /\ tail \in [Owners -> Nodes \cup {Null}]
      /\ n \notin alloc /\ next' = [next EXCEPT ![n] = next[p], ![p] = n, ![l] = front]
      /\ value' = [value EXCEPT ![n] = v] /\ alloc' = alloc \cup {n}
      /\ head' = [head EXCEPT ![l] = front] /\ size' = [size EXCEPT ![l] = size[l] + 1]
      /\ tail' = (IF tail[l] \in {p, Null} THEN [tail EXCEPT ![l] = n] ELSE tail)
      /\ chain' = [chain EXCEPT ![l] = InsertAt(c, k + 1, n)]
    BY DEF Heap, Well, Typed, EmplaceAfter, NewNode
<1>3. /\ k \in 0..Len(c) /\ (p = l <=> k = 0) /\ (k # 0 => p = c[k])
      /\ next[p] = (IF k = Len(c) THEN Null ELSE c[k + 1])
      /\ p \in Owners \cup Nodes
    BY Place DEF EmplaceAfter
<1>4. Elements(c) \subseteq Nodes \ {n}
    BY <1>1, <1>2, ElementsType, OwnedElements DEF Heap, Well
<1> HIDE DEF k
<1>5. InsertAt(c, k + 1, n) \in Seq(Nodes) /\ Inserted(c, InsertAt(c, k + 1, n), k, n)
    BY <1>1, <1>3, InsertAtInserts
<1>6. k # 0 => p \in Elements(c) /\ p \in Nodes \ {n} /\ p # l
    <2>1. k # 0 => k \in 1..Len(c)
        BY <1>1, <1>3
    <2> QED BY <1>1, <1>3, <1>4, <2>1, ElementsType
<1>7. LinkedIn(l, c, next, next', k, n)
    <2>1. n # l
        BY <1>1
    <2>2. next'[n] = next[p]
        BY <1>2, <1>3, <1>6, <2>1
    <2>3. next'[l] = front /\ (k # 0 => next'[p] = n)
        BY <1>1, <1>2, <1>3, <1>6
    <2>4. \A x \in Elements(c) : (k = 0 \/ x # c[k]) => next'[x] = next[x]
        BY <1>1, <1>2, <1>3, <1>4
    <2> QED BY <1>1, <1>3, <2>2, <2>3, <2>4 DEF LinkedIn
<1>8. next' \in [Owners \cup Nodes -> Nodes \cup {Null}]
      /\ \A x \in (Owners \cup Nodes) \ ({l, n} \cup Elements(c)) : next'[x] = next[x]
    BY <1>2, <1>3, <1>6
<1>9. head' = [head EXCEPT ![l] = IF k = 0 THEN n ELSE head[l]]
    BY <1>2, <1>3
<1>10. tail[l] \in {p, Null} <=> k = Len(c)
    <2>1. CASE Len(c) = 0
        BY <1>1, <1>3, <2>1
    <2>2. CASE Len(c) # 0
        <3>1. Len(c) \in 1..Len(c) /\ (k # 0 => k \in 1..Len(c))
            BY <1>1, <1>3, <2>2
        <3> QED BY <1>1, <1>3, <1>6, <2>2, <3>1
    <2> QED BY <2>1, <2>2
<1>11. tail' = [tail EXCEPT ![l] = IF k = Len(c) THEN n ELSE tail[l]]
    BY <1>2, <1>10
<1>12. PutIn(l, n, v, k)
    BY <1>2, <1>3, <1>5, <1>7, <1>8, <1>9, <1>11, PutsIn
<1> QED BY <1>12 DEF k

\* The step takes node k out of l.
TakenOut(l, k) ==
    \E d \in Seq(Nodes) :
        /\ k \in 1..Len(chain[l])
        /\ Removed(chain[l], d, k)
        /\ chain' = [chain EXCEPT ![l] = d]
        /\ value' = Without(value, {chain[l][k]})
        /\ Heap'

LEMMA TakesOut ==
    ASSUME Heap, NEW l \in Owners, NEW k \in 1..Len(chain[l]),
           NEW d \in Seq(Nodes), Removed(chain[l], d, k),
           NEW links \in [Owners \cup Nodes -> Nodes \cup {Null}],
           LinkedOut(l, chain[l], next, links, k),
           \A x \in (Owners \cup Nodes) \ ({l} \cup Elements(chain[l])) : links[x] = next[x],
           Delete({chain[l][k]}, links),
           NEW h1, h1 = IF k = 1 THEN next[chain[l][1]] ELSE head[l],
           NEW t1, t1 = IF k = Len(chain[l]) THEN IF k = 1 THEN Null ELSE chain[l][k - 1] ELSE tail[l],
           head' = [head EXCEPT ![l] = h1], tail' = [tail EXCEPT ![l] = t1],
           size' = [size EXCEPT ![l] = size[l] - 1], chain' = [chain EXCEPT ![l] = d]
    PROVE  TakenOut(l, k)
<1> DEFINE c == chain[l]
           gone == c[k]
           ny == [x \in Owners \cup Nodes |-> IF x \in {gone} THEN Null ELSE links[x]]
<1>1. /\ c \in Seq(Nodes) /\ Len(c) \in Nat /\ l \notin Nodes
      /\ \A i \in 1..Len(c) : c[i] \in Nodes
      /\ \A i, j \in 1..Len(c) : c[i] = c[j] => i = j
    BY Fields
<1>2. gone \in Nodes /\ gone # l /\ gone \in Elements(c) /\ Elements(c) \subseteq Nodes
    BY <1>1, ElementsType
<1>3. ny \in [Owners \cup Nodes -> Nodes \cup {Null}] /\ ny[gone] = Null
      /\ \A x \in (Owners \cup Nodes) \ {gone} : ny[x] = links[x]
    BY <1>2
<1>4. next' = ny /\ alloc' = alloc \ {gone} /\ value' = Without(value, {gone})
    BY DEF Delete, Without
<1> HIDE DEF ny
<1>5. LinkedOut(l, c, next, ny, k)
    <2>1. k # 1 => c[k - 1] \in Nodes /\ c[k - 1] # gone
        <3>1. k # 1 => k - 1 \in 1..Len(c) /\ k - 1 # k
            BY <1>1
        <3> QED BY <1>1, <3>1
    <2> QED BY <1>2, <1>3, <2>1 DEF LinkedOut
<1>6. \A x \in (Owners \cup Nodes) \ ({l} \cup Elements(c)) : ny[x] = next[x]
    BY <1>2, <1>3
<1>7. Well(next, value, head, tail, size, alloc, chain)
    BY DEF Heap
<1>8. Unlinked(l, chain[l], next, ny, k)
    BY <1>3, <1>5, <1>6 DEF Unlinked
<1>9. Trimmed(chain[l], next, head[l], tail[l], k, h1, t1)
    BY DEF Trimmed
<1>10. Well(ny, Without(value, {chain[l][k]}), [head EXCEPT ![l] = h1], [tail EXCEPT ![l] = t1],
            [size EXCEPT ![l] = size[l] - 1], alloc \ {chain[l][k]}, [chain EXCEPT ![l] = d])
    BY <1>7, <1>8, <1>9, WellRemove, ZenonT(60)
<1> QED BY <1>4, <1>10 DEF TakenOut, Heap

\* erase_after(pos).
LEMMA EraseAfterHeap ==
    ASSUME Heap, NEW l \in Owners, NEW p, EraseAfter(l, p)
    PROVE  IndexOf(l, p) < Len(chain[l]) /\ TakenOut(l, IndexOf(l, p) + 1)
<1> DEFINE c == chain[l]
           j == IndexOf(l, p)
           k == j + 1
           gone == next[p]
           front == IF gone = head[l] THEN next[gone] ELSE head[l]
           links == [next EXCEPT ![p] = next[gone], ![l] = front]
           d == RemoveAt(c, k)
           h1 == front
           t1 == IF gone = tail[l] THEN IF p = l THEN Null ELSE p ELSE tail[l]
<1>1. /\ c \in Seq(Nodes) /\ Len(c) \in Nat /\ l \notin Nodes /\ Null \notin Nodes
      /\ head[l] = IF Len(c) = 0 THEN Null ELSE c[1]
      /\ tail[l] = IF Len(c) = 0 THEN Null ELSE c[Len(c)]
      /\ next[l] = head[l]
      /\ \A i \in 1..Len(c) : c[i] \in Nodes /\ next[c[i]] = IF i = Len(c) THEN Null ELSE c[i + 1]
      /\ \A i, m \in 1..Len(c) : c[i] = c[m] => i = m
    BY Fields
<1>2. /\ next \in [Owners \cup Nodes -> Nodes \cup {Null}] /\ head \in [Owners -> Nodes \cup {Null}]
      /\ tail \in [Owners -> Nodes \cup {Null}]
      /\ gone # Null /\ Delete({gone}, links)
      /\ head' = [head EXCEPT ![l] = front] /\ size' = [size EXCEPT ![l] = size[l] - 1]
      /\ tail' = [tail EXCEPT ![l] = t1]
      /\ chain' = [chain EXCEPT ![l] = d]
    BY DEF Heap, Well, Typed, EraseAfter
<1>3. /\ j \in 0..Len(c) /\ (p = l <=> j = 0) /\ (j # 0 => p = c[j])
      /\ next[p] = (IF j = Len(c) THEN Null ELSE c[j + 1])
      /\ p \in Owners \cup Nodes
    BY Place DEF EraseAfter
<1> HIDE DEF j
<1>4. j # Len(c) /\ j < Len(c) /\ k \in 1..Len(c) /\ gone = c[k] /\ k - 1 = j /\ (k = 1 <=> j = 0) /\ 1 \in 1..Len(c)
    BY <1>1, <1>2, <1>3
<1>5. d \in Seq(Nodes) /\ Removed(c, d, k)
    BY <1>1, <1>4, RemoveAtRemoves
<1>6. gone = head[l] <=> k = 1
    BY <1>1, <1>4
<1>7. gone = tail[l] <=> k = Len(c)
    BY <1>1, <1>4
<1>8. h1 = IF k = 1 THEN next[c[1]] ELSE head[l]
    BY <1>4, <1>6
<1>9. t1 = IF k = Len(c) THEN IF k = 1 THEN Null ELSE c[k - 1] ELSE tail[l]
    BY <1>3, <1>4, <1>7
<1>10. gone \in Nodes /\ Elements(c) \subseteq Nodes /\ (p # l => p \in Elements(c))
    <2>1. j # 0 => j \in 1..Len(c)
        BY <1>1, <1>3
    <2> QED BY <1>1, <1>3, <1>4, <2>1, ElementsType
<1>11. links \in [Owners \cup Nodes -> Nodes \cup {Null}]
    BY <1>2, <1>3, <1>10
<1>12. /\ links[l] = front /\ (p # l => links[p] = next[gone])
       /\ \A x \in Owners \cup Nodes : x # p /\ x # l => links[x] = next[x]
    BY <1>2, <1>3
<1>13. \A x \in (Owners \cup Nodes) \ ({l} \cup Elements(c)) : links[x] = next[x]
    BY <1>10, <1>12
<1> HIDE DEF k, links, d, gone
<1>14. LinkedOut(l, c, next, links, k)
    <2>1. links[l] = IF k = 1 THEN next[c[k]] ELSE next[l]
        BY <1>1, <1>4, <1>6, <1>12
    <2>2. k # 1 => links[c[k - 1]] = next[c[k]]
        BY <1>3, <1>4, <1>12
    <2>3. ASSUME NEW x \in Elements(c), x # c[k], k = 1 \/ x # c[k - 1] PROVE links[x] = next[x]
        BY <1>1, <1>3, <1>4, <1>10, <1>12, <2>3
    <2> QED BY <2>1, <2>2, <2>3 DEF LinkedOut
<1> HIDE DEF h1, t1, front
<1>15. TakenOut(l, k)
    <2>1. Delete({chain[l][k]}, links)
        BY <1>2, <1>4
    <2>2. head' = [head EXCEPT ![l] = h1]
        BY <1>2 DEF h1
    <2> QED BY <1>2, <1>4, <1>5, <1>8, <1>9, <1>11, <1>13, <1>14, <2>1, <2>2, TakesOut
<1> QED BY <1>4, <1>15 DEF k, j

\* pop_front of a list that holds something.
LEMMA PopFrontHeap ==
    ASSUME Heap, NEW l \in Owners, head[l] # Null, PopFront(l)
    PROVE  TakenOut(l, 1)
<1> DEFINE c == chain[l]
           second == next[head[l]]
           links == [next EXCEPT ![l] = second]
           d == Tail(c)
           t1 == IF second = Null THEN Null ELSE tail[l]
<1>0. Len(c) \in Nat
    BY Fields
<1>1. /\ c \in Seq(Nodes) /\ Len(c) \in Nat /\ l \notin Nodes /\ Null \notin Nodes
      /\ c = <<>> <=> Len(c) = 0
      /\ head[l] = IF Len(c) = 0 THEN Null ELSE c[1]
      /\ next[l] = head[l]
      /\ \A i \in 1..Len(c) : c[i] \in Nodes /\ next[c[i]] = IF i = Len(c) THEN Null ELSE c[i + 1]
      /\ \A i, m \in 1..Len(c) : c[i] = c[m] => i = m
    BY Fields
<1>2. /\ next \in [Owners \cup Nodes -> Nodes \cup {Null}] /\ head \in [Owners -> Nodes \cup {Null}]
      /\ tail \in [Owners -> Nodes \cup {Null}]
      /\ Delete({head[l]}, links)
      /\ head' = [head EXCEPT ![l] = second] /\ size' = [size EXCEPT ![l] = size[l] - 1]
      /\ tail' = [tail EXCEPT ![l] = t1]
      /\ chain' = [chain EXCEPT ![l] = d]
    BY DEF Heap, Well, Typed, PopFront
<1>3. Len(c) # 0 /\ 1 \in 1..Len(c) /\ head[l] = c[1] /\ c # <<>>
    BY <1>1
<1>4. d \in Seq(Nodes) /\ Removed(c, d, 1)
    BY <1>1, <1>3, TailRemoves
<1>5. second = Null <=> 1 = Len(c)
    <2>1. 1 # Len(c) => 1 + 1 \in 1..Len(c)
        BY <1>0, <1>3, Following
    <2> QED BY <1>1, <1>3, <2>1
<1>6. second = IF 1 = 1 THEN next[chain[l][1]] ELSE head[l]
    BY <1>3
<1>7. t1 = IF 1 = Len(chain[l]) THEN IF 1 = 1 THEN Null ELSE chain[l][1 - 1] ELSE tail[l]
    BY <1>5
<1>8. links \in [Owners \cup Nodes -> Nodes \cup {Null}]
    BY <1>1, <1>2, <1>3
<1>9. Elements(c) \subseteq Nodes
    BY <1>1, ElementsType
<1>10. LinkedOut(l, chain[l], next, links, 1)
    BY <1>1, <1>2, <1>3, <1>9 DEF LinkedOut
<1>11. \A x \in (Owners \cup Nodes) \ ({l} \cup Elements(chain[l])) : links[x] = next[x]
    BY <1>2
<1>12. Delete({chain[l][1]}, links) /\ 1 \in 1..Len(chain[l])
    BY <1>2, <1>3
<1> HIDE DEF links, d, second, t1
<1> QED BY <1>2, <1>4, <1>6, <1>7, <1>8, <1>10, <1>11, <1>12, TakesOut

\* pop_back of a list that holds something.
LEMMA PopBackHeap ==
    ASSUME Heap, NEW l \in Owners, head[l] # Null, PopBack(l)
    PROVE  TakenOut(l, Len(chain[l]))
<1> DEFINE c == chain[l]
           k == Len(c)
           d == Front(c)
<1>0. Len(c) \in Nat
    BY Fields
<1>1. /\ c \in Seq(Nodes) /\ Len(c) \in Nat /\ l \notin Nodes /\ Null \notin Nodes
      /\ c = <<>> <=> Len(c) = 0
      /\ head[l] = IF Len(c) = 0 THEN Null ELSE c[1]
      /\ tail[l] = IF Len(c) = 0 THEN Null ELSE c[Len(c)]
      /\ next[l] = head[l]
      /\ \A i \in 1..Len(c) : c[i] \in Nodes /\ next[c[i]] = IF i = Len(c) THEN Null ELSE c[i + 1]
      /\ \A i, m \in 1..Len(c) : c[i] = c[m] => i = m
    BY Fields
<1>2. /\ next \in [Owners \cup Nodes -> Nodes \cup {Null}] /\ head \in [Owners -> Nodes \cup {Null}]
      /\ tail \in [Owners -> Nodes \cup {Null}]
    BY DEF Heap, Well, Typed
<1>3. Len(c) # 0 /\ 1 \in 1..Len(c) /\ k \in 1..Len(c) /\ head[l] = c[1] /\ c # <<>>
    BY <1>1
<1>4. d \in Seq(Nodes) /\ Removed(c, d, k) /\ Elements(c) \subseteq Nodes
    BY <1>1, <1>3, FrontRemoves, ElementsType
<1>5. CASE next[head[l]] = Null
    <2> DEFINE links == [next EXCEPT ![l] = Null]
               none == Null
    <2>1. Len(c) = 1
        <3>1. 1 # Len(c) => 1 + 1 \in 1..Len(c)
            BY <1>0, <1>3, Following
        <3> QED BY <1>1, <1>3, <1>5, <3>1
    <2>2. \A prev, curr \in NodesOf(l) : next[prev] # curr
        <3>1. DOMAIN c = 1..Len(c)
            BY <1>1, LenProperties
        <3>2. \A prev \in NodesOf(l) : prev = c[1]
            BY <2>1, <3>1 DEF NodesOf
        <3> QED BY <1>1, <1>3, <1>5, <3>2
    <2>3. /\ Delete({head[l]}, links)
          /\ head' = [head EXCEPT ![l] = none] /\ size' = [size EXCEPT ![l] = size[l] - 1]
          /\ tail' = [tail EXCEPT ![l] = none]
          /\ chain' = [chain EXCEPT ![l] = d]
        BY <2>2 DEF PopBack
    <2>4. none = IF k = 1 THEN next[chain[l][1]] ELSE head[l]
        BY <1>3, <1>5, <2>1
    <2>5. none = IF k = Len(chain[l]) THEN IF k = 1 THEN Null ELSE chain[l][k - 1] ELSE tail[l]
        BY <2>1
    <2>6. links \in [Owners \cup Nodes -> Nodes \cup {Null}]
          /\ \A x \in (Owners \cup Nodes) \ ({l} \cup Elements(chain[l])) : links[x] = next[x]
        BY <1>2
    <2>7. LinkedOut(l, chain[l], next, links, k)
        BY <1>1, <1>2, <1>3, <1>4, <1>5, <2>1 DEF LinkedOut
    <2>8. Delete({chain[l][k]}, links) /\ k \in 1..Len(chain[l])
        BY <1>3, <2>1, <2>3
    <2> HIDE DEF links, none, d
    <2> QED BY <1>4, <2>3, <2>4, <2>5, <2>6, <2>7, <2>8, TakesOut
<1>6. CASE next[head[l]] # Null
    <2>1. PICK prev, curr \in NodesOf(l) :
            /\ next[prev] = curr
            /\ next[curr] = Null
            /\ Delete({curr}, [next EXCEPT ![prev] = Null, ![l] = head[l]])
            /\ tail' = [tail EXCEPT ![l] = prev]
            /\ size' = [size EXCEPT ![l] = @ - 1]
            /\ chain' = [chain EXCEPT ![l] = Front(@)]
            /\ UNCHANGED head
        BY <1>6 DEF PopBack
    <2> DEFINE links == [next EXCEPT ![prev] = Null, ![l] = head[l]]
    <2>2. DOMAIN c = 1..Len(c)
        BY <1>1, LenProperties
    <2>3. PICK i \in 1..Len(c), m \in 1..Len(c) : prev = c[i] /\ curr = c[m]
        BY <2>2 DEF NodesOf
    <2>4. m = Len(c)
        <3>1. m # Len(c) => m + 1 \in 1..Len(c)
            BY <1>1
        <3> QED BY <1>1, <2>1, <2>3, <3>1
    <2>5. i # Len(c) /\ i + 1 = m
        <3>1. i # Len(c)
            BY <1>1, <2>1, <2>3
        <3>2. i + 1 \in 1..Len(c) /\ c[i + 1] = c[m]
            BY <1>1, <2>1, <2>3, <3>1
        <3> QED BY <1>1, <3>1, <3>2
    <2>6. k = m /\ k - 1 = i /\ k # 1 /\ curr = c[k] /\ prev = c[k - 1] /\ prev \in Nodes
        BY <1>1, <2>3, <2>4, <2>5
    <2>7. head' = [head EXCEPT ![l] = head[l]] /\ chain' = [chain EXCEPT ![l] = d]
          /\ size' = [size EXCEPT ![l] = size[l] - 1] /\ tail' = [tail EXCEPT ![l] = prev]
        BY <1>2, <2>1
    <2>8. head[l] = IF k = 1 THEN next[chain[l][1]] ELSE head[l]
        BY <2>6
    <2>9. prev = IF k = Len(chain[l]) THEN IF k = 1 THEN Null ELSE chain[l][k - 1] ELSE tail[l]
        BY <2>6
    <2>10. links \in [Owners \cup Nodes -> Nodes \cup {Null}]
        BY <1>2, <2>6
    <2>11. prev \in Elements(c)
        BY <1>1, <2>3, ElementsType
    <2>12. \A x \in (Owners \cup Nodes) \ ({l} \cup Elements(chain[l])) : links[x] = next[x]
        BY <1>2, <2>11
    <2>13. LinkedOut(l, chain[l], next, links, k)
        BY <1>1, <1>2, <1>4, <2>1, <2>6 DEF LinkedOut
    <2>14. Delete({chain[l][k]}, links) /\ k \in 1..Len(chain[l])
        BY <1>3, <2>1, <2>6
    <2> HIDE DEF links, d
    <2> QED BY <1>4, <2>7, <2>8, <2>9, <2>10, <2>12, <2>13, <2>14, TakesOut
<1> QED BY <1>5, <1>6

\* The step empties l.
Emptied(l) ==
    /\ chain' = [chain EXCEPT ![l] = <<>>]
    /\ value' = Without(value, Elements(chain[l]))
    /\ Heap'

\* clear() and the destructor.
LEMMA ClearHeap ==
    ASSUME Heap, NEW l \in Owners, ClearFields(l)
    PROVE  Emptied(l)
<1> DEFINE gone == Elements(chain[l])
           ny == Unlinking([next EXCEPT ![l] = Null], gone)
<1>1. /\ next' = ny /\ value' = Without(value, gone) /\ alloc' = alloc \ gone
      /\ head' = [head EXCEPT ![l] = Null] /\ tail' = [tail EXCEPT ![l] = Null]
      /\ size' = [size EXCEPT ![l] = 0] /\ chain' = [chain EXCEPT ![l] = <<>>]
    BY DEF ClearFields, Delete, NodesOf, Elements, Without, Unlinking
<1>2. LinkedNone(l, chain[l], next, ny)
    <2>1. gone \subseteq Nodes /\ l \notin Nodes
        BY Fields, ElementsType
    <2> QED BY <2>1 DEF LinkedNone, Heap, Well, Typed, Unlinking
<1> HIDE DEF ny
<1>3. Well(ny, Without(value, gone), [head EXCEPT ![l] = Null], [tail EXCEPT ![l] = Null],
           [size EXCEPT ![l] = 0], alloc \ gone, [chain EXCEPT ![l] = <<>>])
    BY <1>2, WellClear DEF Heap
<1> QED BY <1>1, <1>3 DEF Emptied, Heap

\* The step exchanges what a and b hold.
Swapped(a, b) ==
    /\ chain' = Exchanged(chain, a, b)
    /\ value' = value
    /\ Heap'

\* swap().
LEMMA SwapHeap ==
    ASSUME Heap, NEW a \in Owners, NEW b \in Owners, SwapFields(a, b)
    PROVE  Swapped(a, b)
<1>1. /\ head' = Exchanged(head, a, b) /\ tail' = Exchanged(tail, a, b) /\ size' = Exchanged(size, a, b)
      /\ chain' = Exchanged(chain, a, b) /\ value' = value /\ alloc' = alloc
      /\ next' = [next EXCEPT ![a] = head[b], ![b] = head[a]]
    BY DEF SwapFields, Exchanged
<1>2. Well([next EXCEPT ![a] = head[b], ![b] = head[a]], value, Exchanged(head, a, b),
           Exchanged(tail, a, b), Exchanged(size, a, b), alloc, Exchanged(chain, a, b))
    BY WellSwap DEF Heap
<1> QED BY <1>1, <1>2 DEF Swapped, Heap

\* The step moves what b held to a.
Moved(a, b) ==
    /\ chain' = [chain EXCEPT ![a] = chain[b], ![b] = <<>>]
    /\ value' = Without(value, Elements(chain[a]))
    /\ Heap'

\* The ends of the copies and moves.
LEMMA TakeOverHeap ==
    ASSUME Heap, NEW a \in Owners, NEW b \in Owners, a # b, TakeOver(a, b)
    PROVE  Moved(a, b)
<1> DEFINE gone == Elements(chain[a])
           ny == Unlinking([next EXCEPT ![a] = head[b], ![b] = Null], gone)
<1>1. /\ next' = ny /\ value' = Without(value, gone) /\ alloc' = alloc \ gone
      /\ head' = [head EXCEPT ![a] = head[b], ![b] = Null]
      /\ tail' = [tail EXCEPT ![a] = tail[b], ![b] = Null]
      /\ size' = [size EXCEPT ![a] = size[b], ![b] = 0]
      /\ chain' = [chain EXCEPT ![a] = chain[b], ![b] = <<>>]
    BY DEF TakeOver, Delete, NodesOf, Elements, Without, Unlinking
<1>2. Well(ny, Without(value, gone), [head EXCEPT ![a] = head[b], ![b] = Null],
           [tail EXCEPT ![a] = tail[b], ![b] = Null], [size EXCEPT ![a] = size[b], ![b] = 0],
           alloc \ gone, [chain EXCEPT ![a] = chain[b], ![b] = <<>>])
    BY WellTakeOver DEF Heap
<1> HIDE DEF ny
<1> QED BY <1>1, <1>2 DEF Moved, Heap

-----------------------------------------------------------------------------
(***************************************************************************)
(* The inductive invariant: the heap, and what the operation in progress   *)
(* knows about it.                                                         *)
(***************************************************************************)

\* The values of a list, first to last.
Read(l) == [i \in DOMAIN chain[l] |-> value[chain[l][i]]]

\* erase_after(first, last): first is at place i of the chain, last after it,
\* at place j or at the end.
Span(l, first, last) ==
    LET c == chain[l] IN
    \E i \in 0..Len(c) : \E j \in (i + 1)..(Len(c) + 1) :
        /\ first = IF i = 0 THEN l ELSE c[i]
        /\ last = IF j = Len(c) + 1 THEN Null ELSE c[j]

\* Temp holds the first values of s, and p is the next node to be copied.
Copied(s, p) ==
    LET m == Len(chain[Temp]) IN
    /\ m <= Len(chain[s])
    /\ \A i \in 1..m : Read(Temp)[i] = Read(s)[i]
    /\ p = IF m = Len(chain[s]) THEN Null ELSE chain[s][m + 1]

InProgress ==
    \/ op = Idle /\ chain[Temp] = <<>>
    \/ /\ chain[Temp] = <<>>
       /\ \E l \in live, first \in Lists \cup Nodes, last \in Nodes \cup {Null} :
             /\ op = [kind |-> "erase", list |-> l, first |-> first, last |-> last]
             /\ Span(l, first, last)
    \/ \E d \in Lists \ live, vs \in Seq(Values) : op = [kind |-> "init", to |-> d, rest |-> vs]
    \/ \E d \in Lists, s \in live, p \in Nodes \cup {Null} :
          op = [kind |-> "copy", to |-> d, from |-> s, at |-> p] /\ Copied(s, p)

Control ==
    /\ live \subseteq Lists
    /\ \A l \in Lists \ live : chain[l] = <<>>
    /\ InProgress

IInv == Heap /\ Control

\* The client reads the values the nodes of the chain hold.
LEMMA ReadType ==
    ASSUME Heap, NEW l \in Owners
    PROVE  /\ Read(l) \in Seq(Values) /\ Len(Read(l)) = Len(chain[l]) /\ Len(Read(l)) \in Nat
           /\ DOMAIN Read(l) = 1..Len(chain[l])
           /\ \A i \in 1..Len(chain[l]) : Read(l)[i] = value[chain[l][i]]
<1>1. /\ chain[l] \in Seq(Nodes) /\ Len(chain[l]) \in Nat
      /\ \A i \in 1..Len(chain[l]) : chain[l][i] \in alloc
    BY Fields
<1>2. DOMAIN chain[l] = 1..Len(chain[l])
    BY <1>1, LenProperties
<1>3. Read(l) = [i \in 1..Len(chain[l]) |-> value[chain[l][i]]]
    BY <1>2 DEF Read
<1>4. \A i \in 1..Len(chain[l]) : value[chain[l][i]] \in Values
    BY <1>1 DEF Heap, Well
<1>5. Read(l) \in [1..Len(chain[l]) -> Values]
    BY <1>3, <1>4
<1>6. Read(l) \in Seq(Values) /\ Len(Read(l)) = Len(chain[l])
    BY <1>1, <1>5
<1> QED BY <1>1, <1>3, <1>6

LEMMA ReadTypeNext ==
    ASSUME Heap', NEW l \in Owners
    PROVE  /\ Read(l)' \in Seq(Values) /\ Len(Read(l)') = Len(chain'[l]) /\ Len(Read(l)') \in Nat
           /\ DOMAIN Read(l)' = 1..Len(chain'[l])
           /\ \A i \in 1..Len(chain'[l]) : Read(l)'[i] = value'[chain'[l][i]]
<1>1. chain' \in [Owners -> Seq(Nodes)] /\ Owned(chain', alloc') /\ \A n \in alloc' : value'[n] \in Values
    BY DEF Heap, Well, Typed
<1>2. chain'[l] \in Seq(Nodes) /\ Elements(chain'[l]) \subseteq alloc'
    BY <1>1, OwnedElements
<1>3. /\ Len(chain'[l]) \in Nat
      /\ \A i \in 1..Len(chain'[l]) : chain'[l][i] \in alloc'
    BY <1>2, LenProperties, ElementsType
<1>4. DOMAIN chain'[l] = 1..Len(chain'[l])
    BY <1>2, LenProperties
<1>5. Read(l)' = [i \in 1..Len(chain'[l]) |-> value'[chain'[l][i]]]
    BY <1>4 DEF Read
<1>6. \A i \in 1..Len(chain'[l]) : value'[chain'[l][i]] \in Values
    BY <1>1, <1>3
<1>7. Read(l)' \in [1..Len(chain'[l]) -> Values]
    BY <1>5, <1>6
<1>8. Read(l)' \in Seq(Values) /\ Len(Read(l)') = Len(chain'[l])
    BY <1>3, <1>7
<1> QED BY <1>3, <1>5, <1>8

\* A list whose chain and whose nodes' values stay is read the same.
LEMMA ReadSame ==
    ASSUME Heap, NEW a \in Owners, chain'[a] = chain[a],
           \A n \in Elements(chain[a]) : value'[n] = value[n]
    PROVE  Read(a)' = Read(a)
<1>1. chain[a] \in Seq(Nodes)
    BY Fields
<1>2. \A i \in DOMAIN chain[a] : value'[chain[a][i]] = value[chain[a][i]]
    BY DEF Elements
<1> QED BY <1>2 DEF Read

\* What the client reads after each kind of step.
LEMMA PutInReads ==
    ASSUME Heap, NEW l \in Owners, NEW n, NEW v \in Values, NEW k, PutIn(l, n, v, k)
    PROVE  /\ k \in 0..Len(Read(l))
           /\ Inserted(Read(l), Read(l)', k, v)
           /\ \A a \in Owners \ {l} : chain'[a] = chain[a] /\ Read(a)' = Read(a)
<1>1. PICK d \in Seq(Nodes) : /\ n \in Nodes \ alloc /\ k \in 0..Len(chain[l])
                              /\ Inserted(chain[l], d, k, n)
                              /\ chain' = [chain EXCEPT ![l] = d]
                              /\ value' = [value EXCEPT ![n] = v]
                              /\ Heap'
    BY DEF PutIn
<1>2. /\ chain \in [Owners -> Seq(Nodes)] /\ value \in [Nodes -> Values \cup {NoValue}]
      /\ Owned(chain, alloc)
    BY DEF Heap, Well, Typed
<1>3. chain'[l] = d /\ \A a \in Owners \ {l} : chain'[a] = chain[a]
    BY <1>1, <1>2
<1>4. value'[n] = v /\ \A x \in Nodes \ {n} : value'[x] = value[x]
    BY <1>1, <1>2
<1>5. \A a \in Owners : Elements(chain[a]) \subseteq Nodes \ {n}
    BY <1>1, <1>2, OwnedElements, ElementsType
<1>6. ASSUME NEW a \in Owners \ {l} PROVE chain'[a] = chain[a] /\ Read(a)' = Read(a)
    BY <1>3, <1>4, <1>5, ReadSame
<1>7. /\ Len(Read(l)) = Len(chain[l]) /\ Len(chain[l]) \in Nat
      /\ \A i \in 1..Len(chain[l]) : Read(l)[i] = value[chain[l][i]]
    BY ReadType
<1>8. /\ Len(Read(l)') = Len(d)
      /\ \A i \in 1..Len(d) : Read(l)'[i] = value'[d[i]]
    BY <1>1, <1>3, ReadTypeNext
<1>9. \A i \in 1..Len(chain[l]) : value'[chain[l][i]] = value[chain[l][i]]
    BY <1>2, <1>4, <1>5, ElementsType
<1>10. Len(d) = Len(chain[l]) + 1
    BY <1>1 DEF Inserted
<1>11. ASSUME NEW i \in 1..Len(d)
       PROVE  Read(l)'[i] = IF i <= k THEN Read(l)[i] ELSE IF i = k + 1 THEN v ELSE Read(l)[i - 1]
    <2>1. CASE i <= k
        <3>1. d[i] = chain[l][i] /\ i \in 1..Len(chain[l])
            BY <1>1, <1>7, <1>10, <2>1 DEF Inserted
        <3> QED BY <1>7, <1>8, <1>9, <2>1, <3>1
    <2>2. CASE i = k + 1
        <3>1. d[i] = n /\ ~(i <= k)
            BY <1>1, <1>7, <2>2 DEF Inserted
        <3> QED BY <1>4, <1>8, <2>2, <3>1
    <2>3. CASE i > k + 1
        <3>1. d[i] = chain[l][i - 1] /\ i - 1 \in 1..Len(chain[l]) /\ ~(i <= k) /\ i # k + 1
            BY <1>1, <1>7, <1>10, <2>3 DEF Inserted
        <3> QED BY <1>7, <1>8, <1>9, <3>1
    <2>4. i <= k \/ i = k + 1 \/ i > k + 1
        BY <1>1, <1>7
    <2> QED BY <2>1, <2>2, <2>3, <2>4
<1>12. Inserted(Read(l), Read(l)', k, v)
    BY <1>7, <1>8, <1>10, <1>11 DEF Inserted
<1> QED BY <1>1, <1>6, <1>7, <1>12

LEMMA TakenOutReads ==
    ASSUME Heap, NEW l \in Owners, NEW k, TakenOut(l, k)
    PROVE  /\ k \in 1..Len(Read(l))
           /\ Removed(Read(l), Read(l)', k)
           /\ \A a \in Owners \ {l} : chain'[a] = chain[a] /\ Read(a)' = Read(a)
<1>1. PICK d \in Seq(Nodes) : /\ k \in 1..Len(chain[l])
                              /\ Removed(chain[l], d, k)
                              /\ chain' = [chain EXCEPT ![l] = d]
                              /\ value' = Without(value, {chain[l][k]})
                              /\ Heap'
    BY DEF TakenOut
<1>2. /\ chain \in [Owners -> Seq(Nodes)] /\ Owned(chain, alloc)
    BY DEF Heap, Well, Typed
<1>3. chain'[l] = d /\ \A a \in Owners \ {l} : chain'[a] = chain[a]
    BY <1>1, <1>2
<1>4. /\ Len(chain[l]) \in Nat /\ \A i \in 1..Len(chain[l]) : chain[l][i] \in Nodes
      /\ \A i, j \in 1..Len(chain[l]) : chain[l][i] = chain[l][j] => i = j
    BY Fields
<1>5. \A x \in Nodes : x # chain[l][k] => value'[x] = value[x]
    BY <1>1 DEF Without
<1>6. ASSUME NEW a \in Owners \ {l} PROVE chain'[a] = chain[a] /\ Read(a)' = Read(a)
    <2>1. Elements(chain[a]) \subseteq Nodes /\ chain[l][k] \in Elements(chain[l])
        BY <1>1, <1>2, ElementsType
    <2>2. Elements(chain[a]) \cap Elements(chain[l]) = {}
        BY <1>2 DEF Owned
    <2> QED BY <1>3, <1>5, <2>1, <2>2, ReadSame
<1>7. /\ Len(Read(l)) = Len(chain[l])
      /\ \A i \in 1..Len(chain[l]) : Read(l)[i] = value[chain[l][i]]
    BY ReadType
<1>8. /\ Len(Read(l)') = Len(d)
      /\ \A i \in 1..Len(d) : Read(l)'[i] = value'[d[i]]
    <2>1. Heap' /\ chain'[l] = d
        BY <1>1, <1>3
    <2>2. /\ Len(Read(l)') = Len(chain'[l])
          /\ \A i \in 1..Len(chain'[l]) : Read(l)'[i] = value'[chain'[l][i]]
        BY <2>1, ReadTypeNext
    <2> QED BY <2>1, <2>2
<1>9. Len(d) = Len(chain[l]) - 1
    BY <1>1 DEF Removed
<1>10. ASSUME NEW i \in 1..Len(d)
       PROVE  Read(l)'[i] = IF i < k THEN Read(l)[i] ELSE Read(l)[i + 1]
    <2>1. CASE i < k
        <3>1. d[i] = chain[l][i] /\ i \in 1..Len(chain[l]) /\ i # k
            BY <1>1, <1>4, <1>9, <2>1 DEF Removed
        <3>2. value'[chain[l][i]] = value[chain[l][i]]
            BY <1>1, <1>4, <1>5, <3>1
        <3> QED BY <1>7, <1>8, <2>1, <3>1, <3>2
    <2>2. CASE ~(i < k)
        <3>1. d[i] = chain[l][i + 1] /\ i + 1 \in 1..Len(chain[l]) /\ i + 1 # k
            BY <1>1, <1>4, <1>9, <2>2 DEF Removed
        <3>2. value'[chain[l][i + 1]] = value[chain[l][i + 1]]
            BY <1>1, <1>4, <1>5, <3>1
        <3> QED BY <1>7, <1>8, <2>2, <3>1, <3>2
    <2> QED BY <2>1, <2>2
<1>11. Removed(Read(l), Read(l)', k)
    BY <1>7, <1>8, <1>9, <1>10 DEF Removed
<1> QED BY <1>1, <1>6, <1>7, <1>11

\* Two lists share no node.
LEMMA Apart ==
    ASSUME Heap, NEW a \in Owners, NEW b \in Owners, a # b
    PROVE  /\ Elements(chain[a]) \subseteq Nodes
           /\ \A x \in Elements(chain[a]) : x \notin Elements(chain[b])
<1>1. chain[a] \in Seq(Nodes) /\ Owned(chain, alloc)
    BY DEF Heap, Well, Typed
<1>2. Elements(chain[a]) \cap Elements(chain[b]) = {}
    BY <1>1 DEF Owned
<1> QED BY <1>1, <1>2, ElementsType

LEMMA EmptiedReads ==
    ASSUME Heap, NEW l \in Owners, Emptied(l)
    PROVE  Read(l)' = <<>> /\ \A a \in Owners \ {l} : chain'[a] = chain[a] /\ Read(a)' = Read(a)
<1>1. /\ chain \in [Owners -> Seq(Nodes)]
      /\ chain' = [chain EXCEPT ![l] = <<>>] /\ value' = Without(value, Elements(chain[l]))
    BY DEF Heap, Well, Typed, Emptied
<1>2. chain'[l] = <<>> /\ \A a \in Owners \ {l} : chain'[a] = chain[a]
    BY <1>1
<1>3. ASSUME NEW a \in Owners \ {l} PROVE chain'[a] = chain[a] /\ Read(a)' = Read(a)
    <2>1. \A x \in Elements(chain[a]) : value'[x] = value[x]
        BY <1>1, Apart DEF Without
    <2> QED BY <1>2, <2>1, ReadSame
<1>4. Read(l)' = <<>>
    BY <1>2 DEF Read
<1> QED BY <1>3, <1>4

LEMMA SwappedReads ==
    ASSUME Heap, NEW a \in Owners, NEW b \in Owners, Swapped(a, b)
    PROVE  /\ Read(a)' = Read(b) /\ Read(b)' = Read(a)
           /\ \A l \in Owners \ {a, b} : chain'[l] = chain[l] /\ Read(l)' = Read(l)
<1>1. /\ chain \in [Owners -> Seq(Nodes)]
      /\ chain' = [chain EXCEPT ![a] = chain[b], ![b] = chain[a]] /\ value' = value
    BY DEF Heap, Well, Typed, Swapped, Exchanged
<1>2. /\ chain'[a] = chain[b] /\ chain'[b] = chain[a]
      /\ \A l \in Owners \ {a, b} : chain'[l] = chain[l]
    BY <1>1
<1> QED BY <1>1, <1>2 DEF Read

LEMMA MovedReads ==
    ASSUME Heap, NEW a \in Owners, NEW b \in Owners, a # b, Moved(a, b)
    PROVE  /\ Read(a)' = Read(b) /\ Read(b)' = <<>>
           /\ chain'[a] = chain[b] /\ chain'[b] = <<>>
           /\ \A l \in Owners \ {a, b} : chain'[l] = chain[l] /\ Read(l)' = Read(l)
<1>1. /\ chain \in [Owners -> Seq(Nodes)]
      /\ chain' = [chain EXCEPT ![a] = chain[b], ![b] = <<>>]
      /\ value' = Without(value, Elements(chain[a]))
    BY DEF Heap, Well, Typed, Moved
<1>2. /\ chain'[a] = chain[b] /\ chain'[b] = <<>>
      /\ \A l \in Owners \ {a, b} : chain'[l] = chain[l]
    BY <1>1
<1>3. ASSUME NEW l \in Owners, l # a PROVE \A x \in Elements(chain[l]) : value'[x] = value[x]
    BY <1>1, <1>3, Apart DEF Without
<1>4. ASSUME NEW l \in Owners \ {a, b} PROVE Read(l)' = Read(l)
    BY <1>2, <1>3, ReadSame
<1>5. Read(a)' = Read(b)
    <2>1. \A i \in DOMAIN chain[b] : value'[chain[b][i]] = value[chain[b][i]]
        BY <1>3 DEF Elements
    <2> QED BY <1>2, <2>1 DEF Read
<1>6. Read(b)' = <<>>
    BY <1>2 DEF Read
<1> QED BY <1>2, <1>4, <1>5, <1>6

-----------------------------------------------------------------------------
(***************************************************************************)
(* Every step preserves the invariant.                                     *)
(***************************************************************************)

\* The step inserts into l, removes from it, empties it or leaves all as is.
Changes(l) ==
    \/ \E n \in Nodes, v \in Values, k \in Nat : PutIn(l, n, v, k)
    \/ \E k \in Nat : TakenOut(l, k)
    \/ Emptied(l)
    \/ UNCHANGED fields

\* A step that leaves the fields alone leaves the heap alone.
LEMMA SameHeap ==
    ASSUME Heap, UNCHANGED fields
    PROVE  Heap' /\ chain' = chain /\ value' = value /\ \A a \in Owners : Read(a)' = Read(a)
BY DEF Heap, fields, Read

LEMMA ChangesOne ==
    ASSUME Heap, NEW l \in Owners, Changes(l)
    PROVE  Heap' /\ \A a \in Owners \ {l} : chain'[a] = chain[a] /\ Read(a)' = Read(a)
<1>1. CASE \E n \in Nodes, v \in Values, k \in Nat : PutIn(l, n, v, k)
    BY <1>1, PutInReads DEF PutIn
<1>2. CASE \E k \in Nat : TakenOut(l, k)
    BY <1>2, TakenOutReads DEF TakenOut
<1>3. CASE Emptied(l)
    BY <1>3, EmptiedReads DEF Emptied
<1>4. CASE UNCHANGED fields
    BY <1>4, SameHeap
<1> QED BY <1>1, <1>2, <1>3, <1>4 DEF Changes

\* The operations that finish in one step.
LEMMA ModifyChanges ==
    ASSUME Heap, NEW l \in Lists, Modify(l)
    PROVE  Changes(l)
<1>1. l \in Owners
    BY DEF Owners
<1>2. Len(chain[l]) \in Nat
    BY <1>1, Fields
<1>3. ASSUME NEW n \in Nodes, NEW v \in Values, EmplaceBack(l, n, v) PROVE Changes(l)
    BY <1>1, <1>2, <1>3, EmplaceBackHeap DEF Changes
<1>4. ASSUME NEW n \in Nodes, NEW v \in Values, EmplaceFront(l, n, v) PROVE Changes(l)
    BY <1>1, <1>4, EmplaceFrontHeap DEF Changes
<1>5. ASSUME NEW p \in Positions(l), NEW n \in Nodes, NEW v \in Values, EmplaceAfter(l, p, n, v)
      PROVE  Changes(l)
    <2>1. IndexOf(l, p) \in Nat
        BY <1>1, <1>2, Place
    <2> QED BY <1>1, <1>5, <2>1, EmplaceAfterHeap DEF Changes
<1>6. ASSUME NEW p \in Positions(l), EraseAfter(l, p) PROVE Changes(l)
    <2>1. IndexOf(l, p) + 1 \in Nat
        BY <1>1, <1>2, Place
    <2> QED BY <1>1, <1>6, <2>1, EraseAfterHeap DEF Changes
<1>7. CASE PopBack(l)
    <2>1. CASE head[l] = Null
        <3>1. chain[l] = <<>>
            <4>1. Len(chain[l]) # 0 => chain[l][1] \in Nodes
                BY <1>1, Fields
            <4> QED BY <1>1, <2>1, <4>1, Fields
        <3>2. NodesOf(l) = {}
            BY <3>1 DEF NodesOf
        <3> QED BY <1>7, <2>1, <3>2 DEF PopBack, Changes
    <2> QED BY <1>1, <1>2, <1>7, <2>1, PopBackHeap DEF Changes
<1>8. CASE PopFront(l)
    <2>1. CASE head[l] = Null
        BY <1>8, <2>1 DEF PopFront, Changes
    <2> QED BY <1>1, <1>8, <2>1, PopFrontHeap DEF Changes
<1>9. CASE ClearFields(l)
    BY <1>1, <1>9, ClearHeap DEF Changes
<1> QED BY <1>3, <1>4, <1>5, <1>6, <1>7, <1>8, <1>9 DEF Modify

\* Constructing a list with a value is emplace_back on an empty list.
LEMMA ConstructValueChanges ==
    ASSUME Heap, NEW l \in Lists, chain[l] = <<>>, NEW n \in Nodes, NEW v \in Values,
           ConstructValue(l, n, v)
    PROVE  PutIn(l, n, v, 0)
<1>1. l \in Owners /\ Len(chain[l]) = 0
    BY EmptySeq DEF Owners
<1>2. head[l] = Null /\ size[l] = 0 /\ chain \in [Owners -> Seq(Nodes)] /\ size \in [Owners -> Nat]
    BY <1>1, Fields DEF Heap, Well, Typed
<1>3. Append(chain[l], n) = <<n>>
    OBVIOUS
<1>4. EmplaceBack(l, n, v)
    BY <1>2, <1>3 DEF ConstructValue, EmplaceBack
<1> QED BY <1>1, <1>4, EmplaceBackHeap

\* Control when no operation is in progress before or after the step.
LEMMA IdleControl ==
    ASSUME Control, op = Idle, op' = Idle, live' \subseteq Lists, chain'[Temp] = chain[Temp],
           \A l \in Lists \ live' : chain'[l] = <<>>
    PROVE  Control'
<1>1. chain[Temp] = <<>>
    BY DEF Control, InProgress, Idle
<1> QED BY <1>1 DEF Control, InProgress

\* A list that is born, dies or changes on its own.
LEMMA OneListInv ==
    ASSUME IInv, op = Idle, op' = Idle, NEW l \in Lists, Changes(l), live' \subseteq Lists,
           live \ {l} \subseteq live', l \notin live' => Emptied(l)
    PROVE  IInv'
<1>1. l \in Owners /\ Temp \in Owners \ {l} /\ Lists \subseteq Owners
    BY ListAssumption DEF Owners
<1>2. Heap' /\ \A a \in Owners \ {l} : chain'[a] = chain[a]
    BY <1>1, ChangesOne DEF IInv
<1>3. ASSUME NEW a \in Lists \ live' PROVE chain'[a] = <<>>
    <2>1. CASE a = l
        BY <1>1, <1>3, <2>1 DEF Emptied, IInv, Heap, Well, Typed
    <2>2. CASE a # l
        BY <1>1, <1>2, <1>3, <2>2 DEF IInv, Control
    <2> QED BY <2>1, <2>2
<1> QED BY <1>1, <1>2, <1>3, IdleControl DEF IInv

\* One list takes over what another, that is alive, held.
LEMMA MovedInv ==
    ASSUME IInv, op = Idle, op' = Idle, NEW d \in Lists, NEW s \in live, d # s, Moved(d, s),
           live' = live \cup {d}
    PROVE  IInv'
<1>1. d \in Owners /\ s \in Owners /\ Temp \in Owners \ {d, s} /\ Lists \subseteq Owners /\ live \subseteq Lists
    BY ListAssumption DEF Owners, IInv, Control
<1>2. \A a \in Owners \ {d, s} : chain'[a] = chain[a]
    BY <1>1, MovedReads DEF IInv
<1>3. \A a \in Lists \ live' : chain'[a] = <<>>
    BY <1>1, <1>2 DEF IInv, Control
<1>4. Control'
    BY <1>1, <1>2, <1>3, IdleControl DEF IInv
<1> QED BY <1>4 DEF IInv, Moved

LEMMA SwappedInv ==
    ASSUME IInv, op = Idle, op' = Idle, NEW a \in live, NEW b \in live, Swapped(a, b), live' = live
    PROVE  IInv'
<1>1. a \in Owners /\ b \in Owners /\ Temp \in Owners \ {a, b} /\ Lists \subseteq Owners /\ live \subseteq Lists
    BY ListAssumption DEF Owners, IInv, Control
<1>2. \A l \in Owners \ {a, b} : chain'[l] = chain[l]
    BY <1>1, SwappedReads DEF IInv
<1>3. \A l \in Lists \ live' : chain'[l] = <<>>
    BY <1>1, <1>2 DEF IInv, Control
<1>4. Control'
    BY <1>1, <1>2, <1>3, IdleControl DEF IInv
<1> QED BY <1>4 DEF IInv, Swapped

\* What Control says for each kind of operation.
LEMMA AtIdle ==
    ASSUME Control, op = Idle
    PROVE  chain[Temp] = <<>>
BY DEF Control, InProgress, Idle

LEMMA AtCopy ==
    ASSUME Control, op.kind = "copy"
    PROVE  \E d \in Lists, s \in live, p \in Nodes \cup {Null} :
              op = [kind |-> "copy", to |-> d, from |-> s, at |-> p] /\ Copied(s, p)
BY DEF Control, InProgress, Idle

LEMMA AtInit ==
    ASSUME Control, op.kind = "init"
    PROVE  \E d \in Lists \ live, vs \in Seq(Values) : op = [kind |-> "init", to |-> d, rest |-> vs]
BY DEF Control, InProgress, Idle

LEMMA AtErase ==
    ASSUME Control, op.kind = "erase"
    PROVE  /\ chain[Temp] = <<>>
           /\ \E l \in live, first \in Lists \cup Nodes, last \in Nodes \cup {Null} :
                 /\ op = [kind |-> "erase", list |-> l, first |-> first, last |-> last]
                 /\ Span(l, first, last)
BY DEF Control, InProgress, Idle

LEMMA TempOwns ==
    /\ Temp \in Owners /\ Lists \subseteq Owners /\ Temp \notin Lists
    /\ Lists \cap Nodes = {} /\ Null \notin Nodes
BY ListAssumption DEF Owners

LEMMA InitInv == Init => IInv
<1> SUFFICES ASSUME Init PROVE IInv
    OBVIOUS
<1>1. chain = [l \in Owners |-> <<>>] /\ alloc = {} /\ op = Idle /\ live = {}
    BY DEF Init
<1>2. \A l \in Owners : chain[l] = <<>> /\ Elements(chain[l]) = {} /\ IsInjective(chain[l])
    BY <1>1 DEF Elements, IsInjective
<1>3. Typed(next, value, head, tail, size, alloc, chain)
    BY DEF Init, Typed
<1>4. ASSUME NEW l \in Owners PROVE Spells(l, chain[l], next, head[l], tail[l], size[l])
    <2>1. size[l] = 0 /\ next[l] = head[l] /\ head[l] = Null /\ tail[l] = Null /\ chain[l] = <<>>
        BY DEF Init
    <2>2. Len(<<>>) = 0 /\ 1..(0 - 1) = {}
        OBVIOUS
    <2> QED BY <2>1, <2>2 DEF Spells
<1>5. Owned(chain, alloc)
    BY <1>1, <1>2 DEF Owned
<1>6. \A n \in Nodes : next[n] = Null
    BY DEF Init
<1>7. Heap
    BY <1>1, <1>3, <1>4, <1>5, <1>6 DEF Heap, Well
<1>8. Control
    BY <1>1, <1>2, TempOwns DEF Control, InProgress
<1> QED BY <1>7, <1>8 DEF IInv

\* The copy loop pushes the next value of the source.
LEMMA CopyElementInv ==
    ASSUME IInv, NEW n \in Nodes, CopyElement(n)
    PROVE  /\ IInv' /\ live' = live
           /\ \A a \in Owners \ {Temp} : Read(a)' = Read(a)
<1>1. op.kind = "copy" /\ op.at # Null /\ EmplaceBack(Temp, n, value[op.at]) /\ live' = live
      /\ op' = [op EXCEPT !.at = next[op.at]]
    BY DEF CopyElement
<1>2. PICK d \in Lists, s \in live, p \in Nodes \cup {Null} :
          op = [kind |-> "copy", to |-> d, from |-> s, at |-> p] /\ Copied(s, p)
    BY <1>1, AtCopy DEF IInv
<1>3. op.at = p /\ p # Null /\ op' = [kind |-> "copy", to |-> d, from |-> s, at |-> next[p]]
    BY <1>1, <1>2
<1> DEFINE m == Len(chain[Temp])
           k == Len(chain[s])
           j == m + 1
<1>4. Heap /\ s \in Owners /\ s # Temp /\ s \in Lists /\ live \subseteq Lists
    BY TempOwns DEF IInv, Control
<1>5. m \in Nat /\ k \in Nat
    BY <1>4, TempOwns, Fields
<1>6. m <= k /\ m # k /\ p = chain[s][j] /\ \A i \in 1..m : Read(Temp)[i] = Read(s)[i]
    BY <1>2, <1>3 DEF Copied
<1>7. j \in 1..k /\ j \in Nat /\ j = m + 1
    BY <1>5, <1>6
<1>8. /\ p \in alloc /\ p \in Nodes
      /\ next[p] = IF j = k THEN Null ELSE chain[s][j + 1]
    BY <1>4, <1>6, <1>7, Fields
<1>9. value[p] \in Values
    BY <1>4, <1>8 DEF Heap, Well, Typed
<1>10. PICK q \in Nodes \cup {Null} : q = next[p]
    BY <1>4, <1>8 DEF Heap, Well, Typed
<1>11. PutIn(Temp, n, value[p], m)
    BY <1>1, <1>3, <1>4, <1>9, TempOwns, EmplaceBackHeap
<1>12. /\ Inserted(Read(Temp), Read(Temp)', m, value[p])
       /\ \A a \in Owners \ {Temp} : chain'[a] = chain[a] /\ Read(a)' = Read(a)
    BY <1>4, <1>9, <1>11, TempOwns, PutInReads
<1>13. Heap'
    BY <1>11 DEF PutIn
<1>14. Len(Read(Temp)) = m /\ Read(s)[j] = value[p]
    BY <1>4, <1>6, <1>7, TempOwns, ReadType
<1>15. Len(Read(Temp)') = Len(chain'[Temp])
    BY <1>13, TempOwns, ReadTypeNext
<1> DEFINE m2 == Len(chain'[Temp])
<1>16. m2 = j
    BY <1>7, <1>12, <1>14, <1>15 DEF Inserted
<1>17. Read(s)' = Read(s) /\ chain'[s] = chain[s]
    BY <1>4, <1>12
<1>18. ASSUME NEW i \in 1..j PROVE Read(Temp)'[i] = Read(s)'[i]
    <2>1. Len(Read(Temp)') = j
        BY <1>15, <1>16
    <2>2. Read(Temp)'[i] = IF i <= m THEN Read(Temp)[i] ELSE IF i = m + 1 THEN value[p] ELSE Read(Temp)[i - 1]
        BY <1>12, <2>1 DEF Inserted
    <2>3. CASE i <= m
        <3>1. i \in 1..m
            BY <1>5, <1>7, <2>3
        <3> QED BY <1>6, <1>17, <2>2, <2>3, <3>1
    <2>4. CASE i = m + 1
        <3>1. ~(i <= m) /\ i = j
            BY <1>5, <2>4
        <3> QED BY <1>14, <1>17, <2>2, <2>4, <3>1
    <2>5. i <= m \/ i = m + 1
        BY <1>5, <1>7
    <2> QED BY <2>3, <2>4, <2>5
<1>19. Copied(s, q)'
    <2>1. j <= k
        BY <1>5, <1>7
    <2>2. Len(chain'[s]) = k /\ m2 = j
        BY <1>16, <1>17
    <2>3. q = IF j = k THEN Null ELSE chain'[s][j + 1]
        BY <1>8, <1>17, <1>10
    <2> HIDE DEF j, k
    <2> QED BY <1>18, <2>1, <2>2, <2>3 DEF Copied
<1>20. InProgress'
    BY <1>1, <1>3, <1>19, <1>10 DEF InProgress
<1>21. \A l \in Lists \ live' : chain'[l] = <<>>
    BY <1>1, <1>12, TempOwns DEF IInv, Control
<1> QED BY <1>1, <1>4, <1>12, <1>13, <1>20, <1>21 DEF IInv, Control

\* The loop over an initializer list pushes its next value.
LEMMA InitElementInv ==
    ASSUME IInv, NEW n \in Nodes, InitElement(n)
    PROVE  /\ IInv' /\ live' = live
           /\ \A a \in Owners \ {Temp} : Read(a)' = Read(a)
<1>1. op.kind = "init" /\ op.rest # <<>> /\ EmplaceBack(Temp, n, Head(op.rest)) /\ live' = live
      /\ op' = [op EXCEPT !.rest = Tail(@)]
    BY DEF InitElement
<1>2. PICK d \in Lists \ live, vs \in Seq(Values) : op = [kind |-> "init", to |-> d, rest |-> vs]
    BY <1>1, AtInit DEF IInv
<1>3. op.rest = vs /\ vs # <<>> /\ op' = [kind |-> "init", to |-> d, rest |-> Tail(vs)]
    BY <1>1, <1>2
<1>4. Head(vs) \in Values /\ Tail(vs) \in Seq(Values)
    BY <1>3, HeadTailProperties
<1>5. PutIn(Temp, n, Head(vs), Len(chain[Temp]))
    BY <1>1, <1>3, <1>4, TempOwns, EmplaceBackHeap DEF IInv
<1>6. \A a \in Owners \ {Temp} : chain'[a] = chain[a] /\ Read(a)' = Read(a)
    BY <1>4, <1>5, TempOwns, PutInReads DEF IInv
<1>7. Heap'
    BY <1>5 DEF PutIn
<1>8. InProgress'
    BY <1>1, <1>3, <1>4 DEF InProgress
<1>9. \A l \in Lists \ live' : chain'[l] = <<>>
    BY <1>1, <1>6, TempOwns DEF IInv, Control
<1>10. live' \subseteq Lists
    BY <1>1 DEF IInv, Control
<1> QED BY <1>1, <1>6, <1>7, <1>8, <1>9, <1>10 DEF IInv, Control

\* A build that is over: its target and, for a copy, its source.
LEMMA Building ==
    ASSUME Control, op.kind \in {"copy", "init"}
    PROVE  op.to \in Lists /\ op # Idle
<1>1. CASE op.kind = "copy"
    BY <1>1, AtCopy DEF Idle
<1>2. CASE op.kind = "init"
    BY <1>2, AtInit DEF Idle
<1> QED BY <1>1, <1>2

\* The target takes over what Temp holds.
LEMMA BuildDoneInv ==
    ASSUME IInv, BuildDone, NEW d, d = op.to
    PROVE  /\ IInv' /\ op.kind \in {"copy", "init"} /\ d \in Lists /\ live' = live \cup {d}
           /\ Read(d)' = Read(Temp)
           /\ \A a \in Lists \ {d} : Read(a)' = Read(a)
<1>1. op.kind \in {"copy", "init"} /\ live' = live \cup {d} /\ TakeOver(d, Temp) /\ op' = Idle
    BY DEF BuildDone, LastElement
<1>2. d \in Lists
    BY <1>1, Building DEF IInv
<1>3. d \in Owners /\ d # Temp
    BY <1>2, TempOwns
<1>4. Moved(d, Temp)
    BY <1>1, <1>3, TempOwns, TakeOverHeap DEF IInv
<1>5. /\ Read(d)' = Read(Temp)
      /\ chain'[Temp] = <<>>
      /\ \A a \in Owners \ {d, Temp} : chain'[a] = chain[a] /\ Read(a)' = Read(a)
    BY <1>3, <1>4, TempOwns, MovedReads DEF IInv
<1>6. Heap'
    BY <1>4 DEF Moved
<1>7. InProgress'
    BY <1>1, <1>5 DEF InProgress
<1>8. \A a \in Lists \ live' : chain'[a] = <<>>
    BY <1>1, <1>5, TempOwns DEF IInv, Control
<1>9. live' \subseteq Lists
    BY <1>1, <1>2 DEF IInv, Control
<1>10. \A a \in Lists \ {d} : Read(a)' = Read(a)
    BY <1>5, TempOwns
<1> QED BY <1>1, <1>2, <1>5, <1>6, <1>7, <1>8, <1>9, <1>10 DEF IInv, Control

\* A constructor throws: Temp gives its nodes back.
LEMMA BuildThrowInv ==
    ASSUME IInv, BuildThrow
    PROVE  IInv' /\ live' = live /\ \A a \in Lists : Read(a)' = Read(a)
<1>1. ClearFields(Temp) /\ op' = Idle /\ live' = live
    BY DEF BuildThrow
<1>2. Emptied(Temp)
    BY <1>1, TempOwns, ClearHeap DEF IInv
<1>3. \A a \in Owners \ {Temp} : chain'[a] = chain[a] /\ Read(a)' = Read(a)
    BY <1>2, TempOwns, EmptiedReads DEF IInv
<1>4. Heap' /\ chain'[Temp] = <<>>
    BY <1>2, TempOwns DEF Emptied, IInv, Heap, Well, Typed
<1>5. InProgress'
    BY <1>1, <1>4 DEF InProgress
<1>6. live' \subseteq Lists /\ \A a \in Lists \ live' : chain'[a] = <<>>
    BY <1>1, <1>3, TempOwns DEF IInv, Control
<1> QED BY <1>1, <1>3, <1>4, <1>5, <1>6, TempOwns DEF IInv, Control

\* A loop that has not begun yet leaves the fields alone.
LEMMA BeginInv ==
    ASSUME IInv, op = Idle, UNCHANGED <<live, fields>>, InProgress'
    PROVE  IInv'
<1>1. Heap' /\ chain' = chain /\ live' = live
    BY SameHeap DEF IInv
<1> QED BY <1>1 DEF IInv, Control

LEMMA BeginCopyInv ==
    ASSUME IInv, NEW d \in Lists, NEW s \in Lists, BeginCopy(d, s)
    PROVE  IInv'
<1>1. op = Idle /\ s \in live /\ UNCHANGED <<live, fields>>
      /\ op' = [kind |-> "copy", to |-> d, from |-> s, at |-> head[s]]
    BY DEF BeginCopy, Ready
<1>2. s \in Owners /\ chain[Temp] = <<>>
    BY <1>1, TempOwns, AtIdle DEF IInv
<1>3. chain' = chain /\ live' = live
    BY <1>1 DEF fields
<1>4. PICK p \in Nodes \cup {Null} : p = head[s]
    BY <1>2 DEF IInv, Heap, Well, Typed
<1> DEFINE c == chain[s]
<1>5. Len(c) \in Nat /\ p = IF Len(c) = 0 THEN Null ELSE c[1]
    BY <1>2, <1>4, Fields DEF IInv
<1>6. chain'[s] = c /\ Len(chain'[Temp]) = 0
    BY <1>2, <1>3
<1> HIDE DEF c
<1>7. Copied(s, p)'
    BY <1>5, <1>6 DEF Copied
<1>8. InProgress'
    BY <1>1, <1>3, <1>4, <1>7 DEF InProgress
<1> QED BY <1>1, <1>8, BeginInv

LEMMA BeginInitInv ==
    ASSUME IInv, NEW d \in Lists, NEW vs \in SeqOf(Values, MaxInit), BeginInit(d, vs)
    PROVE  IInv'
<1>1. op = Idle /\ d \notin live /\ UNCHANGED <<live, fields>>
      /\ op' = [kind |-> "init", to |-> d, rest |-> vs]
    BY DEF BeginInit
<1>2. PICK n \in 0..MaxInit : vs \in [1..n -> Values]
    BY DEF SeqOf
<1>3. vs \in Seq(Values)
    BY <1>2, ListAssumption
<1>4. InProgress'
    BY <1>1, <1>3 DEF InProgress
<1> QED BY <1>1, <1>4, BeginInv

LEMMA BeginEraseInv ==
    ASSUME IInv, NEW l \in Lists, NEW first \in Lists \cup Nodes, NEW last \in Nodes \cup {Null},
           BeginErase(l, first, last)
    PROVE  IInv'
<1>1. /\ op = Idle /\ l \in live /\ UNCHANGED <<live, fields>>
      /\ first \in Positions(l) /\ last \in NodesOf(l) \cup {Null}
      /\ last # Null => IndexOf(l, first) < IndexOf(l, last)
      /\ op' = [kind |-> "erase", list |-> l, first |-> first, last |-> last]
    BY DEF BeginErase, Ready
<1>2. chain' = chain /\ live' = live /\ chain[Temp] = <<>> /\ l \in Owners
    BY <1>1, TempOwns, AtIdle DEF fields, IInv
<1> DEFINE c == chain[l]
           i == IndexOf(l, first)
           j == IndexOf(l, last)
<1>3. Len(c) \in Nat /\ l # Null /\ l \notin Nodes
    BY <1>2, Fields, TempOwns, ListAssumption DEF IInv, Owners
<1>4. i \in 0..Len(c) /\ first = IF i = 0 THEN l ELSE c[i]
    BY <1>1, <1>2, Place DEF IInv
<1>5. ASSUME last # Null PROVE j \in 0..Len(c) /\ j # 0 /\ last = c[j] /\ i < j
    <2>1. last \in Positions(l) /\ last # l
        BY <1>1, <1>3, <1>5 DEF Positions
    <2> QED BY <1>1, <1>2, <1>5, <2>1, Place DEF IInv
<1> HIDE DEF c, i, j
<1>6. \E k \in (i + 1)..(Len(c) + 1) : last = IF k = Len(c) + 1 THEN Null ELSE c[k]
    <2>1. CASE last = Null
        <3>1. Len(c) + 1 \in (i + 1)..(Len(c) + 1)
            BY <1>3, <1>4
        <3> QED BY <2>1, <3>1
    <2>2. CASE last # Null
        <3>1. j \in (i + 1)..(Len(c) + 1) /\ j # Len(c) + 1
            BY <1>3, <1>4, <1>5, <2>2
        <3> QED BY <1>5, <2>2, <3>1
    <2> QED BY <2>1, <2>2
<1>7. Span(l, first, last)
    BY <1>4, <1>6 DEF Span, c
<1>8. Span(l, first, last)'
    BY <1>2, <1>7 DEF Span
<1>9. InProgress'
    BY <1>1, <1>2, <1>8 DEF InProgress
<1> QED BY <1>1, <1>9, BeginInv

\* The position at place i of a chain has index i.
LEMMA PlaceOf ==
    ASSUME Heap, NEW l \in Owners, NEW i \in 0..Len(chain[l]), NEW p,
           p = IF i = 0 THEN l ELSE chain[l][i]
    PROVE  p \in Positions(l) /\ IndexOf(l, p) = i
<1> DEFINE c == chain[l]
           k == IndexOf(l, p)
<1>1. /\ Len(c) \in Nat /\ c \in Seq(Nodes) /\ l \notin Nodes
      /\ \A x \in 1..Len(c) : c[x] \in Nodes
      /\ \A x, y \in 1..Len(c) : c[x] = c[y] => x = y
    BY Fields
<1>2. DOMAIN c = 1..Len(c)
    BY <1>1, LenProperties
<1>3. ASSUME i # 0 PROVE i \in 1..Len(c) /\ p = c[i] /\ p # l
    BY <1>1, <1>3
<1>4. p \in Positions(l)
    BY <1>2, <1>3 DEF Positions, NodesOf
<1>5. k \in 0..Len(c) /\ (p = l <=> k = 0) /\ (k # 0 => p = c[k])
    BY <1>4, Place
<1> HIDE DEF c, k
<1>6. k = i
    <2>1. CASE i = 0
        BY <1>5, <2>1
    <2>2. CASE i # 0
        <3>1. k \in 1..Len(c) /\ c[k] = c[i]
            BY <1>1, <1>3, <1>5, <2>2
        <3> QED BY <1>1, <1>3, <2>2, <3>1
    <2> QED BY <2>1, <2>2
<1> QED BY <1>4, <1>6 DEF k

\* The erase loop has an element to erase or is at its end.
LEMMA SpanNext ==
    ASSUME Heap, NEW l \in Owners, NEW first, NEW last, Span(l, first, last)
    PROVE  next[first] = last \/ next[first] # Null
<1> DEFINE c == chain[l]
<1>1. PICK i \in 0..Len(c) : \E j \in (i + 1)..(Len(c) + 1) :
          /\ first = IF i = 0 THEN l ELSE c[i]
          /\ last = IF j = Len(c) + 1 THEN Null ELSE c[j]
    BY DEF Span
<1>2. PICK j \in (i + 1)..(Len(c) + 1) :
          /\ first = IF i = 0 THEN l ELSE c[i]
          /\ last = IF j = Len(c) + 1 THEN Null ELSE c[j]
    BY <1>1
<1>3. first \in Positions(l) /\ IndexOf(l, first) = i
    BY <1>2, PlaceOf
<1>4. next[first] = IF i = Len(c) THEN Null ELSE c[i + 1]
    BY <1>3, Place
<1>5. /\ Len(c) \in Nat /\ Null \notin Nodes
      /\ \A x \in 1..Len(c) : c[x] \in Nodes
    BY Fields
<1> HIDE DEF c
<1>6. CASE i = Len(c)
    BY <1>2, <1>4, <1>5, <1>6
<1>7. CASE i # Len(c)
    <2>1. i + 1 \in 1..Len(c)
        BY <1>5, <1>7
    <2> QED BY <1>4, <1>5, <1>7, <2>1
<1> QED BY <1>6, <1>7

LEMMA EraseStepInv ==
    ASSUME IInv, EraseStep
    PROVE  /\ IInv' /\ live' = live
           /\ \E l \in live : Changes(l) /\ ((\A a \in Lists : Read(a)' = Read(a))
                 \/ \E k \in Nat : TakenOut(l, k))
<1>1. op.kind = "erase" /\ live' = live
    BY DEF EraseStep
<1>2. PICK l \in live, first \in Lists \cup Nodes, last \in Nodes \cup {Null} :
          /\ op = [kind |-> "erase", list |-> l, first |-> first, last |-> last]
          /\ Span(l, first, last)
    BY <1>1, AtErase DEF IInv
<1>3. /\ chain[Temp] = <<>> /\ live \subseteq Lists /\ l \in Owners /\ Temp \in Owners \ {l} /\ Heap
      /\ \A a \in Lists \ live : chain[a] = <<>>
    BY <1>1, AtErase, TempOwns DEF IInv, Control
<1>4. op.first = first /\ op.last = last /\ op.list = l
    BY <1>2
<1>5. CASE next[first] = last /\ op' = Idle /\ UNCHANGED fields
    <2>1. Heap' /\ chain' = chain /\ \A a \in Lists : Read(a)' = Read(a)
        BY <1>3, <1>5, SameHeap, TempOwns
    <2>2. IInv'
        BY <1>1, <1>3, <1>5, <2>1 DEF IInv, Control, InProgress
    <2>3. Changes(l)
        BY <1>5 DEF Changes
    <2> QED BY <1>1, <2>1, <2>2, <2>3
<1>6. CASE next[first] # last /\ EraseAfter(l, first) /\ op' = op
    <2> DEFINE c == chain[l]
               k == IndexOf(l, first)
    <2>1. k < Len(c) /\ TakenOut(l, k + 1)
        BY <1>3, <1>6, EraseAfterHeap
    <2>2. PICK d \in Seq(Nodes) : /\ k + 1 \in 1..Len(c)
                                  /\ Removed(c, d, k + 1)
                                  /\ chain' = [chain EXCEPT ![l] = d]
                                  /\ Heap'
        BY <2>1 DEF TakenOut
    <2>3. chain'[l] = d /\ \A a \in Owners \ {l} : chain'[a] = chain[a]
        BY <1>3, <2>2 DEF Heap, Well, Typed
    <2>4. PICK i \in 0..Len(c) : \E j \in (i + 1)..(Len(c) + 1) :
              /\ first = IF i = 0 THEN l ELSE c[i]
              /\ last = IF j = Len(c) + 1 THEN Null ELSE c[j]
        BY <1>2 DEF Span
    <2>5. PICK j \in (i + 1)..(Len(c) + 1) :
              /\ first = IF i = 0 THEN l ELSE c[i]
              /\ last = IF j = Len(c) + 1 THEN Null ELSE c[j]
        BY <2>4
    <2>6. k = i /\ first \in Positions(l)
        BY <1>3, <2>5, PlaceOf
    <2>7. next[first] = IF i = Len(c) THEN Null ELSE c[i + 1]
        BY <1>3, <2>6, Place
    <2>8. Len(c) \in Nat
        BY <1>3, Fields
    <2>9. \A x \in 1..Len(d) : d[x] = IF x < i + 1 THEN c[x] ELSE c[x + 1]
        BY <2>2, <2>6 DEF Removed
    <2>10. Len(d) = Len(c) - 1 /\ i < Len(c)
        BY <2>1, <2>2, <2>6 DEF Removed
    <2> HIDE DEF c, k
    <2>11. j # i + 1
        BY <1>6, <2>5, <2>7, <2>8, <2>10
    <2>12. i \in 0..Len(d) /\ j - 1 \in (i + 1)..(Len(d) + 1)
        BY <2>8, <2>10, <2>11
    <2>13. first = IF i = 0 THEN l ELSE d[i]
        <3>1. i # 0 => i \in 1..Len(d) /\ i < i + 1
            BY <2>8, <2>10
        <3> QED BY <2>5, <2>9, <3>1
    <2>14. last = IF j - 1 = Len(d) + 1 THEN Null ELSE d[j - 1]
        <3>1. CASE j = Len(c) + 1
            BY <2>5, <2>8, <2>10, <3>1
        <3>2. CASE j # Len(c) + 1
            <4>1. j - 1 \in 1..Len(d) /\ ~(j - 1 < i + 1) /\ (j - 1) + 1 = j /\ j - 1 # Len(d) + 1
                BY <2>8, <2>10, <2>11, <3>2
            <4> QED BY <2>5, <2>9, <3>2, <4>1
        <3> QED BY <3>1, <3>2
    <2>15. Span(l, first, last)'
        BY <2>3, <2>12, <2>13, <2>14 DEF Span
    <2>16. chain'[Temp] = <<>>
        BY <1>3, <2>3
    <2>17. InProgress'
        BY <1>1, <1>2, <1>6, <2>15, <2>16 DEF InProgress
    <2>18. \A a \in Lists \ live' : chain'[a] = <<>>
        BY <1>1, <1>3, <2>3, TempOwns
    <2>19. k + 1 \in Nat
        BY <2>6
    <2> QED BY <1>1, <1>3, <2>1, <2>2, <2>17, <2>18, <2>19 DEF IInv, Control, Changes
<1> QED BY <1>1, <1>4, <1>5, <1>6 DEF EraseStep

\* A list that is not alive is an empty list.
LEMMA Unborn ==
    ASSUME IInv, NEW l \in Lists, l \notin live
    PROVE  chain[l] = <<>>
BY DEF IInv, Control

LEMMA ConstructInv ==
    ASSUME IInv, NEW l \in Lists, Construct(l)
    PROVE  IInv'
<1>1. op = Idle /\ op' = Idle /\ live' = live \cup {l} /\ UNCHANGED fields
    BY DEF Construct
<1>2. Changes(l) /\ live' \subseteq Lists
    BY <1>1 DEF Changes, IInv, Control
<1> QED BY <1>1, <1>2, OneListInv

LEMMA ConstructValueInv ==
    ASSUME IInv, NEW l \in Lists, NEW n \in Nodes, NEW v \in Values, ConstructValue(l, n, v)
    PROVE  IInv' /\ PutIn(l, n, v, 0)
<1>1. op = Idle /\ op' = Idle /\ live' = live \cup {l} /\ l \notin live
    BY DEF ConstructValue
<1>2. PutIn(l, n, v, 0)
    BY <1>1, Unborn, ConstructValueChanges DEF IInv
<1>3. Changes(l) /\ live' \subseteq Lists
    BY <1>1, <1>2 DEF Changes, IInv, Control
<1> QED BY <1>1, <1>2, <1>3, OneListInv

LEMMA DestroyInv ==
    ASSUME IInv, NEW l \in Lists, Destroy(l)
    PROVE  IInv' /\ Emptied(l)
<1>1. op = Idle /\ op' = Idle /\ live' = live \ {l} /\ ClearFields(l)
    BY DEF Destroy, Ready
<1>2. Emptied(l)
    BY <1>1, TempOwns, ClearHeap DEF IInv
<1>3. Changes(l) /\ live' \subseteq Lists
    BY <1>1, <1>2 DEF Changes, IInv, Control
<1> QED BY <1>1, <1>2, <1>3, OneListInv

LEMMA ModifyInv ==
    ASSUME IInv, NEW l \in Lists, Modify(l)
    PROVE  IInv'
<1>1. op = Idle /\ op' = Idle /\ live' = live /\ l \in live
    BY DEF Modify, Ready
<1>2. Changes(l)
    BY ModifyChanges DEF IInv
<1>3. live' \subseteq Lists
    BY <1>1 DEF IInv, Control
<1> QED BY <1>1, <1>2, <1>3, OneListInv

LEMMA MoveConstructInv ==
    ASSUME IInv, NEW d \in Lists, NEW s \in Lists, MoveConstruct(d, s)
    PROVE  IInv' /\ d # s /\ Moved(d, s)
<1>1. op = Idle /\ op' = Idle /\ live' = live \cup {d} /\ d # s /\ s \in live /\ TakeOver(d, s)
    BY DEF MoveConstruct, Ready
<1>2. Moved(d, s)
    BY <1>1, TempOwns, TakeOverHeap DEF IInv
<1> QED BY <1>1, <1>2, MovedInv

LEMMA MoveAssignInv ==
    ASSUME IInv, NEW d \in Lists, NEW s \in Lists, MoveAssign(d, s)
    PROVE  IInv' /\ (d = s => UNCHANGED fields) /\ (d # s => Moved(d, s))
<1>1. op = Idle /\ op' = Idle /\ live' = live /\ d \in live /\ s \in live
    BY DEF MoveAssign, Ready
<1>2. CASE d = s
    <2>1. UNCHANGED fields
        BY <1>2 DEF MoveAssign
    <2>2. Changes(d) /\ live' \subseteq Lists
        BY <1>1, <2>1 DEF Changes, IInv, Control
    <2> QED BY <1>1, <1>2, <2>1, <2>2, OneListInv
<1>3. CASE d # s
    <2>1. TakeOver(d, s)
        BY <1>3 DEF MoveAssign
    <2>2. Moved(d, s)
        BY <1>3, <2>1, TempOwns, TakeOverHeap DEF IInv
    <2>3. live' = live \cup {d}
        BY <1>1
    <2> QED BY <1>1, <1>3, <2>2, <2>3, MovedInv
<1> QED BY <1>2, <1>3

LEMMA SwapInv ==
    ASSUME IInv, NEW a \in Lists, NEW b \in Lists, Swap(a, b)
    PROVE  IInv' /\ Swapped(a, b)
<1>1. op = Idle /\ op' = Idle /\ live' = live /\ a \in live /\ b \in live /\ SwapFields(a, b)
    BY DEF Swap, Ready
<1>2. Swapped(a, b)
    BY <1>1, TempOwns, SwapHeap DEF IInv
<1> QED BY <1>1, <1>2, SwappedInv

LEMMA StutterInv ==
    ASSUME IInv, UNCHANGED vars
    PROVE  IInv'
<1>1. UNCHANGED fields /\ live' = live /\ op' = op /\ chain' = chain /\ value' = value
    BY DEF vars, fields
<1>2. Heap'
    BY <1>1, SameHeap DEF IInv
<1>3. ASSUME NEW s, NEW p, Copied(s, p) PROVE Copied(s, p)'
    <2>1. Read(Temp)' = Read(Temp) /\ Read(s)' = Read(s)
        BY <1>1 DEF Read
    <2> QED BY <1>1, <1>3, <2>1 DEF Copied
<1>4. ASSUME NEW l, NEW first, NEW last, Span(l, first, last) PROVE Span(l, first, last)'
    BY <1>1, <1>4 DEF Span
<1>5. Control'
    BY <1>1, <1>3, <1>4 DEF IInv, Control, InProgress
<1> QED BY <1>2, <1>5 DEF IInv

LEMMA StepInv == IInv /\ [Next]_vars => IInv'
<1> SUFFICES ASSUME IInv, [Next]_vars PROVE IInv'
    OBVIOUS
<1>1. CASE UNCHANGED vars
    BY <1>1, StutterInv
<1>2. ASSUME NEW l \in Lists, Construct(l) \/ Destroy(l) \/ Modify(l) PROVE IInv'
    BY <1>2, ConstructInv, DestroyInv, ModifyInv
<1>3. ASSUME NEW l \in Lists, NEW n \in Nodes, NEW v \in Values, ConstructValue(l, n, v) PROVE IInv'
    BY <1>3, ConstructValueInv
<1>4. ASSUME NEW d \in Lists, NEW s \in Lists,
             MoveConstruct(d, s) \/ MoveAssign(d, s) \/ Swap(d, s) \/ BeginCopy(d, s)
      PROVE  IInv'
    BY <1>4, MoveConstructInv, MoveAssignInv, SwapInv, BeginCopyInv
<1>5. ASSUME NEW d \in Lists, NEW vs \in SeqOf(Values, MaxInit), BeginInit(d, vs) PROVE IInv'
    BY <1>5, BeginInitInv
<1>6. ASSUME NEW l \in Lists, NEW first \in Lists \cup Nodes, NEW last \in Nodes \cup {Null},
             BeginErase(l, first, last)
      PROVE  IInv'
    BY <1>6, BeginEraseInv
<1>7. ASSUME NEW n \in Nodes, CopyElement(n) \/ InitElement(n) PROVE IInv'
    BY <1>7, CopyElementInv, InitElementInv
<1>8. CASE BuildDone
    BY <1>8, BuildDoneInv
<1>9. CASE BuildThrow
    BY <1>9, BuildThrowInv
<1>10. CASE EraseStep
    BY <1>10, EraseStepInv
<1> QED BY <1>1, <1>2, <1>3, <1>4, <1>5, <1>6, <1>7, <1>8, <1>9, <1>10 DEF Next, LoopStep

\* The pointers, the heap and the operation in progress always agree.
THEOREM HeapIsWell == Spec => []IInv
BY InitInv, StepInv, PTL DEF Spec

-----------------------------------------------------------------------------
(***************************************************************************)
(* What the client sees.                                                   *)
(***************************************************************************)

\* A range-for over a list reads the values of its chain.
ChainIsRead == \A l \in Owners : Walk(l) = chain[l] /\ Contents(l) = Read(l)

LEMMA ContentsRead == Heap => ChainIsRead
<1> SUFFICES ASSUME Heap, NEW l \in Owners PROVE Walk(l) = chain[l] /\ Contents(l) = Read(l)
    BY DEF ChainIsRead
<1>1. Walk(l) = chain[l]
    BY WalkIsChain DEF Heap, Well, Typed, Owned
<1> QED BY <1>1 DEF Contents, Read

\* Two sequences that agree in length and in every element are equal.
LEMMA SameSequence ==
    ASSUME NEW S, NEW c \in Seq(S), NEW d \in Seq(S), Len(c) = Len(d),
           \A i \in 1..Len(c) : c[i] = d[i]
    PROVE  c = d
BY SeqEqual

\* While a copy is under way, what Temp holds is what the source begins with.
LEMMA CopyInv == IInv => CopyIsFaithful
<1> SUFFICES ASSUME IInv, op.kind = "copy" PROVE CopyIsFaithful
    BY DEF CopyIsFaithful
<1>1. PICK d \in Lists, s \in live, p \in Nodes \cup {Null} :
          op = [kind |-> "copy", to |-> d, from |-> s, at |-> p] /\ Copied(s, p)
    BY AtCopy DEF IInv
<1>2. op.from = s /\ op.at = p /\ s \in Owners /\ Temp \in Owners /\ Heap
    BY <1>1, TempOwns DEF IInv, Control
<1>3. Contents(Temp) = Read(Temp) /\ Contents(s) = Read(s)
    BY <1>2, ContentsRead DEF ChainIsRead
<1> DEFINE a == Read(Temp)
           b == Read(s)
           m == Len(chain[Temp])
<1>4. a \in Seq(Values) /\ Len(a) = m /\ m \in Nat /\ b \in Seq(Values) /\ Len(b) = Len(chain[s])
      /\ Len(chain[s]) \in Nat
    BY <1>2, ReadType
<1>5. m <= Len(b) /\ (\A i \in 1..m : a[i] = b[i])
      /\ p = IF m = Len(chain[s]) THEN Null ELSE chain[s][m + 1]
    BY <1>1, <1>4 DEF Copied
<1> HIDE DEF a, b, m
<1>6. IsPrefix(a, b)
    <2>1. m \in 0..Len(b)
        BY <1>4, <1>5
    <2>2. /\ SubSeq(b, 1, m) \in Seq(Values) /\ Len(SubSeq(b, 1, m)) = m
          /\ \A i \in 1..m : SubSeq(b, 1, m)[i] = b[i]
        BY <1>4, <2>1, TakeFirst
    <2>3. a = SubSeq(b, 1, m)
        BY <1>4, <1>5, <2>2, SameSequence
    <2> QED BY <1>4, <1>5, <2>3 DEF IsPrefix
<1> QED BY <1>2, <1>3, <1>4, <1>5, <1>6 DEF CopyIsFaithful, a, b

LEMMA StructureInv == IInv => Structure
<1> SUFFICES ASSUME IInv PROVE Structure
    OBVIOUS
<1>1. Heap /\ Control
    BY DEF IInv
<1>2. TypeOK
    <2>1. op.kind \in {"idle", "copy", "init", "erase"}
        BY <1>1 DEF Control, InProgress, Idle
    <2> QED BY <1>1, <2>1 DEF Heap, Well, Typed, Control, TypeOK
<1>3. Links
    BY <1>1 DEF Links, Heap, Well, Spells
<1>4. NodesOwned
    <2>1. Owned(chain, alloc)
        BY <1>1 DEF Heap, Well
    <2>2. \A l \in Owners : NodesOf(l) = Elements(chain[l])
        BY DEF NodesOf, Elements
    <2>3. op = Idle => chain[Temp] = <<>>
        BY <1>1, AtIdle
    <2>4. \A l \in Lists \ live : chain[l] = <<>>
        BY <1>1 DEF Control
    <2>5. alloc = UNION {NodesOf(l) : l \in Owners}
        BY <2>1, <2>2 DEF Owned
    <2>6. \A a, b \in Owners : a # b => NodesOf(a) \cap NodesOf(b) = {}
        BY <2>1, <2>2 DEF Owned
    <2> QED BY <2>1, <2>3, <2>4, <2>5, <2>6 DEF NodesOwned, Owned
<1> QED BY <1>2, <1>3, <1>4, CopyInv DEF Structure

LEMMA EqualityInv == IInv => EqualityIsContents
<1> SUFFICES ASSUME IInv, NEW a \in live, NEW b \in live
             PROVE  /\ size[a] = size[b] => Len(Walk(a)) = Len(Walk(b))
                    /\ EqualTo(a, b) <=> Contents(a) = Contents(b)
    BY DEF EqualityIsContents
<1>1. Heap /\ a \in Owners /\ b \in Owners
    BY TempOwns DEF IInv, Control
<1>2. /\ Walk(a) = chain[a] /\ Walk(b) = chain[b]
      /\ Contents(a) = Read(a) /\ Contents(b) = Read(b)
    BY <1>1, ContentsRead DEF ChainIsRead
<1>3. size[a] = Len(chain[a]) /\ size[b] = Len(chain[b]) /\ DOMAIN chain[a] = 1..Len(chain[a])
    BY <1>1, Fields, LenProperties
<1>4. /\ Read(a) \in Seq(Values) /\ Len(Read(a)) = Len(chain[a])
      /\ Read(b) \in Seq(Values) /\ Len(Read(b)) = Len(chain[b])
    BY <1>1, ReadType
<1>5. EqualTo(a, b) <=>
         Len(chain[a]) = Len(chain[b]) /\ \A i \in 1..Len(chain[a]) : Read(a)[i] = Read(b)[i]
    BY <1>2, <1>3 DEF EqualTo
<1>6. EqualTo(a, b) => Read(a) = Read(b)
    BY <1>4, <1>5, SameSequence
<1>7. Read(a) = Read(b) => EqualTo(a, b)
    BY <1>4, <1>5
<1> QED BY <1>2, <1>3, <1>6, <1>7

\* The pointers, the counts, the ownership of the nodes and the copies in
\* progress are right in every reachable state (slist.hpp:218-513).
THEOREM StructureHolds == Spec => []Structure
BY HeapIsWell, StructureInv, PTL

\* erase_after(first, last) erases an element only while there is one: its
\* loop never asks for the element after the last one (slist.hpp:475-484).
EraseHasElement == op.kind = "erase" => next[op.first] = op.last \/ next[op.first] # Null

THEOREM EraseStaysInside == Spec => []EraseHasElement
<1>1. IInv => EraseHasElement
    <2> SUFFICES ASSUME IInv, op.kind = "erase" PROVE next[op.first] = op.last \/ next[op.first] # Null
        BY DEF EraseHasElement
    <2>1. PICK l \in live, first \in Lists \cup Nodes, last \in Nodes \cup {Null} :
              /\ op = [kind |-> "erase", list |-> l, first |-> first, last |-> last]
              /\ Span(l, first, last)
        BY AtErase DEF IInv
    <2>2. l \in Owners /\ Heap /\ op.first = first /\ op.last = last
        BY <2>1, TempOwns DEF IInv, Control
    <2> QED BY <2>1, <2>2, SpanNext
<1> QED BY <1>1, HeapIsWell, PTL

-----------------------------------------------------------------------------
(***************************************************************************)
(* The loops end.                                                          *)
(***************************************************************************)

\* first and last are at places i and j of list l.
SpanAt(l, first, last, i, j) ==
    /\ i \in 0..Len(chain[l]) /\ j \in (i + 1)..(Len(chain[l]) + 1)
    /\ first = IF i = 0 THEN l ELSE chain[l][i]
    /\ last = IF j = Len(chain[l]) + 1 THEN Null ELSE chain[l][j]

\* What the loop in progress still has to do, by places in the chains.
LeftIs ==
    /\ op = Idle => Left = 0
    /\ op.kind = "copy" => Left = 1 + (Len(chain[op.from]) - Len(chain[Temp]))
    /\ op.kind = "init" => Left = 1 + Len(op.rest)
    /\ op.kind = "erase" =>
          \A i, j \in Nat : SpanAt(op.list, op.first, op.last, i, j) => Left = j - i

LEMMA ElementsFromPlace ==
    ASSUME Heap, NEW l \in Owners, NEW k \in 1..(Len(chain[l]) + 1), NEW n,
           n = IF k = Len(chain[l]) + 1 THEN Null ELSE chain[l][k]
    PROVE  ElementsFrom(l, n) = Len(chain[l]) + 1 - k
<1>1. Len(chain[l]) \in Nat /\ Null \notin Nodes /\ \A i \in 1..Len(chain[l]) : chain[l][i] \in Nodes
    BY Fields
<1>2. CASE k = Len(chain[l]) + 1
    BY <1>1, <1>2 DEF ElementsFrom
<1>3. CASE k # Len(chain[l]) + 1
    <2>1. k \in 1..Len(chain[l]) /\ k \in 0..Len(chain[l]) /\ k # 0 /\ n = chain[l][k]
        BY <1>1, <1>3
    <2>2. IndexOf(l, n) = k
        BY <2>1, PlaceOf
    <2> QED BY <1>1, <2>1, <2>2 DEF ElementsFrom
<1> QED BY <1>2, <1>3

LEMMA LeftInv == IInv => LeftIs
<1> SUFFICES ASSUME IInv PROVE LeftIs
    OBVIOUS
<1>1. op = Idle => Left = 0
    BY DEF Left, Idle
<1>2. ASSUME op.kind = "copy" PROVE Left = 1 + (Len(chain[op.from]) - Len(chain[Temp]))
    <2>1. PICK d \in Lists, s \in live, p \in Nodes \cup {Null} :
              op = [kind |-> "copy", to |-> d, from |-> s, at |-> p] /\ Copied(s, p)
        BY <1>2, AtCopy DEF IInv
    <2> DEFINE m == Len(chain[Temp])
               k == Len(chain[s])
    <2>2. Heap /\ s \in Owners /\ Temp \in Owners /\ op.from = s /\ op.at = p
        BY <2>1, TempOwns DEF IInv, Control
    <2>3. m \in Nat /\ k \in Nat
        BY <2>2, Fields
    <2>4. m <= k /\ p = IF m = k THEN Null ELSE chain[s][m + 1]
        BY <2>1 DEF Copied
    <2>5. m + 1 \in 1..(k + 1) /\ p = IF m + 1 = k + 1 THEN Null ELSE chain[s][m + 1]
        BY <2>3, <2>4
    <2>6. ElementsFrom(s, p) = k + 1 - (m + 1)
        BY <2>2, <2>5, ElementsFromPlace
    <2>7. Left = 1 + ElementsFrom(s, p)
        BY <1>2, <2>2 DEF Left
    <2> HIDE DEF m, k
    <2>8. Left = 1 + (k - m)
        BY <2>3, <2>6, <2>7
    <2> QED BY <2>2, <2>8 DEF m, k
<1>3. op.kind = "init" => Left = 1 + Len(op.rest)
    BY DEF Left
<1>4. ASSUME op.kind = "erase", NEW i \in Nat, NEW j \in Nat, SpanAt(op.list, op.first, op.last, i, j)
      PROVE  Left = j - i
    <2>1. PICK l \in live, first \in Lists \cup Nodes, last \in Nodes \cup {Null} :
              /\ op = [kind |-> "erase", list |-> l, first |-> first, last |-> last]
              /\ Span(l, first, last)
        BY <1>4, AtErase DEF IInv
    <2>2. Heap /\ l \in Owners /\ op.list = l /\ op.first = first /\ op.last = last
        BY <2>1, TempOwns DEF IInv, Control
    <2> DEFINE k == Len(chain[l])
    <2>3. /\ i \in 0..k /\ j \in (i + 1)..(k + 1)
          /\ first = IF i = 0 THEN l ELSE chain[l][i]
          /\ last = IF j = k + 1 THEN Null ELSE chain[l][j]
        BY <1>4, <2>2 DEF SpanAt
    <2>4. first \in Positions(l) /\ IndexOf(l, first) = i
        BY <2>2, <2>3, PlaceOf
    <2>5. next[first] = IF i = k THEN Null ELSE chain[l][i + 1]
        BY <2>2, <2>4, Place
    <2>6. k \in Nat
        BY <2>2, Fields
    <2>7. i + 1 \in 1..(k + 1) /\ j \in 1..(k + 1)
          /\ next[first] = IF i + 1 = k + 1 THEN Null ELSE chain[l][i + 1]
        BY <2>3, <2>5, <2>6
    <2>8. ElementsFrom(l, next[first]) = k + 1 - (i + 1) /\ ElementsFrom(l, last) = k + 1 - j
        BY <2>2, <2>3, <2>7, ElementsFromPlace
    <2>9. Left = 1 + ElementsFrom(l, next[first]) - ElementsFrom(l, last)
        BY <1>4, <2>2 DEF Left
    <2> HIDE DEF k
    <2> QED BY <2>6, <2>8, <2>9
<1> QED BY <1>1, <1>2, <1>3, <1>4 DEF LeftIs

\* Both ends of a step of a loop.
Looping == IInv /\ IInv' /\ LeftIs /\ LeftIs' /\ op # Idle

\* A copy pushed one more element.
LEMMA CopyAdvances ==
    ASSUME Looping, NEW n \in Nodes, CopyElement(n)
    PROVE  op.kind = "copy" /\ 0 <= Left' /\ Left' < Left
<1>1. op.kind = "copy" /\ op' = [op EXCEPT !.at = next[op.at]] /\ op.at # Null
      /\ EmplaceBack(Temp, n, value[op.at])
    BY DEF CopyElement
<1>2. PICK d \in Lists, s \in live, p \in Nodes \cup {Null} :
          op = [kind |-> "copy", to |-> d, from |-> s, at |-> p] /\ Copied(s, p)
    BY <1>1, AtCopy DEF IInv, Looping
<1>3. PICK d1 \in Lists, s1 \in live', p1 \in Nodes \cup {Null} :
          op' = [kind |-> "copy", to |-> d1, from |-> s1, at |-> p1] /\ Copied(s1, p1)'
    BY <1>1, <1>2 DEF Looping, IInv, Control, InProgress, Idle
<1> DEFINE m == Len(chain[Temp])
           k == Len(chain[op.from])
           m2 == Len(chain'[Temp])
           k2 == Len(chain'[op'.from])
<1>4. op'.kind = "copy" /\ op'.from = op.from /\ op.from \in Owners \ {Temp} /\ Heap /\ Heap'
    BY <1>1, <1>2, TempOwns DEF IInv, Control, Looping
<1>5. m \in Nat /\ k \in Nat
    BY <1>4, TempOwns, Fields
<1>6. chain' = [chain EXCEPT ![Temp] = Append(@, n)] /\ chain \in [Owners -> Seq(Nodes)]
    BY <1>1, <1>4 DEF EmplaceBack, Heap, Well, Typed
<1>7. m2 = m + 1 /\ k2 = k
    BY <1>4, <1>6, TempOwns
<1>8. m2 <= k2
    BY <1>3 DEF Copied
<1>9. Left = 1 + (k - m) /\ Left' = 1 + (k2 - m2)
    BY <1>1, <1>4 DEF Looping, LeftIs
<1> HIDE DEF m, k, m2, k2
<1> QED BY <1>1, <1>5, <1>7, <1>8, <1>9

\* An initializer list is one value shorter.
LEMMA InitAdvances ==
    ASSUME Looping, NEW n \in Nodes, InitElement(n)
    PROVE  op.kind = "init" /\ 0 <= Left' /\ Left' < Left
<1>1. op.kind = "init" /\ op' = [op EXCEPT !.rest = Tail(@)] /\ op.rest # <<>>
    BY DEF InitElement
<1>2. PICK d \in Lists \ live, vs \in Seq(Values) : op = [kind |-> "init", to |-> d, rest |-> vs]
    BY <1>1, AtInit DEF IInv, Looping
<1>3. op.rest = vs /\ vs # <<>> /\ op' = [kind |-> "init", to |-> d, rest |-> Tail(vs)]
    BY <1>1, <1>2
<1> DEFINE m == Len(vs)
           m2 == Len(Tail(vs))
<1>4. m \in Nat /\ m2 = m - 1 /\ m2 \in Nat
    BY <1>3, HeadTailProperties, LenProperties
<1>5. Left = 1 + m /\ Left' = 1 + m2
    BY <1>1, <1>3 DEF Looping, LeftIs
<1> HIDE DEF m, m2
<1>6. 0 <= Left' /\ Left' < Left
    BY <1>4, <1>5
<1> QED BY <1>1, <1>6

\* A loop that is still to do something has at least its last test before it.
LEMMA BuildEnds ==
    ASSUME Looping, op.kind \in {"copy", "init"}, op' = Idle
    PROVE  0 <= Left' /\ Left' < Left
<1>1. Left' = 0
    BY DEF Looping, LeftIs
<1>2. CASE op.kind = "copy"
    <2>1. PICK d \in Lists, s \in live, p \in Nodes \cup {Null} :
              op = [kind |-> "copy", to |-> d, from |-> s, at |-> p] /\ Copied(s, p)
        BY <1>2, AtCopy DEF IInv, Looping
    <2>2. Heap /\ s \in Owners /\ op.from = s
        BY <2>1, TempOwns DEF IInv, Control, Looping
    <2> DEFINE k == Len(chain[s])
               m == Len(chain[Temp])
    <2>3. k \in Nat /\ m \in Nat
        BY <2>2, TempOwns, Fields
    <2>4. m <= k
        BY <2>1 DEF Copied
    <2>5. Left = 1 + (k - m)
        BY <1>2, <2>2 DEF Looping, LeftIs
    <2> HIDE DEF k, m
    <2> QED BY <1>1, <2>3, <2>4, <2>5
<1>3. CASE op.kind = "init"
    <2>1. PICK d \in Lists \ live, vs \in Seq(Values) : op = [kind |-> "init", to |-> d, rest |-> vs]
        BY <1>3, AtInit DEF IInv, Looping
    <2>2. op.rest = vs /\ Len(vs) \in Nat
        BY <2>1, LenProperties
    <2>3. Left = 1 + Len(vs)
        BY <1>3, <2>2 DEF Looping, LeftIs
    <2> QED BY <1>1, <2>2, <2>3
<1> QED BY <1>2, <1>3

\* range erasure stops at the end of the range, or takes its next element.
LEMMA EraseAdvances ==
    ASSUME Looping, EraseStep
    PROVE  /\ op.kind = "erase" /\ 0 <= Left' /\ Left' < Left /\ Left' = Left - 1
           /\ \A l \in {op.list} : OutsideRange \subseteq NodesOf(l)'
<1>1. op.kind = "erase"
    BY DEF EraseStep
<1>2. PICK l \in live, first \in Lists \cup Nodes, last \in Nodes \cup {Null} :
          /\ op = [kind |-> "erase", list |-> l, first |-> first, last |-> last]
          /\ Span(l, first, last)
    BY <1>1, AtErase DEF IInv, Looping
<1>3. Heap /\ Heap' /\ l \in Owners /\ op.list = l /\ op.first = first /\ op.last = last
    BY <1>2, TempOwns DEF IInv, Control, Looping
<1> DEFINE c == chain[l]
           k == Len(c)
<1>4. /\ k \in Nat /\ c \in Seq(Nodes) /\ Null \notin Nodes /\ \A x \in 1..k : c[x] \in Nodes
      /\ \A x, y \in 1..k : c[x] = c[y] => x = y
    BY <1>3, Fields
<1>5. PICK i \in 0..k : \E j \in (i + 1)..(k + 1) :
          /\ first = IF i = 0 THEN l ELSE c[i]
          /\ last = IF j = k + 1 THEN Null ELSE c[j]
    BY <1>2 DEF Span
<1>6. PICK j \in (i + 1)..(k + 1) :
          /\ first = IF i = 0 THEN l ELSE c[i]
          /\ last = IF j = k + 1 THEN Null ELSE c[j]
    BY <1>5
<1>7. SpanAt(l, first, last, i, j) /\ i \in Nat /\ j \in Nat
    BY <1>4, <1>6 DEF SpanAt
<1>8. Left = j - i
    BY <1>1, <1>3, <1>7 DEF Looping, LeftIs
<1>9. first \in Positions(l) /\ IndexOf(l, first) = i
    BY <1>3, <1>6, PlaceOf
<1>10. next[first] = IF i = k THEN Null ELSE c[i + 1]
    BY <1>3, <1>9, Place
<1>11. last # Null => j \in 1..k /\ IndexOf(l, last) = j
    <2>1. last # Null => j \in 1..k /\ j \in 0..k /\ j # 0 /\ last = c[j]
        BY <1>4, <1>6
    <2> QED BY <1>3, <2>1, PlaceOf
<1>12. DOMAIN c = 1..k
    BY <1>4, LenProperties
<1>13. ASSUME NEW x \in OutsideRange
       PROVE  \E y \in 1..k : x = c[y] /\ (y <= i \/ (j <= y /\ j <= k))
    <2>1. x \in NodesOf(l) /\ \/ IndexOf(l, x) <= i
                              \/ last # Null /\ IndexOf(l, x) >= IndexOf(l, last)
        BY <1>3, <1>9 DEF OutsideRange
    <2>2. PICK y \in 1..k : x = c[y]
        BY <1>12, <2>1 DEF NodesOf
    <2>3. y \in 0..k /\ y # 0
        BY <1>4
    <2>4. IndexOf(l, x) = y
        BY <1>3, <2>2, <2>3, PlaceOf
    <2> HIDE DEF c, k
    <2> QED BY <1>4, <1>11, <2>1, <2>2, <2>4
<1>14. CASE next[first] = last /\ op' = Idle /\ UNCHANGED fields
    <2>1. Left' = 0
        BY <1>14 DEF Looping, LeftIs
    <2>2. j = i + 1
        <3>1. CASE i = k
            BY <1>4, <1>6, <3>1
        <3>2. CASE i # k
            <4>1. i + 1 \in 1..k
                BY <1>4, <3>2
            <4>2. last = c[i + 1] /\ last \in Nodes
                BY <1>4, <1>10, <1>14, <3>2, <4>1
            <4>3. j \in 1..k /\ c[j] = c[i + 1]
                BY <1>4, <1>6, <4>2
            <4> QED BY <1>4, <4>1, <4>3
        <3> QED BY <3>1, <3>2
    <2>3. chain'[l] = c
        BY <1>14 DEF fields
    <2>4. OutsideRange \subseteq NodesOf(l)'
        BY <1>12, <1>13, <2>3 DEF NodesOf
    <2> HIDE DEF c, k
    <2>5. Left = 1
        BY <1>4, <1>8, <2>2
    <2> QED BY <1>1, <1>3, <2>1, <2>4, <2>5
<1>15. CASE next[first] # last /\ EraseAfter(l, first) /\ op' = op
    <2>1. i < k /\ TakenOut(l, i + 1)
        BY <1>3, <1>9, <1>15, EraseAfterHeap
    <2>2. PICK d \in Seq(Nodes) : Removed(c, d, i + 1) /\ chain' = [chain EXCEPT ![l] = d]
        BY <2>1 DEF TakenOut
    <2>3. chain'[l] = d
        BY <1>3, <2>2 DEF Heap, Well, Typed
    <2>4. Len(d) = k - 1 /\ \A x \in 1..Len(d) : d[x] = IF x < i + 1 THEN c[x] ELSE c[x + 1]
        BY <2>2 DEF Removed
    <2>5. DOMAIN d = 1..Len(d)
        BY <2>2, LenProperties
    <2> HIDE DEF c, k
    <2>6. j # i + 1
        BY <1>4, <1>6, <1>10, <1>15, <2>1
    <2>7. i \in 0..Len(d) /\ j - 1 \in (i + 1)..(Len(d) + 1) /\ j - 1 \in Nat
        BY <1>4, <2>1, <2>4, <2>6
    <2>8. first = IF i = 0 THEN l ELSE d[i]
        <3>1. i # 0 => i \in 1..Len(d) /\ i < i + 1
            BY <1>4, <2>1, <2>4
        <3> QED BY <1>6, <2>4, <3>1
    <2>9. last = IF j - 1 = Len(d) + 1 THEN Null ELSE d[j - 1]
        <3>1. CASE j = k + 1
            BY <1>4, <1>6, <2>4, <3>1
        <3>2. CASE j # k + 1
            <4>1. j - 1 \in 1..Len(d) /\ ~(j - 1 < i + 1) /\ (j - 1) + 1 = j /\ j - 1 # Len(d) + 1
                BY <1>4, <2>4, <2>6, <3>2
            <4> QED BY <1>6, <2>4, <3>2, <4>1
        <3> QED BY <3>1, <3>2
    <2>10. SpanAt(l, first, last, i, j - 1)'
        BY <2>3, <2>7, <2>8, <2>9 DEF SpanAt
    <2>11. Left' = (j - 1) - i
        BY <1>1, <1>3, <1>7, <1>15, <2>7, <2>10 DEF Looping, LeftIs
    <2>12. ASSUME NEW x \in OutsideRange PROVE x \in NodesOf(l)'
        <3>1. PICK y \in 1..k : x = c[y] /\ (y <= i \/ (j <= y /\ j <= k))
            BY <1>13
        <3>2. CASE y <= i
            <4>1. y \in 1..Len(d) /\ y < i + 1
                BY <1>4, <2>1, <2>4, <3>2
            <4> QED BY <2>3, <2>4, <2>5, <3>1, <4>1 DEF NodesOf
        <3>3. CASE j <= y /\ j <= k
            <4>1. y - 1 \in 1..Len(d) /\ ~(y - 1 < i + 1) /\ (y - 1) + 1 = y
                BY <1>4, <2>4, <2>6, <3>3
            <4> QED BY <2>3, <2>4, <2>5, <3>1, <4>1 DEF NodesOf
        <3> QED BY <3>1, <3>2, <3>3
    <2>13. 0 <= Left' /\ Left' < Left /\ Left' = Left - 1
        BY <1>4, <1>8, <2>6, <2>11
    <2> QED BY <1>1, <1>3, <2>12, <2>13
<1> QED BY <1>3, <1>14, <1>15 DEF EraseStep

\* Every step of a loop takes it nearer to its end, and range erasure takes
\* exactly the elements between first and last (slist.hpp:239-242, 252-255,
\* 475-484).
THEOREM LoopsTerminate == Spec => LoopsAdvance
<1> DEFINE Advance ==
        op # Idle =>
            /\ op.kind = "erase" =>
                  (\A l \in {op.list} : OutsideRange \subseteq NodesOf(l)') /\ Left' = Left - 1
            /\ 0 <= Left' /\ Left' < Left
<1>1. ASSUME IInv, IInv', LeftIs, LeftIs', [Next]_vars PROVE Advance \/ UNCHANGED vars
    <2> SUFFICES ASSUME op # Idle, Next PROVE Advance
        BY <1>1
    <2>1. Looping
        BY <1>1 DEF Looping
    <2>2. LoopStep
        BY DEF Next, Construct, ConstructValue, Destroy, Modify, MoveConstruct, MoveAssign, Swap,
               BeginCopy, BeginInit, BeginErase, Ready
    <2>3. ASSUME NEW n \in Nodes, CopyElement(n) PROVE Advance
        BY <2>1, <2>3, CopyAdvances
    <2>4. ASSUME NEW n \in Nodes, InitElement(n) PROVE Advance
        BY <2>1, <2>4, InitAdvances
    <2>5. ASSUME BuildDone \/ BuildThrow PROVE Advance
        <3>1. op.kind \in {"copy", "init"} /\ op' = Idle
            BY <2>5 DEF BuildDone, BuildThrow, LastElement
        <3> QED BY <2>1, <3>1, BuildEnds
    <2>6. CASE EraseStep
        BY <2>1, <2>6, EraseAdvances
    <2> QED BY <2>2, <2>3, <2>4, <2>5, <2>6 DEF LoopStep
<1>2. IInv /\ IInv' /\ LeftIs /\ LeftIs' /\ [Next]_vars => [Advance]_vars
    BY <1>1
<1> HIDE DEF Advance
<1>3. Spec => [][Advance]_vars
    BY <1>2, LeftInv, HeapIsWell, PTL DEF Spec
<1> QED BY <1>3 DEF LoopsAdvance, Advance

-----------------------------------------------------------------------------
(***************************************************************************)
(* SList implements SListAbs: what the client reads from a list changes as *)
(* a sequence does.                                                        *)
(***************************************************************************)

\* A sequence with one element more, or less, is the only one.
LEMMA InsertedIs ==
    ASSUME NEW S, NEW c \in Seq(S), NEW d \in Seq(S), NEW k \in 0..Len(c), NEW e \in S,
           Inserted(c, d, k, e)
    PROVE  d = InsertAt(c, k + 1, e)
<1> DEFINE x == InsertAt(c, k + 1, e)
<1>1. x \in Seq(S) /\ Inserted(c, x, k, e)
    BY InsertAtInserts
<1> HIDE DEF x
<1>2. Len(d) = Len(x) /\ \A i \in 1..Len(d) : d[i] = x[i]
    BY <1>1 DEF Inserted
<1>3. d = x
    BY <1>1, <1>2, SameSequence
<1> QED BY <1>3 DEF x

LEMMA RemovedIs ==
    ASSUME NEW S, NEW c \in Seq(S), NEW d \in Seq(S), NEW k \in 1..Len(c), Removed(c, d, k)
    PROVE  d = RemoveAt(c, k)
<1> DEFINE x == RemoveAt(c, k)
<1>1. x \in Seq(S) /\ Removed(c, x, k)
    BY RemoveAtRemoves
<1> HIDE DEF x
<1>2. Len(d) = Len(x) /\ \A i \in 1..Len(d) : d[i] = x[i]
    BY <1>1 DEF Removed
<1>3. d = x
    BY <1>1, <1>2, SameSequence
<1> QED BY <1>3 DEF x

\* The client's view before and after a step.
ViewIsRead == View = [l \in Lists |-> Read(l)]

LEMMA ViewInv == IInv => ViewIsRead
<1> SUFFICES ASSUME IInv, NEW l \in Lists PROVE Contents(l) = Read(l)
    BY DEF ViewIsRead, View
<1> QED BY ContentsRead, TempOwns DEF IInv, ChainIsRead

\* Both ends of a step.
Seen == IInv /\ IInv' /\ ViewIsRead /\ ViewIsRead'

LEMMA SeenReads ==
    ASSUME Seen, NEW l \in Lists
    PROVE  /\ View[l] = Read(l) /\ View'[l] = Read(l)'
           /\ Read(l) \in Seq(Values) /\ Read(l)' \in Seq(Values)
           /\ l \in Owners /\ Heap /\ live \subseteq Lists /\ live' \subseteq Lists
<1>1. View[l] = Read(l) /\ View'[l] = Read(l)'
    BY DEF Seen, ViewIsRead
<1>2. l \in Owners /\ Heap /\ Heap' /\ live \subseteq Lists /\ live' \subseteq Lists
    BY TempOwns DEF Seen, IInv, Control
<1> QED BY <1>1, <1>2, ReadType, ReadTypeNext

\* Nothing is seen to change.
LEMMA ViewSame ==
    ASSUME Seen, \A a \in Lists : Read(a)' = Read(a)
    PROVE  View' = View
BY DEF Seen, ViewIsRead

\* One list is seen to change.
LEMMA ViewOne ==
    ASSUME Seen, NEW l \in Lists, \A a \in Lists \ {l} : Read(a)' = Read(a), NEW r, r = Read(l)'
    PROVE  View' = [View EXCEPT ![l] = r]
BY DEF Seen, ViewIsRead

\* Two lists are seen to change.
LEMMA ViewTwo ==
    ASSUME Seen, NEW a \in Lists, NEW b \in Lists, a # b,
           \A l \in Lists \ {a, b} : Read(l)' = Read(l),
           NEW r, r = Read(a)', NEW q, q = Read(b)'
    PROVE  View' = [View EXCEPT ![a] = r, ![b] = q]
BY DEF Seen, ViewIsRead

\* A step of the sequences, or none.
AbsStep == Abs!Next \/ UNCHANGED Abs!vars

LEMMA InitAbs == Init => Abs!Init
<1> SUFFICES ASSUME Init PROVE Abs!Init
    OBVIOUS
<1>1. View = [l \in Lists |-> Read(l)]
    BY InitInv, ViewInv DEF ViewIsRead
<1>2. \A l \in Lists : Read(l) = <<>>
    BY TempOwns DEF Init, Read
<1>3. View = [l \in Lists |-> <<>>]
    BY <1>1, <1>2
<1>4. live = {}
    BY DEF Init
<1> QED BY <1>3, <1>4 DEF Abs!Init

LEMMA AbsUnseen ==
    ASSUME Seen, live' = live, \A a \in Lists : Read(a)' = Read(a)
    PROVE  AbsStep
BY ViewSame DEF AbsStep, Abs!vars

\* The operations that insert one element, remove one or remove all.
LEMMA AbsChanges ==
    ASSUME Seen, NEW l \in live, live' = live, Changes(l)
    PROVE  AbsStep
<1>1. l \in Lists /\ l \in Owners /\ Heap /\ Lists \subseteq Owners
    BY TempOwns DEF Seen, IInv, Control
<1>2. View[l] = Read(l) /\ Read(l) \in Seq(Values) /\ Read(l)' \in Seq(Values) /\ Len(Read(l)) \in Nat
    BY <1>1, SeenReads, ReadType
<1>3. ASSUME NEW n \in Nodes, NEW v \in Values, NEW k \in Nat, PutIn(l, n, v, k) PROVE AbsStep
    <2>1. /\ k \in 0..Len(Read(l))
          /\ Inserted(Read(l), Read(l)', k, v)
          /\ \A a \in Owners \ {l} : Read(a)' = Read(a)
        BY <1>1, <1>3, PutInReads
    <2>2. Read(l)' = InsertAt(View[l], k + 1, v)
        BY <1>2, <2>1, InsertedIs
    <2>3. View' = [View EXCEPT ![l] = InsertAt(View[l], k + 1, v)]
        BY <1>1, <2>1, <2>2, ViewOne
    <2>4. Abs!Insert(l, k, v)
        BY <2>3 DEF Abs!Insert, Abs!InsertAt, InsertAt
    <2>5. k \in 0..Len(View[l])
        BY <1>2, <2>1
    <2> QED BY <1>1, <2>4, <2>5 DEF AbsStep, Abs!Next
<1>4. ASSUME NEW k \in Nat, TakenOut(l, k) PROVE AbsStep
    <2>1. /\ k \in 1..Len(Read(l))
          /\ Removed(Read(l), Read(l)', k)
          /\ \A a \in Owners \ {l} : Read(a)' = Read(a)
        BY <1>1, <1>4, TakenOutReads
    <2>2. PICK j \in 0..(Len(Read(l)) - 1) : j + 1 = k
        <3>1. k - 1 \in 0..(Len(Read(l)) - 1) /\ (k - 1) + 1 = k
            BY <1>2, <2>1
        <3> QED BY <3>1
    <2>3. Read(l)' = RemoveAt(View[l], j + 1)
        BY <1>2, <2>1, <2>2, RemovedIs
    <2>4. View' = [View EXCEPT ![l] = RemoveAt(View[l], j + 1)]
        BY <1>1, <2>1, <2>3, ViewOne
    <2>5. Abs!Erase(l, j)
        BY <2>4 DEF Abs!Erase, Abs!RemoveAt, RemoveAt
    <2>6. j \in 0..(Len(View[l]) - 1)
        BY <1>2, <2>2
    <2> QED BY <1>1, <2>5, <2>6 DEF AbsStep, Abs!Next
<1>5. CASE Emptied(l)
    <2>1. Read(l)' = <<>> /\ \A a \in Owners \ {l} : Read(a)' = Read(a)
        BY <1>1, <1>5, EmptiedReads
    <2>2. View' = [View EXCEPT ![l] = <<>>]
        BY <1>1, <2>1, ViewOne
    <2>3. Abs!Clear(l)
        BY <2>2 DEF Abs!Clear
    <2> QED BY <1>1, <2>3 DEF AbsStep, Abs!Next
<1>6. CASE UNCHANGED fields
    <2>1. \A a \in Lists : Read(a)' = Read(a)
        BY <1>1, <1>6, SameHeap
    <2> QED BY <2>1, AbsUnseen
<1> QED BY <1>3, <1>4, <1>5, <1>6 DEF Changes

\* A list is born with the values the client gave.
LEMMA AbsBorn ==
    ASSUME Seen, NEW l \in Lists, l \notin live, live' = live \cup {l},
           \A a \in Lists \ {l} : Read(a)' = Read(a)
    PROVE  AbsStep
<1>1. PICK r \in Seq(Values) : r = Read(l)'
    BY SeenReads
<1>2. View' = [View EXCEPT ![l] = r] /\ View'[l] = r
    BY <1>1, ViewOne, SeenReads
<1>3. Abs!Construct(l, View'[l])
    BY <1>2 DEF Abs!Construct
<1> QED BY <1>1, <1>2, <1>3 DEF AbsStep, Abs!Next

LEMMA AbsMoved ==
    ASSUME Seen, NEW d \in Lists, NEW s \in live, d # s, live' = live \cup {d}, Moved(d, s)
    PROVE  AbsStep
<1>1. s \in Lists /\ s \in Owners /\ d \in Owners /\ Heap /\ Lists \subseteq Owners
    BY TempOwns DEF Seen, IInv, Control
<1>2. /\ Read(d)' = Read(s) /\ Read(s)' = <<>>
      /\ \A l \in Owners \ {d, s} : Read(l)' = Read(l)
    BY <1>1, MovedReads
<1>3. View[s] = Read(s)
    BY <1>1, SeenReads
<1>4. View' = [View EXCEPT ![d] = View[s], ![s] = <<>>]
    BY <1>1, <1>2, <1>3, ViewTwo
<1>5. Abs!Move(d, s)
    BY <1>4 DEF Abs!Move
<1> QED BY <1>1, <1>5 DEF AbsStep, Abs!Next

LEMMA AbsSwapped ==
    ASSUME Seen, NEW a \in live, NEW b \in live, live' = live, Swapped(a, b)
    PROVE  AbsStep
<1>1. a \in Lists /\ b \in Lists /\ a \in Owners /\ b \in Owners /\ Heap /\ Lists \subseteq Owners
    BY TempOwns DEF Seen, IInv, Control
<1>2. /\ Read(a)' = Read(b) /\ Read(b)' = Read(a)
      /\ \A l \in Owners \ {a, b} : Read(l)' = Read(l)
    BY <1>1, SwappedReads
<1>3. View[a] = Read(a) /\ View[b] = Read(b)
    BY <1>1, SeenReads
<1>4. View' = [View EXCEPT ![a] = View[b], ![b] = View[a]]
    <2>1. CASE a # b
        BY <1>1, <1>2, <1>3, <2>1, ViewTwo
    <2>2. CASE a = b
        <3>1. \A l \in Lists : Read(l)' = Read(l)
            BY <1>1, <1>2, <2>2
        <3>2. View' = View
            BY <3>1, ViewSame
        <3>3. View = [l \in Lists |-> Read(l)]
            BY DEF Seen, ViewIsRead
        <3> QED BY <2>2, <3>2, <3>3
    <2> QED BY <2>1, <2>2
<1>5. Abs!Swap(a, b)
    BY <1>4 DEF Abs!Swap
<1> QED BY <1>1, <1>5 DEF AbsStep, Abs!Next

LEMMA AbsDestroyed ==
    ASSUME Seen, NEW l \in live, live' = live \ {l}, Emptied(l)
    PROVE  AbsStep
<1>1. l \in Lists /\ l \in Owners /\ Heap /\ Lists \subseteq Owners
    BY TempOwns DEF Seen, IInv, Control
<1>2. Read(l)' = <<>> /\ \A a \in Owners \ {l} : Read(a)' = Read(a)
    BY <1>1, EmptiedReads
<1>3. View' = [View EXCEPT ![l] = <<>>]
    BY <1>1, <1>2, ViewOne
<1>4. Abs!Destroy(l)
    BY <1>3 DEF Abs!Destroy
<1> QED BY <1>1, <1>4 DEF AbsStep, Abs!Next

\* The end of a build: a list is born with its values, or assigned a copy.
LEMMA AbsBuilt ==
    ASSUME Seen, BuildDone
    PROVE  AbsStep
<1>1. PICK d : d = op.to
    OBVIOUS
<1>2. /\ op.kind \in {"copy", "init"} /\ d \in Lists /\ live' = live \cup {d}
      /\ Read(d)' = Read(Temp)
      /\ \A a \in Lists \ {d} : Read(a)' = Read(a)
    BY <1>1, BuildDoneInv DEF Seen
<1>3. CASE op.kind = "init"
    <2>1. d \notin live
        BY <1>1, <1>3, AtInit DEF Seen, IInv
    <2> QED BY <1>2, <2>1, AbsBorn
<1>4. CASE op.kind = "copy"
    <2>1. PICK e \in Lists, s \in live, p \in Nodes \cup {Null} :
              op = [kind |-> "copy", to |-> e, from |-> s, at |-> p] /\ Copied(s, p)
        BY <1>4, AtCopy DEF Seen, IInv
    <2>2. p = Null
        BY <1>4, <2>1 DEF BuildDone, LastElement
    <2>3. s \in Lists /\ s \in Owners /\ Temp \in Owners /\ Heap
        BY TempOwns DEF Seen, IInv, Control
    <2> DEFINE m == Len(chain[Temp])
               k == Len(chain[s])
    <2>4. /\ Read(s) \in Seq(Values) /\ Len(Read(s)) = k /\ k \in Nat
          /\ Read(Temp) \in Seq(Values) /\ Len(Read(Temp)) = m /\ m \in Nat
        BY <2>3, ReadType
    <2>5. /\ m <= k /\ \A i \in 1..m : Read(Temp)[i] = Read(s)[i]
          /\ p = IF m = k THEN Null ELSE chain[s][m + 1]
        BY <2>1 DEF Copied
    <2>6. \A i \in 1..k : chain[s][i] # Null
        BY <2>3, Fields
    <2> HIDE DEF m, k
    <2>7. m = k
        <3>1. m # k => m + 1 \in 1..k
            BY <2>4, <2>5
        <3> QED BY <2>2, <2>5, <2>6, <3>1
    <2>8. Read(Temp) = Read(s)
        BY <2>4, <2>5, <2>7, SameSequence
    <2>9. View[s] = Read(s)
        BY <2>3, SeenReads
    <2>10. View' = [View EXCEPT ![d] = View[s]]
        BY <1>2, <2>8, <2>9, ViewOne
    <2>11. Abs!Copy(d, s)
        BY <1>2, <2>10 DEF Abs!Copy
    <2> QED BY <1>2, <2>3, <2>11 DEF AbsStep, Abs!Next
<1> QED BY <1>2, <1>3, <1>4

LEMMA StepAbs == Seen /\ [Next]_vars => AbsStep
<1> SUFFICES ASSUME Seen, [Next]_vars PROVE AbsStep
    OBVIOUS
<1>1. IInv /\ Heap /\ live \subseteq Lists /\ Lists \subseteq Owners /\ Lists \subseteq Owners \ {Temp}
    BY TempOwns DEF Seen, IInv, Control
<1>2. ASSUME UNCHANGED <<live, fields>> PROVE AbsStep
    <2>1. \A a \in Lists : Read(a)' = Read(a)
        BY <1>1, <1>2, SameHeap
    <2> QED BY <1>2, <2>1, AbsUnseen
<1>3. CASE UNCHANGED vars
    BY <1>2, <1>3 DEF vars, fields
<1>4. ASSUME NEW l \in Lists, Construct(l) PROVE AbsStep
    <2>1. l \notin live /\ live' = live \cup {l} /\ UNCHANGED fields
        BY <1>4 DEF Construct
    <2>2. \A a \in Lists : Read(a)' = Read(a)
        BY <1>1, <2>1, SameHeap
    <2> QED BY <2>1, <2>2, AbsBorn
<1>5. ASSUME NEW l \in Lists, Destroy(l) PROVE AbsStep
    BY <1>1, <1>5, DestroyInv, AbsDestroyed DEF Destroy, Ready
<1>6. ASSUME NEW l \in Lists, Modify(l) PROVE AbsStep
    BY <1>1, <1>6, ModifyChanges, AbsChanges DEF Modify, Ready
<1>7. ASSUME NEW l \in Lists, NEW n \in Nodes, NEW v \in Values, ConstructValue(l, n, v) PROVE AbsStep
    <2>1. l \notin live /\ live' = live \cup {l}
        BY <1>7 DEF ConstructValue
    <2>2. PutIn(l, n, v, 0)
        BY <1>1, <1>7, ConstructValueInv
    <2>3. \A a \in Lists \ {l} : Read(a)' = Read(a)
        BY <1>1, <2>2, PutInReads
    <2> QED BY <2>1, <2>3, AbsBorn
<1>8. ASSUME NEW d \in Lists, NEW s \in Lists, MoveConstruct(d, s) PROVE AbsStep
    BY <1>1, <1>8, MoveConstructInv, AbsMoved DEF MoveConstruct, Ready
<1>9. ASSUME NEW d \in Lists, NEW s \in Lists, MoveAssign(d, s) PROVE AbsStep
    <2>1. d \in live /\ s \in live /\ live' = live /\ live' = live \cup {d}
        BY <1>9 DEF MoveAssign, Ready
    <2>2. CASE d = s
        BY <1>1, <1>2, <1>9, <2>1, <2>2, MoveAssignInv
    <2>3. CASE d # s
        BY <1>1, <1>9, <2>1, <2>3, MoveAssignInv, AbsMoved
    <2> QED BY <2>2, <2>3
<1>10. ASSUME NEW a \in Lists, NEW b \in Lists, Swap(a, b) PROVE AbsStep
    BY <1>1, <1>10, SwapInv, AbsSwapped DEF Swap, Ready
<1>11. ASSUME NEW d \in Lists, NEW s \in Lists, BeginCopy(d, s) PROVE AbsStep
    BY <1>2, <1>11 DEF BeginCopy
<1>12. ASSUME NEW d \in Lists, NEW vs \in SeqOf(Values, MaxInit), BeginInit(d, vs) PROVE AbsStep
    BY <1>2, <1>12 DEF BeginInit
<1>13. ASSUME NEW l \in Lists, NEW first \in Lists \cup Nodes, NEW last \in Nodes \cup {Null},
              BeginErase(l, first, last)
       PROVE  AbsStep
    BY <1>2, <1>13 DEF BeginErase
<1>14. ASSUME NEW n \in Nodes, CopyElement(n) \/ InitElement(n) PROVE AbsStep
    <2>1. live' = live /\ \A a \in Owners \ {Temp} : Read(a)' = Read(a)
        BY <1>1, <1>14, CopyElementInv, InitElementInv
    <2> QED BY <1>1, <2>1, AbsUnseen
<1>15. CASE BuildDone
    BY <1>15, AbsBuilt
<1>16. CASE BuildThrow
    BY <1>1, <1>16, BuildThrowInv, AbsUnseen
<1>17. CASE EraseStep
    BY <1>1, <1>17, EraseStepInv, AbsChanges
<1> QED
    BY <1>3, <1>4, <1>5, <1>6, <1>7, <1>8, <1>9, <1>10, <1>11, <1>12, <1>13, <1>14, <1>15, <1>16, <1>17
    DEF Next, LoopStep

\* Read from m_head to null, the lists behave as sequences, copies that throw
\* and the steps inside a loop being invisible (slist.hpp:225-513).
THEOREM Refinement == Spec => ImplementsSequence
<1>1. Seen /\ [Next]_vars => [Abs!Next]_(Abs!vars)
    BY StepAbs DEF AbsStep
<1> QED BY <1>1, InitAbs, ViewInv, HeapIsWell, PTL DEF Spec, Seen, ImplementsSequence, Abs!Spec

-----------------------------------------------------------------------------
(***************************************************************************)
(* What operator<< writes.                                                 *)
(***************************************************************************)

\* f joins the pieces of s from the first on.
Joins(f, n, s) ==
    f = [i \in 1..n |-> IF i = 1 THEN s[i] ELSE f[i - 1] \o s[i]]

\* There is one way to join them.
LEMMA OneJoin ==
    ASSUME NEW n \in Nat, NEW s, NEW f, NEW g, Joins(f, n, s), Joins(g, n, s)
    PROVE  f = g
<1> DEFINE Differ == {k \in 1..n : f[k] # g[k]}
<1>1. Differ = {}
    <2> SUFFICES ASSUME Differ # {} PROVE FALSE
        OBVIOUS
    <2>1. Differ \subseteq Nat
        OBVIOUS
    <2>2. PICK x \in Differ : \A y \in Differ : <<y, x>> \notin OpToRel(<, Nat)
        BY <2>1, WFMin, NatLessThanWellFounded
    <2>3. \A y \in Differ : ~(y < x)
        BY <2>1, <2>2 DEF OpToRel
    <2>4. x # 1
        BY DEF Joins
    <2>5. x - 1 \in 1..n /\ x - 1 \notin Differ
        BY <2>3, <2>4
    <2>6. f[x - 1] = g[x - 1]
        BY <2>5
    <2>7. f[x] = f[x - 1] \o s[x]
        BY <2>4 DEF Joins
    <2>8. g[x] = g[x - 1] \o s[x]
        BY <2>4 DEF Joins
    <2> QED BY <2>6, <2>7, <2>8
<1>2. DOMAIN f = 1..n /\ DOMAIN g = 1..n /\ f = [k \in 1..n |-> f[k]] /\ g = [k \in 1..n |-> g[k]]
    BY DEF Joins
<1> QED BY <1>1, <1>2

LEMMA JoinIs ==
    ASSUME NEW n \in Nat, n # 0, NEW s, Len(s) = n, NEW f, Joins(f, n, s)
    PROVE  FlattenSeq(s) = f[n]
<1> DEFINE join == CHOOSE g : Joins(g, n, s)
<1>1. FlattenSeq(s) = join[n]
    BY DEF FlattenSeq, Joins
<1>2. Joins(join, n, s)
    OBVIOUS
<1> HIDE DEF join
<1> QED BY <1>1, <1>2, OneJoin

\* The first m pieces of text: values and separators in turn.
Woven(c, m) == [j \in 1..m |-> IF j % 2 = 1 THEN c[(j + 1) \div 2] ELSE ", "]

Texts == Values \cup {", "}

LEMMA OneText ==
    ASSUME NEW S, NEW a \in S
    PROVE  <<a>> \in Seq(S) /\ Len(<<a>>) = 1 /\ <<a>>[1] = a
OBVIOUS

LEMMA TwoTexts ==
    ASSUME NEW S, NEW a \in S, NEW b \in S
    PROVE  <<a, b>> \in Seq(S) /\ Len(<<a, b>>) = 2 /\ <<a, b>>[1] = a /\ <<a, b>>[2] = b
OBVIOUS

LEMMA TwoParts ==
    ASSUME NEW S, NEW a \in Seq(S), NEW b \in Seq(S), NEW m, Len(a) = m, NEW n, Len(a) + Len(b) = n
    PROVE  /\ a \o b \in Seq(S) /\ Len(a \o b) = n
           /\ \A i \in 1..n : (a \o b)[i] = IF i <= m THEN a[i] ELSE b[i - m]
BY ConcatProperties

LEMMA Halves ==
    ASSUME NEW k \in Nat
    PROVE  /\ (2 * k) % 2 = 0 /\ (2 * k + 1) % 2 = 1
           /\ ((2 * k + 1) + 1) \div 2 = k + 1
OBVIOUS

LEMMA HalfIn ==
    ASSUME NEW n \in Nat, NEW m \in Nat, m <= 2 * n, NEW j \in 1..m
    PROVE  (j + 1) \div 2 \in 1..n
OBVIOUS

LEMMA WovenType ==
    ASSUME NEW c \in Seq(Values), NEW m \in Nat, m <= 2 * Len(c)
    PROVE  /\ Woven(c, m) \in Seq(Texts) /\ Len(Woven(c, m)) = m
           /\ \A j \in 1..m : Woven(c, m)[j] = IF j % 2 = 1 THEN c[(j + 1) \div 2] ELSE ", "
<1> DEFINE n == Len(c)
<1>1. n \in Nat
    BY LenProperties
<1>2. \A i \in 1..n : c[i] \in Values
    BY ElementOfSeq
<1> HIDE DEF n
<1>3. \A j \in 1..m : (j + 1) \div 2 \in 1..n
    BY <1>1, HalfIn DEF n
<1>4. Woven(c, m) \in [1..m -> Texts]
    BY <1>2, <1>3 DEF Woven, Texts
<1>5. Woven(c, m) \in Seq(Texts) /\ Len(Woven(c, m)) = m
    BY <1>4
<1> QED BY <1>5 DEF Woven

\* One more value, with or without a separator behind it.
LEMMA WovenMore ==
    ASSUME NEW c \in Seq(Values), NEW k \in Nat, k < Len(c)
    PROVE  /\ Woven(c, 2 * k) \o <<c[k + 1], ", ">> = Woven(c, 2 * (k + 1))
           /\ Woven(c, 2 * k) \o <<c[k + 1]>> = Woven(c, 2 * k + 1)
<1> DEFINE m == 2 * k
           w == Woven(c, m)
           v == c[k + 1]
<1>1. Len(c) \in Nat /\ m \in Nat /\ k + 1 \in 1..Len(c)
    BY LenProperties
<1>2. v \in Texts /\ ", " \in Texts
    BY <1>1, ElementOfSeq DEF Texts
<1>3. /\ m <= 2 * Len(c) /\ m + 2 <= 2 * Len(c) /\ m + 1 <= 2 * Len(c)
      /\ m + 1 \in Nat /\ m + 2 \in Nat
      /\ 2 * (k + 1) = m + 2 /\ m % 2 = 0
      /\ (m + 1) % 2 = 1 /\ ((m + 1) + 1) \div 2 = k + 1 /\ (m + 2) % 2 = 0
    BY <1>1, Halves
<1> HIDE DEF m, v
<1>4. /\ w \in Seq(Texts) /\ Len(w) = m
      /\ \A j \in 1..m : w[j] = IF j % 2 = 1 THEN c[(j + 1) \div 2] ELSE ", "
    BY <1>1, <1>3, WovenType
<1>5. /\ Woven(c, m + 2) \in Seq(Texts) /\ Len(Woven(c, m + 2)) = m + 2
      /\ \A j \in 1..(m + 2) : Woven(c, m + 2)[j] = IF j % 2 = 1 THEN c[(j + 1) \div 2] ELSE ", "
    BY <1>1, <1>3, WovenType
<1>6. /\ Woven(c, m + 1) \in Seq(Texts) /\ Len(Woven(c, m + 1)) = m + 1
      /\ \A j \in 1..(m + 1) : Woven(c, m + 1)[j] = IF j % 2 = 1 THEN c[(j + 1) \div 2] ELSE ", "
    BY <1>1, <1>3, WovenType
<1> HIDE DEF w
<1> DEFINE x == <<v, ", ">>
           y == <<v>>
<1>7. x \in Seq(Texts) /\ Len(x) = 2 /\ x[1] = v /\ x[2] = ", "
    BY <1>2, TwoTexts
<1>8. y \in Seq(Texts) /\ Len(y) = 1 /\ y[1] = v
    BY <1>2, OneText
<1> HIDE DEF x, y
<1>9. w \o x = Woven(c, m + 2)
    <2>0. Len(w) + Len(x) = m + 2
        BY <1>4, <1>7
    <2>1. /\ w \o x \in Seq(Texts) /\ Len(w \o x) = m + 2
          /\ \A j \in 1..(m + 2) : (w \o x)[j] = IF j <= m THEN w[j] ELSE x[j - m]
        <3>1. x \in Seq(Texts) /\ w \in Seq(Texts)
            BY <1>4, <1>7
        <3>2. Len(w) = m
            BY <1>4
        <3> QED BY <2>0, <3>1, <3>2, TwoParts
    <2>2. ASSUME NEW j \in 1..(m + 2) PROVE (w \o x)[j] = Woven(c, m + 2)[j]
        <3>1. CASE j <= m
            <4>1. j \in 1..m
                BY <1>1, <3>1
            <4> QED BY <1>4, <1>5, <2>1, <3>1, <4>1
        <3>2. CASE j = m + 1
            <4>1. ~(j <= m) /\ j - m = 1
                BY <1>1, <3>2
            <4> QED BY <1>3, <1>5, <1>7, <2>1, <3>2, <4>1 DEF v
        <3>3. CASE j = m + 2
            <4>1. ~(j <= m) /\ j - m = 2 /\ j % 2 # 1
                BY <1>1, <1>3, <3>3
            <4> QED BY <1>3, <1>5, <1>7, <2>1, <3>3, <4>1
        <3>4. j <= m \/ j = m + 1 \/ j = m + 2
            BY <1>1
        <3> QED BY <3>1, <3>2, <3>3, <3>4
    <2> QED BY <1>5, <2>1, <2>2, SameSequence
<1>10. w \o y = Woven(c, m + 1)
    <2>0. Len(w) + Len(y) = m + 1
        BY <1>4, <1>8
    <2>1. /\ w \o y \in Seq(Texts) /\ Len(w \o y) = m + 1
          /\ \A j \in 1..(m + 1) : (w \o y)[j] = IF j <= m THEN w[j] ELSE y[j - m]
        <3>1. y \in Seq(Texts) /\ w \in Seq(Texts)
            BY <1>4, <1>8
        <3>2. Len(w) = m
            BY <1>4
        <3> QED BY <2>0, <3>1, <3>2, TwoParts
    <2>2. ASSUME NEW j \in 1..(m + 1) PROVE (w \o y)[j] = Woven(c, m + 1)[j]
        <3>1. CASE j <= m
            <4>1. j \in 1..m
                BY <1>1, <3>1
            <4> QED BY <1>4, <1>6, <2>1, <3>1, <4>1
        <3>2. CASE j = m + 1
            <4>1. ~(j <= m) /\ j - m = 1
                BY <1>1, <3>2
            <4> QED BY <1>3, <1>6, <1>8, <2>1, <3>2, <4>1 DEF v
        <3>3. j <= m \/ j = m + 1
            BY <1>1
        <3> QED BY <3>1, <3>2, <3>3
    <2> QED BY <1>6, <2>1, <2>2, SameSequence
<1> QED BY <1>3, <1>9, <1>10 DEF w, x, y, m, v

\* A value at either end of the line: nothing stands before the first.
LEMMA WovenNone ==
    ASSUME NEW c, NEW t \in Seq(Texts)
    PROVE  Woven(c, 0) \o t = t
<1>1. Woven(c, 0) = <<>>
    BY DEF Woven
<1> QED BY <1>1, ConcatEmptySeq

LEMMA FirstPlace ==
    ASSUME NEW n \in Nat, n # 0
    PROVE  1 \in 1..n /\ n \in 1..n /\ 2 * (1 - 1) = 0
           /\ 2 * n - 1 \in Nat /\ 2 * n - 1 <= 2 * n
OBVIOUS

LEMMA BeforeIt ==
    ASSUME NEW n \in Nat, NEW i \in 1..n
    PROVE  /\ i - 1 \in Nat /\ i - 1 < n /\ (i - 1) + 1 = i
           /\ 2 * (i - 1) + 1 = 2 * i - 1
           /\ i # 1 => i - 1 \in 1..n /\ i - 1 # n
OBVIOUS

\* The pieces written for the elements, joined, are the elements and the
\* separators between them.
LEMMA PiecesJoin ==
    ASSUME NEW c \in Seq(Values), NEW n \in Nat, n # 0, Len(c) = n, NEW s, Len(s) = n,
           \A i \in 1..n : i # n => s[i] = <<c[i], ", ">>, s[n] = <<c[n]>>
    PROVE  FlattenSeq(s) = Woven(c, 2 * n - 1)
<1> DEFINE upto(i) == IF i = n THEN 2 * n - 1 ELSE 2 * i
           g == [i \in 1..n |-> Woven(c, upto(i))]
<1>1. ASSUME NEW i \in 1..n PROVE g[i] = Woven(c, 2 * (i - 1)) \o s[i]
    <2>1. i - 1 \in Nat /\ i - 1 < n /\ (i - 1) + 1 = i /\ 2 * (i - 1) + 1 = 2 * i - 1
        BY BeforeIt
    <2>2. /\ Woven(c, 2 * (i - 1)) \o <<c[i], ", ">> = Woven(c, 2 * i)
          /\ Woven(c, 2 * (i - 1)) \o <<c[i]>> = Woven(c, 2 * (i - 1) + 1)
        BY <2>1, WovenMore
    <2>3. CASE i = n
        <3>1. g[i] = Woven(c, 2 * i - 1) /\ s[i] = <<c[i]>>
            BY <2>3
        <3> QED BY <2>1, <2>2, <3>1
    <2>4. CASE i # n
        BY <2>2, <2>4
    <2> QED BY <2>3, <2>4
<1>2. ASSUME NEW i \in 1..n, i # 1 PROVE g[i] = g[i - 1] \o s[i]
    <2>1. i - 1 \in 1..n /\ i - 1 # n
        BY <1>2, BeforeIt
    <2>2. g[i - 1] = Woven(c, 2 * (i - 1))
        BY <2>1
    <2> QED BY <1>1, <2>2
<1>3. g[1] = s[1]
    <2>1. 1 \in 1..n /\ 2 * (1 - 1) = 0
        BY FirstPlace
    <2>2. g[1] = Woven(c, 0) \o s[1]
        BY <1>1, <2>1
    <2>3. s[1] \in Seq(Texts)
        <3>1. c[1] \in Texts /\ ", " \in Texts
            BY <2>1, ElementOfSeq DEF Texts
        <3>2. CASE n = 1
            <4>1. s[1] = <<c[1]>>
                BY <3>2
            <4> QED BY <3>1, <4>1, OneText
        <3>3. CASE n # 1
            <4>1. s[1] = <<c[1], ", ">>
                BY <2>1, <3>3
            <4>2. <<c[1], ", ">> \in Seq(Texts)
                BY <3>1, TwoTexts
            <4> QED BY <4>1, <4>2
        <3> QED BY <3>2, <3>3
    <2> QED BY <2>2, <2>3, WovenNone
<1>4. Joins(g, n, s)
    <2>1. \A i \in 1..n : g[i] = IF i = 1 THEN s[i] ELSE g[i - 1] \o s[i]
        BY <1>2, <1>3
    <2>2. g = [i \in 1..n |-> g[i]]
        OBVIOUS
    <2> HIDE DEF g
    <2> QED BY <2>1, <2>2 DEF Joins
<1>5. g[n] = Woven(c, 2 * n - 1)
    BY FirstPlace
<1> HIDE DEF g
<1> QED BY <1>4, <1>5, JoinIs

LEMMA NothingJoins == FlattenSeq(<<>>) = <<>>
BY DEF FlattenSeq

LEMMA StreamInv == IInv => StreamIsContents
<1> SUFFICES ASSUME IInv, NEW l \in live
             PROVE  /\ Len(Streamed(l)) = IF Contents(l) = <<>> THEN 0 ELSE 2 * Len(Contents(l)) - 1
                    /\ \A i \in DOMAIN Streamed(l) :
                          Streamed(l)[i] = IF i % 2 = 1 THEN Contents(l)[(i + 1) \div 2] ELSE ", "
    BY DEF StreamIsContents
<1>1. Heap /\ l \in Owners
    BY TempOwns DEF IInv, Control
<1>2. Walk(l) = chain[l] /\ Contents(l) = Read(l)
    BY <1>1, ContentsRead DEF ChainIsRead
<1> DEFINE c == Read(l)
           q == chain[l]
           n == Len(q)
           t == tail[l]
           s == [i \in DOMAIN q |-> IF q[i] # t THEN <<c[i], ", ">> ELSE <<c[i]>>]
<1>3. c \in Seq(Values) /\ Len(c) = n /\ n \in Nat /\ DOMAIN q = 1..n
    BY <1>1, Fields, ReadType, LenProperties
<1>4. Streamed(l) = FlattenSeq(s)
    BY <1>2 DEF Streamed
<1>5. n # 0 => n \in 1..n /\ \A i \in 1..n : q[i] = t <=> i = n
    <2>1. q \in Seq(Nodes) /\ (n # 0 => t = q[n]) /\ IsInjective(q)
        BY <1>1, Fields DEF Heap, Well, Owned
    <2> QED BY <1>3, <2>1, FirstPlace DEF IsInjective
<1> HIDE DEF c
<1>6. CASE n = 0
    <2>1. c = <<>> /\ s = <<>>
        BY <1>3, <1>6, EmptySeq
    <2>2. Streamed(l) = <<>>
        BY <1>4, <2>1, NothingJoins
    <2>3. Len(Streamed(l)) = 0 /\ DOMAIN Streamed(l) = {}
        BY <2>2
    <2> QED BY <1>2, <2>1, <2>3 DEF c
<1>7. CASE n # 0
    <2>1. \A i \in 1..n : i # n => s[i] = <<c[i], ", ">>
        BY <1>3, <1>5, <1>7
    <2>2. s[n] = <<c[n]>>
        BY <1>3, <1>5, <1>7
    <2>3. Len(s) = n
        BY <1>3
    <2> HIDE DEF s, n
    <2> DEFINE m == 2 * n - 1
    <2>4. Streamed(l) = Woven(c, m)
        BY <1>3, <1>4, <1>7, <2>1, <2>2, <2>3, PiecesJoin
    <2>5. m \in Nat /\ m <= 2 * Len(c)
        BY <1>3, <1>7
    <2> HIDE DEF m
    <2>6. /\ Len(Streamed(l)) = m /\ Streamed(l) \in Seq(Texts)
          /\ \A j \in 1..m : Streamed(l)[j] = IF j % 2 = 1 THEN c[(j + 1) \div 2] ELSE ", "
        <3>1. /\ Woven(c, m) \in Seq(Texts) /\ Len(Woven(c, m)) = m
              /\ \A j \in 1..m : Woven(c, m)[j] = IF j % 2 = 1 THEN c[(j + 1) \div 2] ELSE ", "
            BY <1>3, <2>5, WovenType
        <3> QED BY <2>4, <3>1
    <2>7. c # <<>>
        BY <1>3, <1>7, EmptySeq
    <2>8. DOMAIN Streamed(l) = 1..m
        BY <2>6, LenProperties
    <2>9. m = 2 * Len(c) - 1
        BY <1>3 DEF m
    <2> QED BY <1>2, <2>6, <2>7, <2>8, <2>9 DEF c
<1> QED BY <1>6, <1>7

\* What operator== and operator<< compute from a list is its contents
\* (slist.hpp:127-170).
THEOREM ReadersHold == Spec => []ReadersAgree
<1>1. IInv => ReadersAgree
    BY EqualityInv, StreamInv DEF ReadersAgree
<1> QED BY <1>1, HeapIsWell, PTL
=============================================================================
