------------------------- MODULE SocketHandleProofs -------------------------
(***************************************************************************)
(* Proofs about SocketHandle for any sets of objects, descriptors and      *)
(* threads. None of HeldIsOpen, SingleOwner and NoLeak is inductive alone: *)
(* a close in progress must be known to have emptied the object's field    *)
(* (CallInv), or its last step could overwrite a descriptor the object had *)
(* obtained in the meantime.                                               *)
(***************************************************************************)
EXTENDS SocketHandle, TLAPS

\* What the calls in progress know: the object is alive, its field is empty,
\* no other thread is inside a call on it, and the number being closed is a
\* real one (socket_handle.hpp:87-109).
CallInv ==
    /\ \A t \in Threads : ~IsIdle(t) =>
          /\ call[t].object \in alive
          /\ m_handle[call[t].object] = InvalidHandle
          /\ call[t].closing \in Natives
          /\ call[t].ends => call[t].adopt = InvalidHandle
    /\ \A t1, t2 \in Threads :
          ~IsIdle(t1) /\ call[t1].object = call[t2].object => t1 = t2

Inv == TypeOK /\ CallInv /\ HeldIsOpen /\ SingleOwner /\ NoLeak

-----------------------------------------------------------------------------
\* The operator shared by Reset, move assignment and Close keeps the types.
LEMMA CloseThenAdoptType ==
    ASSUME NEW t \in Threads, NEW o \in Objects,
           NEW fields \in [Objects -> NativeHandle], NEW adopt \in NativeHandle,
           call \in [Threads -> Calls],
           CloseThenAdopt(t, o, fields, adopt)
    PROVE  /\ m_handle' \in [Objects -> NativeHandle]
           /\ call' \in [Threads -> Calls]
<1>1. CASE fields[o] = InvalidHandle /\ m_handle' = [fields EXCEPT ![o] = adopt] /\ UNCHANGED call
    BY <1>1
<1>2. CASE /\ m_handle' = [fields EXCEPT ![o] = InvalidHandle]
           /\ call' = [call EXCEPT ![t] = [object |-> o, closing |-> fields[o],
                                           adopt |-> adopt, ends |-> FALSE]]
    BY <1>2 DEF Calls, NativeHandle
<1> QED BY <1>1, <1>2 DEF CloseThenAdopt

\* Same for Reset's body, which may also do nothing.
LEMMA ResetToType ==
    ASSUME NEW t \in Threads, NEW o \in Objects,
           NEW fields \in [Objects -> NativeHandle], NEW handle \in NativeHandle,
           call \in [Threads -> Calls],
           ResetTo(t, o, fields, handle)
    PROVE  /\ m_handle' \in [Objects -> NativeHandle]
           /\ call' \in [Threads -> Calls]
BY CloseThenAdoptType DEF ResetTo

\* Every operation of socket_handle.hpp keeps the types.
LEMMA TypeStep == TypeOK /\ [Next]_vars => TypeOK'
<1> SUFFICES ASSUME TypeOK, [Next]_vars PROVE TypeOK'
    OBVIOUS
<1> USE DEF TypeOK, NativeHandle
<1>1. CASE \E n \in Natives : OpenNative(n) \/ CloseRaw(n)
    BY <1>1 DEF OpenNative, CloseRaw
<1>2. CASE \E o \in Objects : Default(o) \/ Release(o)
    BY <1>2 DEF Default, Release, Released, IsValid
<1>3. CASE \E o \in Objects, n \in Natives : FromNative(o, n)
    BY <1>3 DEF FromNative
<1>4. CASE \E d, s \in Objects : MoveConstruct(d, s) \/ Swap(d, s)
    BY <1>4 DEF MoveConstruct, Swap, Released
<1>5. CASE \E t \in Threads, o \in Objects : Close(t, o) \/ Destroy(t, o)
    <2>1. ASSUME NEW t \in Threads, NEW o \in Objects, Close(t, o) PROVE TypeOK'
        BY <2>1, CloseThenAdoptType DEF Close
    <2>2. ASSUME NEW t \in Threads, NEW o \in Objects, Destroy(t, o) PROVE TypeOK'
        <3>1. [object |-> o, closing |-> m_handle[o],
               adopt |-> InvalidHandle, ends |-> TRUE] \in Calls
            BY DEF Calls
        <3> QED BY <2>2, <3>1 DEF Destroy
    <2> QED BY <1>5, <2>1, <2>2
<1>6. CASE \E t \in Threads, o \in Objects, n \in NativeHandle : Reset(t, o, n)
    BY <1>6, ResetToType DEF Reset
<1>7. CASE \E t \in Threads, d, s \in Objects : MoveAssign(t, d, s)
    BY <1>7, ResetToType DEF MoveAssign, Released
<1>8. CASE \E t \in Threads : CloseNative(t)
    <2> SUFFICES ASSUME NEW t \in Threads, CloseNative(t) PROVE TypeOK'
        BY <1>8
    <2>1. call[t] \in Calls
        OBVIOUS
    <2>2. Idle \in Calls
        BY DEF Idle, Calls
    <2> QED BY <2>1, <2>2 DEF CloseNative, Calls
<1>9. CASE UNCHANGED vars
    BY <1>9 DEF vars
<1> QED BY <1>1, <1>2, <1>3, <1>4, <1>5, <1>6, <1>7, <1>8, <1>9 DEF Next

\* Type correctness of every reachable state (all of socket_handle.hpp).
THEOREM TypeCorrect == Spec => []TypeOK
<1>1. Init => TypeOK
    BY DEF Init, TypeOK, Idle, Calls, NativeHandle
<1> QED BY <1>1, TypeStep, PTL DEF Spec

-----------------------------------------------------------------------------
\* The ownership part of the invariant, and the state it speaks of.
Ownership == CallInv /\ HeldIsOpen /\ SingleOwner /\ NoLeak

\* Thread t begins call c on object o (the exchange of socket_handle.hpp:103):
\* o's field is emptied, what it held and what it will hold move into c, and
\* every other descriptor keeps an owner.
Starts(t, o, c) ==
    /\ IsIdle(t) /\ Usable(o)
    /\ c.object = o /\ c.closing \in Natives /\ c.closing # c.adopt
    /\ c.ends => c.adopt = InvalidHandle
    /\ call' = [call EXCEPT ![t] = c]
    /\ m_handle'[o] = InvalidHandle
    /\ UNCHANGED <<alive, open>>
    /\ raw' \subseteq raw
    /\ \A x \in Objects : Busy(x) => m_handle'[x] = m_handle[x]
    /\ \A n \in Natives, x \in Objects : x \in alive /\ m_handle'[x] = n =>
          m_handle[x] = n /\ n # c.closing /\ n # c.adopt
    /\ \A n \in Natives : n \in {c.closing, c.adopt} =>
          (n \in raw \/ \E x \in Objects : ObjectHolds(x, n)) /\ n \notin raw'
    /\ \A n \in Natives : (n \in raw \/ \E x \in Objects : ObjectHolds(x, n)) =>
          \/ n \in raw' \/ n \in {c.closing, c.adopt}
          \/ \E x \in Objects : x \in alive /\ m_handle'[x] = n

\* Beginning a call preserves the ownership invariant.
LEMMA CallStarts ==
    ASSUME Inv, TypeOK', NEW t \in Threads, NEW o \in Objects, NEW c \in Calls,
           Starts(t, o, c)
    PROVE  Ownership'
<1> USE HandleAssumption DEF Inv, TypeOK, NativeHandle, Calls, Starts
<1>1. /\ call'[t] = c
      /\ \A u \in Threads : u # t => call'[u] = call[u]
    OBVIOUS
<1>2. CallInv'
    BY <1>1 DEF CallInv, IsIdle, Usable, Busy
<1>3. HeldIsOpen'
    BY <1>1 DEF HeldIsOpen, ObjectHolds, CallHolds, IsIdle
<1>4. SingleOwner'
    BY <1>1 DEF SingleOwner, ObjectHolds, CallHolds, IsIdle
<1>5. NoLeak'
    BY <1>1 DEF NoLeak, ObjectHolds, CallHolds, IsIdle
<1> QED BY <1>2, <1>3, <1>4, <1>5 DEF Ownership

\* Ownership is preserved: the exchange of m_handle before every native close
\* (socket_handle.hpp:103), Release() in both moves (:43, :51) and the
\* same-handle test of Reset (:89) together.
LEMMA OwnershipStep == Inv /\ [Next]_vars /\ TypeOK' => Ownership'
<1> SUFFICES ASSUME Inv, [Next]_vars, TypeOK' PROVE Ownership'
    OBVIOUS
<1> USE HandleAssumption DEF Inv, TypeOK, NativeHandle
<1>1. ASSUME NEW n \in Natives, OpenNative(n) PROVE Ownership'
    BY <1>1 DEF OpenNative, Ownership, CallInv, HeldIsOpen, SingleOwner, NoLeak,
                ObjectHolds, CallHolds, IsIdle
<1>2. ASSUME NEW n \in Natives, CloseRaw(n) PROVE Ownership'
    BY <1>2 DEF CloseRaw, Ownership, CallInv, HeldIsOpen, SingleOwner, NoLeak,
                ObjectHolds, CallHolds, IsIdle
<1>3. ASSUME NEW o \in Objects, Default(o) PROVE Ownership'
    BY <1>3 DEF Default, Ownership, CallInv, HeldIsOpen, SingleOwner, NoLeak,
                ObjectHolds, CallHolds, IsIdle
<1>4. ASSUME NEW o \in Objects, NEW n \in Natives, FromNative(o, n) PROVE Ownership'
    BY <1>4 DEF FromNative, Ownership, CallInv, HeldIsOpen, SingleOwner, NoLeak,
                ObjectHolds, CallHolds, IsIdle
<1>5. ASSUME NEW o \in Objects, Release(o) PROVE Ownership'
    BY <1>5 DEF Release, Released, Usable, Busy, IsValid, Ownership, CallInv, HeldIsOpen,
                SingleOwner, NoLeak, ObjectHolds, CallHolds, IsIdle
<1>6. ASSUME NEW d \in Objects, NEW s \in Objects, MoveConstruct(d, s) PROVE Ownership'
    BY <1>6 DEF MoveConstruct, Released, Usable, Busy, IsValid, Ownership, CallInv,
                HeldIsOpen, SingleOwner, NoLeak, ObjectHolds, CallHolds, IsIdle
<1>7. ASSUME NEW a \in Objects, NEW b \in Objects, Swap(a, b) PROVE Ownership'
    BY <1>7 DEF Swap, Usable, Busy, Ownership, CallInv,
                HeldIsOpen, SingleOwner, NoLeak, ObjectHolds, CallHolds, IsIdle
<1>8. ASSUME NEW t \in Threads, CloseNative(t) PROVE Ownership'
    BY <1>8 DEF CloseNative, Idle, Ownership, CallInv,
                HeldIsOpen, SingleOwner, NoLeak, ObjectHolds, CallHolds, IsIdle, Calls
<1>9. ASSUME NEW t \in Threads, NEW o \in Objects, Close(t, o) PROVE Ownership'
    <2>1. CASE m_handle[o] = InvalidHandle
        BY <1>9, <2>1 DEF Close, CloseThenAdopt, Ownership, CallInv, HeldIsOpen,
                          SingleOwner, NoLeak, ObjectHolds, CallHolds, IsIdle
    <2>2. CASE m_handle[o] # InvalidHandle
        <3> DEFINE c == [object |-> o, closing |-> m_handle[o],
                         adopt |-> InvalidHandle, ends |-> FALSE]
        <3>1. c \in Calls
            BY DEF Calls
        <3>2. /\ IsIdle(t) /\ Usable(o)
              /\ call' = [call EXCEPT ![t] = c]
              /\ m_handle' = [m_handle EXCEPT ![o] = InvalidHandle]
              /\ UNCHANGED <<alive, open, raw>>
            BY <1>9, <2>2 DEF Close, CloseThenAdopt
        <3>3. \A x \in Objects : Busy(x) => m_handle'[x] = m_handle[x]
            BY <3>2 DEF Usable
        <3>4. \A n \in Natives, x \in Objects :
                  x \in alive /\ m_handle'[x] = n =>
                      m_handle[x] = n /\ n # c.closing /\ n # c.adopt
            BY <2>2, <3>2 DEF Usable, SingleOwner, ObjectHolds
        <3>5. \A n \in Natives : n \in {c.closing, c.adopt} =>
                  (n \in raw \/ \E x \in Objects : ObjectHolds(x, n)) /\ n \notin raw'
            BY <2>2, <3>2 DEF Usable, SingleOwner, ObjectHolds
        <3>6. \A n \in Natives :
                  (n \in raw \/ \E x \in Objects : ObjectHolds(x, n)) =>
                      \/ n \in raw' \/ n \in {c.closing, c.adopt}
                      \/ \E x \in Objects : x \in alive /\ m_handle'[x] = n
            BY <3>2 DEF ObjectHolds
        <3>7. /\ c.object = o /\ c.closing \in Natives /\ c.closing # c.adopt
              /\ c.ends => c.adopt = InvalidHandle
              /\ m_handle'[o] = InvalidHandle /\ raw' \subseteq raw
            BY <2>2, <3>2
        <3>8. Starts(t, o, c)
            BY <3>2, <3>3, <3>4, <3>5, <3>6, <3>7 DEF Starts
        <3> HIDE DEF c
        <3> QED BY <3>1, <3>8, CallStarts
    <2> QED BY <2>1, <2>2
<1>10. ASSUME NEW t \in Threads, NEW o \in Objects, Destroy(t, o) PROVE Ownership'
    <2>1. CASE ~IsValid(o)
        BY <1>10, <2>1 DEF Destroy, IsValid, Usable, Busy, Ownership, CallInv, HeldIsOpen,
                           SingleOwner, NoLeak, ObjectHolds, CallHolds, IsIdle
    <2>2. CASE IsValid(o)
        <3> DEFINE c == [object |-> o, closing |-> m_handle[o],
                         adopt |-> InvalidHandle, ends |-> TRUE]
        <3>1. c \in Calls
            BY DEF Calls
        <3>2. /\ IsIdle(t) /\ Usable(o)
              /\ call' = [call EXCEPT ![t] = c]
              /\ m_handle' = [m_handle EXCEPT ![o] = InvalidHandle]
              /\ UNCHANGED <<alive, open, raw>>
            BY <1>10, <2>2 DEF Destroy
        <3>3. \A x \in Objects : Busy(x) => m_handle'[x] = m_handle[x]
            BY <3>2 DEF Usable
        <3>4. \A n \in Natives, x \in Objects :
                  x \in alive /\ m_handle'[x] = n =>
                      m_handle[x] = n /\ n # c.closing /\ n # c.adopt
            BY <2>2, <3>2 DEF Usable, SingleOwner, ObjectHolds, IsValid
        <3>5. \A n \in Natives : n \in {c.closing, c.adopt} =>
                  (n \in raw \/ \E x \in Objects : ObjectHolds(x, n)) /\ n \notin raw'
            BY <2>2, <3>2 DEF Usable, SingleOwner, ObjectHolds, IsValid
        <3>6. \A n \in Natives :
                  (n \in raw \/ \E x \in Objects : ObjectHolds(x, n)) =>
                      \/ n \in raw' \/ n \in {c.closing, c.adopt}
                      \/ \E x \in Objects : x \in alive /\ m_handle'[x] = n
            BY <3>2 DEF ObjectHolds
        <3>7. /\ c.object = o /\ c.closing \in Natives /\ c.closing # c.adopt
              /\ c.ends => c.adopt = InvalidHandle
              /\ m_handle'[o] = InvalidHandle /\ raw' \subseteq raw
            BY <2>2, <3>2 DEF IsValid
        <3>8. Starts(t, o, c)
            BY <3>2, <3>3, <3>4, <3>5, <3>6, <3>7 DEF Starts
        <3> HIDE DEF c
        <3> QED BY <3>1, <3>8, CallStarts
    <2> QED BY <2>1, <2>2
<1>11. ASSUME NEW t \in Threads, NEW o \in Objects, NEW n \in NativeHandle, Reset(t, o, n)
       PROVE Ownership'
    <2>1. CASE UNCHANGED call
        BY <1>11, <2>1 DEF Reset, ResetTo, CloseThenAdopt, Usable, Busy, Ownership, CallInv,
                           HeldIsOpen, SingleOwner, NoLeak, ObjectHolds, CallHolds, IsIdle
    <2>2. CASE call' # call
        <3> DEFINE c == [object |-> o, closing |-> m_handle[o],
                         adopt |-> n, ends |-> FALSE]
        <3>1. c \in Calls
            BY DEF Calls
        <3>2. /\ IsIdle(t) /\ Usable(o)
              /\ m_handle[o] \in Natives /\ m_handle[o] # n
              /\ n \in raw \cup {InvalidHandle}
              /\ call' = [call EXCEPT ![t] = c]
              /\ m_handle' = [m_handle EXCEPT ![o] = InvalidHandle]
              /\ raw' = raw \ {n}
              /\ UNCHANGED <<alive, open>>
            BY <1>11, <2>2 DEF Reset, ResetTo, CloseThenAdopt
        <3>3. \A x \in Objects : Busy(x) => m_handle'[x] = m_handle[x]
            BY <3>2 DEF Usable
        <3>4. \A n1 \in Natives, x \in Objects :
                  x \in alive /\ m_handle'[x] = n1 =>
                      m_handle[x] = n1 /\ n1 # c.closing /\ n1 # c.adopt
            BY <3>2 DEF Usable, SingleOwner, ObjectHolds
        <3>5. \A n1 \in Natives : n1 \in {c.closing, c.adopt} =>
                  (n1 \in raw \/ \E x \in Objects : ObjectHolds(x, n1)) /\ n1 \notin raw'
            BY <3>2 DEF Usable, SingleOwner, ObjectHolds
        <3>6. \A n1 \in Natives :
                  (n1 \in raw \/ \E x \in Objects : ObjectHolds(x, n1)) =>
                      \/ n1 \in raw' \/ n1 \in {c.closing, c.adopt}
                      \/ \E x \in Objects : x \in alive /\ m_handle'[x] = n1
            BY <3>2 DEF ObjectHolds
        <3>7. /\ c.object = o /\ c.closing \in Natives /\ c.closing # c.adopt
              /\ c.ends => c.adopt = InvalidHandle
              /\ m_handle'[o] = InvalidHandle /\ raw' \subseteq raw
            BY <3>2
        <3>8. Starts(t, o, c)
            BY <3>2, <3>3, <3>4, <3>5, <3>6, <3>7 DEF Starts
        <3> HIDE DEF c
        <3> QED BY <3>1, <3>8, CallStarts
    <2> QED BY <2>1, <2>2
<1>12. ASSUME NEW t \in Threads, NEW d \in Objects, NEW s \in Objects, MoveAssign(t, d, s)
       PROVE Ownership'
    <2>1. CASE UNCHANGED call
        BY <1>12, <2>1 DEF MoveAssign, ResetTo, CloseThenAdopt, Released, Usable, Busy,
                           Ownership, CallInv, HeldIsOpen, SingleOwner, NoLeak, ObjectHolds,
                           CallHolds, IsIdle
    <2>2. CASE call' # call
        <3> DEFINE c == [object |-> d, closing |-> m_handle[d],
                         adopt |-> m_handle[s], ends |-> FALSE]
        <3>1. c \in Calls
            BY DEF Calls
        <3>2. /\ IsIdle(t) /\ Usable(d) /\ Usable(s) /\ d # s
              /\ m_handle[d] \in Natives /\ m_handle[d] # m_handle[s]
              /\ call' = [call EXCEPT ![t] = c]
              /\ m_handle' = [m_handle EXCEPT ![s] = InvalidHandle, ![d] = InvalidHandle]
              /\ UNCHANGED <<alive, open, raw>>
            BY <1>12, <2>2 DEF MoveAssign, ResetTo, CloseThenAdopt, Released
        <3>3. \A x \in Objects : Busy(x) => m_handle'[x] = m_handle[x]
            BY <3>2 DEF Usable
        <3>4. \A n \in Natives, x \in Objects :
                  x \in alive /\ m_handle'[x] = n =>
                      m_handle[x] = n /\ n # c.closing /\ n # c.adopt
            BY <3>2 DEF Usable, SingleOwner, ObjectHolds
        <3>5. \A n \in Natives : n \in {c.closing, c.adopt} =>
                  (n \in raw \/ \E x \in Objects : ObjectHolds(x, n)) /\ n \notin raw'
            BY <3>2 DEF Usable, SingleOwner, ObjectHolds
        <3>6. \A n \in Natives :
                  (n \in raw \/ \E x \in Objects : ObjectHolds(x, n)) =>
                      \/ n \in raw' \/ n \in {c.closing, c.adopt}
                      \/ \E x \in Objects : x \in alive /\ m_handle'[x] = n
            BY <3>2 DEF ObjectHolds
        <3>7. /\ c.object = d /\ c.closing \in Natives /\ c.closing # c.adopt
              /\ c.ends => c.adopt = InvalidHandle
              /\ m_handle'[d] = InvalidHandle /\ raw' \subseteq raw
            BY <3>2
        <3>8. Starts(t, d, c)
            BY <3>2, <3>3, <3>4, <3>5, <3>6, <3>7 DEF Starts
        <3> HIDE DEF c
        <3> QED BY <3>1, <3>8, CallStarts
    <2> QED BY <2>1, <2>2
<1>13. CASE UNCHANGED vars
    BY <1>13 DEF vars, Ownership, CallInv, HeldIsOpen, SingleOwner, NoLeak, ObjectHolds,
                 CallHolds, IsIdle
<1> QED BY <1>1, <1>2, <1>3, <1>4, <1>5, <1>6, <1>7, <1>8, <1>9, <1>10, <1>11, <1>12, <1>13
        DEF Next

\* Every reachable state satisfies the inductive invariant.
THEOREM Invariance == Spec => []Inv
<1>1. Init => Inv
    BY DEF Init, Inv, TypeOK, CallInv, HeldIsOpen, SingleOwner, NoLeak, ObjectHolds,
           CallHolds, IsIdle, Idle, Calls, NativeHandle
<1>2. Inv /\ [Next]_vars => Inv'
    BY TypeStep, OwnershipStep DEF Inv, Ownership
<1> QED BY <1>1, <1>2, PTL DEF Spec

\* No object, call or client ever holds a descriptor the operating system has
\* taken back (socket_handle.hpp:96-109).
THEOREM HeldDescriptorsAreOpen == Spec => []HeldIsOpen
BY Invariance, PTL DEF Inv

\* No descriptor ever has two owners (socket_handle.hpp:38-55, 81-94, 135-139).
THEOREM OwnershipIsExclusive == Spec => []SingleOwner
BY Invariance, PTL DEF Inv

\* No descriptor is ever lost while open (socket_handle.hpp:33-36, 87-109).
THEOREM NothingLeaks == Spec => []NoLeak
BY Invariance, PTL DEF Inv

\* Every native close hits a descriptor that no live object and no second call
\* holds at that moment (socket_handle.hpp:103-109).
THEOREM ClosesAreExclusive == Spec => ClosesOnlyItsOwn
<1>1. Inv /\ [Next]_vars =>
        \A n \in open \ open' :
          /\ \A o \in Objects : ~ObjectHolds(o, n)
          /\ \A t1, t2 \in Threads : CallHolds(t1, n) /\ CallHolds(t2, n) => t1 = t2
    <2> SUFFICES ASSUME Inv, [Next]_vars, NEW n \in open, n \notin open'
                 PROVE  /\ \A o \in Objects : ~ObjectHolds(o, n)
                        /\ \A t1, t2 \in Threads :
                              CallHolds(t1, n) /\ CallHolds(t2, n) => t1 = t2
        OBVIOUS
    <2>1. n \in raw \/ \E t \in Threads : CallHolds(t, n)
        BY DEF Next, vars, OpenNative, CloseRaw, Default, FromNative, Release,
               MoveConstruct, Reset, MoveAssign, Close, Destroy, Swap, CloseNative, CallHolds
    <2> QED BY <2>1 DEF Inv, TypeOK, SingleOwner
<1> QED BY Invariance, <1>1, PTL DEF Spec, ClosesOnlyItsOwn
=============================================================================
