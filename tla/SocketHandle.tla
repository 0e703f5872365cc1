---------------------------- MODULE SocketHandle ----------------------------
(***************************************************************************)
(* net::SocketHandle (include/net/socket_handle.hpp): the move-only owner  *)
(* of one native socket descriptor.                                        *)
(*                                                                         *)
(* Several threads work on DIFFERENT SocketHandle objects at the same time *)
(* (the same object needs external coordination, README.md "TCP            *)
(* networking"); what they share is the operating system's descriptor      *)
(* table, and descriptor numbers are reused as soon as they are closed.    *)
(* A call is therefore split where the operating system is entered: the    *)
(* exchange of m_handle and the native close that follows it are two       *)
(* steps, and any step of another thread may fall between them.            *)
(***************************************************************************)
EXTENDS Naturals, FiniteSets

CONSTANTS
    Objects,        \* storage for SocketHandle objects
    Natives,        \* descriptor numbers of the operating system
    Threads,        \* threads of the client program
    InvalidHandle,  \* SocketHandle::InvalidHandle: -1, or INVALID_SOCKET
    NoObject        \* "no call in progress"

ASSUME HandleAssumption == InvalidHandle \notin Natives /\ NoObject \notin Objects

VARIABLES
    alive,     \* objects whose lifetime has begun and not ended
    m_handle,  \* the field of each object
    open,      \* descriptors open in the operating system
    raw,       \* descriptors the client owns as plain numbers
    call       \* per thread, the native close a call has in progress

vars == <<alive, m_handle, open, raw, call>>

\* What a NativeHandle variable can hold.
NativeHandle == Natives \cup {InvalidHandle}

\* A call that has taken descriptor `closing` out of `object` and is about to
\* close it; afterwards the field becomes `adopt`, or the lifetime `ends`.
Idle == [object |-> NoObject, closing |-> InvalidHandle,
         adopt |-> InvalidHandle, ends |-> FALSE]

Calls == [object: Objects \cup {NoObject}, closing: NativeHandle,
          adopt: NativeHandle, ends: BOOLEAN]

IsIdle(t) == call[t].object = NoObject

\* An object some thread is inside a call on; nobody else may use it.
Busy(o) == \E t \in Threads : call[t].object = o

Usable(o) == o \in alive /\ ~Busy(o)

IsValid(o) == m_handle[o] # InvalidHandle

-----------------------------------------------------------------------------
Init ==
    /\ alive = {}
    /\ m_handle = [o \in Objects |-> InvalidHandle]
    /\ open = {}
    /\ raw = {}
    /\ call = [t \in Threads |-> Idle]

(***************************************************************************)
(* The client obtains a descriptor: ::socket or ::accept returned any free *)
(* number. Until it is handed to an object the client owns it.             *)
(***************************************************************************)
OpenNative(n) ==
    /\ n \notin open
    /\ open' = open \cup {n}
    /\ raw' = raw \cup {n}
    /\ UNCHANGED <<alive, m_handle, call>>

\* The client closes a descriptor it owns as a number (after Release()).
CloseRaw(n) ==
    /\ n \in raw
    /\ open' = open \ {n}
    /\ raw' = raw \ {n}
    /\ UNCHANGED <<alive, m_handle, call>>

\* SocketHandle() and SocketHandle::Invalid().
Default(o) ==
    /\ o \notin alive
    /\ alive' = alive \cup {o}
    /\ m_handle' = [m_handle EXCEPT ![o] = InvalidHandle]
    /\ UNCHANGED <<open, raw, call>>

\* explicit SocketHandle(NativeHandle): takes over a number the client owns.
FromNative(o, n) ==
    /\ o \notin alive
    /\ n \in raw
    /\ alive' = alive \cup {o}
    /\ m_handle' = [m_handle EXCEPT ![o] = n]
    /\ raw' = raw \ {n}
    /\ UNCHANGED <<open, call>>

\* Slip: Release leaves 0 behind, which is a real descriptor number.
ReleasedToZero(s) == [m_handle EXCEPT ![s] = 0]

\* The field values after s.Release(): std::exchange(m_handle, InvalidHandle).
Released(s) == [m_handle EXCEPT ![s] = InvalidHandle]

\* Release(): the number goes to the client, who must close it.
Release(s) ==
    /\ Usable(s)
    /\ m_handle' = Released(s)
    /\ raw' = IF IsValid(s) THEN raw \cup {m_handle[s]} ELSE raw
    /\ UNCHANGED <<alive, open, call>>

\* Slip: the move constructor copies the number instead of releasing it.
CopyConstruct(d, s) ==
    /\ d \notin alive
    /\ Usable(s)
    /\ alive' = alive \cup {d}
    /\ m_handle' = [m_handle EXCEPT ![d] = m_handle[s]]
    /\ UNCHANGED <<open, raw, call>>

\* SocketHandle(SocketHandle&& other): m_handle(other.Release()).
MoveConstruct(d, s) ==
    /\ d \notin alive
    /\ Usable(s)
    /\ alive' = alive \cup {d}
    /\ m_handle' = [Released(s) EXCEPT ![d] = m_handle[s]]
    /\ UNCHANGED <<open, raw, call>>

\* Slip: the field is emptied after the native close, not before it.
CloseBeforeExchange(t, o, fields, adopt) ==
    \/ /\ fields[o] = InvalidHandle
       /\ m_handle' = [fields EXCEPT ![o] = adopt]
       /\ UNCHANGED call
    \/ /\ fields[o] # InvalidHandle
       /\ m_handle' = fields
       /\ call' = [call EXCEPT ![t] = [object |-> o, closing |-> fields[o],
                                       adopt |-> adopt, ends |-> FALSE]]

(***************************************************************************)
(* The beginning of Close() inside a call of thread t on object o, when    *)
(* the fields hold `fields`: an invalid handle has nothing to close and    *)
(* takes `adopt` at once; a valid one is exchanged for InvalidHandle and   *)
(* the native close is still to come.                                      *)
(***************************************************************************)
CloseThenAdopt(t, o, fields, adopt) ==
    \/ /\ fields[o] = InvalidHandle
       /\ m_handle' = [fields EXCEPT ![o] = adopt]
       /\ UNCHANGED call
    \/ /\ fields[o] # InvalidHandle
       /\ m_handle' = [fields EXCEPT ![o] = InvalidHandle]
       /\ call' = [call EXCEPT ![t] = [object |-> o, closing |-> fields[o],
                                       adopt |-> adopt, ends |-> FALSE]]

\* Slip: Reset closes the number it is about to store.
ResetClosesSame(t, o, fields, handle) == CloseThenAdopt(t, o, fields, handle)

\* Slip: Reset overwrites the number without closing it.
ResetOverwrites(t, o, fields, handle) ==
    /\ m_handle' = [fields EXCEPT ![o] = handle]
    /\ UNCHANGED call

\* Reset(handle) when the fields hold `fields`: nothing at all when the
\* object already holds that very number.
ResetTo(t, o, fields, handle) ==
    \/ /\ fields[o] = handle
       /\ m_handle' = fields
       /\ UNCHANGED call
    \/ /\ fields[o] # handle
       /\ CloseThenAdopt(t, o, fields, handle)

\* Reset(n) with a number the client owns, Reset() with InvalidHandle, or
\* Reset(o.Get()) with the number the object holds itself.
Reset(t, o, n) ==
    /\ IsIdle(t)
    /\ Usable(o)
    /\ n \in raw \cup {InvalidHandle, m_handle[o]}
    /\ ResetTo(t, o, m_handle, n)
    /\ raw' = raw \ {n}
    /\ UNCHANGED <<alive, open>>

\* operator=(SocketHandle&& other): Reset(other.Release()) unless self-move.
MoveAssign(t, d, s) ==
    /\ IsIdle(t)
    /\ Usable(d)
    /\ Usable(s)
    /\ d # s
    /\ ResetTo(t, d, Released(s), m_handle[s])
    /\ UNCHANGED <<alive, open, raw>>

\* Close(): idempotent.
Close(t, o) ==
    /\ IsIdle(t)
    /\ Usable(o)
    /\ CloseThenAdopt(t, o, m_handle, InvalidHandle)
    /\ UNCHANGED <<alive, open, raw>>

\* ~SocketHandle(): Close(), then the lifetime ends.
Destroy(t, o) ==
    /\ IsIdle(t)
    /\ Usable(o)
    /\ \/ /\ ~IsValid(o)
          /\ alive' = alive \ {o}
          /\ UNCHANGED <<m_handle, call>>
       \/ /\ IsValid(o)
          /\ m_handle' = [m_handle EXCEPT ![o] = InvalidHandle]
          /\ call' = [call EXCEPT ![t] = [object |-> o, closing |-> m_handle[o],
                                          adopt |-> InvalidHandle, ends |-> TRUE]]
          /\ UNCHANGED alive
    /\ UNCHANGED <<open, raw>>

\* ::close / ::closesocket and the rest of the call. Linux and Winsock give
\* the number back whatever the call returns; a failure is only reported.
CloseNative(t) ==
    /\ ~IsIdle(t)
    /\ open' = open \ {call[t].closing}
    /\ m_handle' = [m_handle EXCEPT ![call[t].object] = call[t].adopt]
    /\ alive' = IF call[t].ends THEN alive \ {call[t].object} ELSE alive
    /\ call' = [call EXCEPT ![t] = Idle]
    /\ UNCHANGED raw

\* Swap(other) and swap(a, b).
Swap(a, b) ==
    /\ Usable(a)
    /\ Usable(b)
    /\ m_handle' = [m_handle EXCEPT ![a] = m_handle[b], ![b] = m_handle[a]]
    /\ UNCHANGED <<alive, open, raw, call>>

Next ==
    \/ \E n \in Natives : OpenNative(n) \/ CloseRaw(n)
    \/ \E o \in Objects : Default(o) \/ Release(o)
    \/ \E o \in Objects, n \in Natives : FromNative(o, n)
    \/ \E d, s \in Objects : MoveConstruct(d, s) \/ Swap(d, s)
    \/ \E t \in Threads, o \in Objects : Close(t, o) \/ Destroy(t, o)
    \/ \E t \in Threads, o \in Objects, n \in NativeHandle : Reset(t, o, n)
    \/ \E t \in Threads, d, s \in Objects : MoveAssign(t, d, s)
    \/ \E t \in Threads : CloseNative(t)

Spec == Init /\ [][Next]_vars

-----------------------------------------------------------------------------
(***************************************************************************)
(* Who holds descriptor n: the client, the field of an object, or a call   *)
(* in progress (as the number it closes, or as the one it will store).     *)
(***************************************************************************)
ObjectHolds(o, n) == o \in alive /\ m_handle[o] = n

CallHolds(t, n) == ~IsIdle(t) /\ n \in {call[t].closing, call[t].adopt}

\* The type of the state (socket_handle.hpp:16-23, NativeHandle and InvalidHandle).
TypeOK ==
    /\ alive \subseteq Objects
    /\ m_handle \in [Objects -> NativeHandle]
    /\ open \subseteq Natives
    /\ raw \subseteq Natives
    /\ call \in [Threads -> Calls]

\* No dangling handle: a number held by the client, an object or a call in
\* progress is open, so no method and no close ever uses a number the operating system
\* has taken back (socket_handle.hpp:96-109, the exchange before the close).
HeldIsOpen ==
    \A n \in Natives :
        (\/ n \in raw
         \/ \E o \in Objects : ObjectHolds(o, n)
         \/ \E t \in Threads : CallHolds(t, n)) => n \in open

\* Exclusive ownership: no descriptor has two owners, whatever moves, swaps,
\* resets and releases happened and whichever calls are half done
\* (socket_handle.hpp:38-55, "Move-only semantics").
SingleOwner ==
    \A n \in Natives :
        /\ \A o1, o2 \in Objects :
              ObjectHolds(o1, n) /\ ObjectHolds(o2, n) => o1 = o2
        /\ \A t1, t2 \in Threads :
              CallHolds(t1, n) /\ CallHolds(t2, n) => t1 = t2
        /\ \A o \in Objects : ObjectHolds(o, n) =>
              n \notin raw /\ \A t \in Threads : ~CallHolds(t, n)
        /\ \A t \in Threads : CallHolds(t, n) =>
              n \notin raw /\ call[t].closing # call[t].adopt

\* No leak: every open descriptor still has an owner that will close it
\* (socket_handle.hpp:33-36 and the early returns of Reset and Close).
NoLeak ==
    \A n \in open : \/ n \in raw
                    \/ \E o \in Objects : ObjectHolds(o, n)
                    \/ \E t \in Threads : CallHolds(t, n)

\* A native close never takes a number away from a live object or from the
\* client: with the order of the code (exchange, then close) the closed
\* number is in no field at that moment, so a thread that receives the
\* reused number from the operating system is its only holder.
ClosesOnlyItsOwn ==
    [][\A n \in open \ open' :
          /\ \A o \in Objects : ~ObjectHolds(o, n)
          /\ \A t1, t2 \in Threads :
                CallHolds(t1, n) /\ CallHolds(t2, n) => t1 = t2]_vars
=============================================================================
