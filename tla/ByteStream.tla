----------------------------- MODULE ByteStream -----------------------------
(***************************************************************************)
(* What a TCP connection promises the users of TcpSocket                   *)
(* (include/net/tcp_socket.hpp, comments at 22-23, 64-65, 96-98, 125): the *)
(* bytes an end receives are the bytes its peer sent, in order, none       *)
(* missing and none twice, and a zero-length receive with a nonempty       *)
(* buffer means that the peer has ended its sending side and everything    *)
(* it sent has been received - unless this end gave up receiving itself.   *)
(***************************************************************************)
EXTENDS Naturals

CONSTANT Ends

VARIABLES
    written,   \* bytes each end has handed over
    received,  \* bytes each end has been given: the first ones of its peer
    ended,     \* ends that send no more
    deaf,      \* ends that gave up receiving
    told       \* ends that were told that their peer sends no more

vars == <<written, received, ended, deaf, told>>

Other(e) == CHOOSE p \in Ends : p # e

Init ==
    /\ written = [e \in Ends |-> 0]
    /\ received = [e \in Ends |-> 0]
    /\ ended = {} /\ deaf = {} /\ told = {}

Write(e) ==
    /\ e \notin ended
    /\ written' \in [Ends -> Nat]
    /\ written'[e] > written[e]
    /\ \A p \in Ends \ {e} : written'[p] = written[p]
    /\ UNCHANGED <<received, ended, deaf, told>>

\* After the end was told, nothing more comes out.
Deliver(e) ==
    /\ e \notin told
    /\ received' \in [Ends -> Nat]
    /\ received'[e] \in (received[e] + 1)..written[Other(e)]
    /\ \A p \in Ends \ {e} : received'[p] = received[p]
    /\ UNCHANGED <<written, ended, deaf, told>>

Tell(e) ==
    /\ Other(e) \in ended
    /\ received[e] = written[Other(e)]
    /\ told' = told \cup {e}
    /\ UNCHANGED <<written, received, ended, deaf>>

End(e) ==
    /\ ended' \in {ended, ended \cup {e}}
    /\ deaf' \in {deaf, deaf \cup {e}}
    /\ UNCHANGED <<written, received, told>>

Next == \E e \in Ends : Write(e) \/ Deliver(e) \/ Tell(e) \/ End(e)

Spec == Init /\ [][Next]_vars
=============================================================================
