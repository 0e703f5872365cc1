--------------------------- MODULE MCSocketHandle ---------------------------
(***************************************************************************)
(* Model checking of SocketHandle: three objects (a destination, a source  *)
(* and a bystander), four descriptors and two threads, so that a number    *)
(* can be closed, reused and handed on while another call is half done.    *)
(***************************************************************************)
EXTENDS SocketHandle, TLC

Symmetry == Permutations(Objects) \cup Permutations(Natives) \cup Permutations(Threads)
=============================================================================
