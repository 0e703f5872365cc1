----------------------------- MODULE MCTcpSetup -----------------------------
(***************************************************************************)
(* Model checking of TcpSetup. Two sockets and two listeners compete for   *)
(* three descriptors and one port, so that the table runs full, a port is  *)
(* taken, a backlog is full and a closed number is reused during a call.   *)
(***************************************************************************)
EXTENDS TcpSetup, TLC

Symmetry == Permutations(Sockets) \cup Permutations(Listeners)
            \cup Permutations(Natives) \cup Permutations(Threads)
=============================================================================
