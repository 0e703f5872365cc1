---------------------------- MODULE MCUdpSocket ----------------------------
(***************************************************************************)
(* Model checking of UdpSocket: two objects and two threads over two       *)
(* descriptors and two ports, datagrams of length zero and one, so that    *)
(* the port table and the receive buffer run full, a port passes from one  *)
(* socket to another with datagrams under way, and buffers do not fit.     *)
(***************************************************************************)
EXTENDS UdpSocket, TLC

Symmetry == Permutations(Sockets) \cup Permutations(Natives)
            \cup Permutations(Threads) \cup Permutations(Ports)
=============================================================================
