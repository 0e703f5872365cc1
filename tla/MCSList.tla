------------------------------ MODULE MCSList ------------------------------
(***************************************************************************)
(* Model checking of SList: three list objects (a destination, a source    *)
(* and a bystander) over four heap cells, so that chains of four nodes, a  *)
(* heap that runs out in the middle of a copy, and cells reused after      *)
(* deletion occur.                                                         *)
(***************************************************************************)
EXTENDS SList, TLC

Symmetry == Permutations(Nodes)
=============================================================================
