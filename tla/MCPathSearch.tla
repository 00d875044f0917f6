---------------------------- MODULE MCPathSearch ----------------------------
(***************************************************************************)
(* Every graph on a few nodes and every pair of ends.  Popping from the    *)
(* wrong side of the queue first shows on five nodes.                      *)
(***************************************************************************)
EXTENDS PathSearch, TLC

Symmetry == Permutations(Node)
=============================================================================
