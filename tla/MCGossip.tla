------------------------------ MODULE MCGossip ------------------------------
(* Lines of three and of four nodes.                                       *)
EXTENDS Gossip, TLC
MCNeighbours == {{1, 2}, {2, 3}}
MCSymmetry == Permutations(Task)
MCLonger == {{1, 2}, {2, 3}, {3, 4}}
=============================================================================
