------------------------------- MODULE MCOnion -------------------------------
(***************************************************************************)
(* Ten header pieces as in the code, and routes of zero to eleven hops:    *)
(* the longest that is built has nine.                                     *)
(***************************************************************************)
EXTENDS Onion

MCNode == 0..11
MCPath == {[i \in 1..(n + 1) |-> i - 1] : n \in 0..11}
=============================================================================
