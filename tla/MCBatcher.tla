------------------------------ MODULE MCBatcher ------------------------------
(***************************************************************************)
(* The real sizes, with a length of which two go into a packet, one that   *)
(* passes the batcher's check and not the encoder's, and one that passes   *)
(* neither.                                                                *)
(***************************************************************************)
EXTENDS Batcher

MCEndpoint == {100001, 100002}
MCLength == {4000, 8160, 8183}
=============================================================================
