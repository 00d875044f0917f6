---------------------------- MODULE MCRelayGraph ----------------------------
(***************************************************************************)
(* Instances of RelayGraph for TLC.                                        *)
(***************************************************************************)
EXTENDS RelayGraph

MCFingerprint == 1..3
MCPair == 1..2

=============================================================================
