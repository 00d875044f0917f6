--------------------------- MODULE MCReplyBalance ---------------------------
(***************************************************************************)
(* Two tasks, batches of two; the balance is full after two batches.       *)
(***************************************************************************)
EXTENDS ReplyBalance

=============================================================================
