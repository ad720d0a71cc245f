--------------------------- MODULE MCRefundQueue ---------------------------
(* Instances of RefundQueue for TLC. *)
EXTENDS RefundQueue

CONSTANTS j1, j2, d1, d2
=============================================================================
