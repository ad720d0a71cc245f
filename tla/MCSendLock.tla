----------------------------- MODULE MCSendLock -----------------------------
(* Instances of SendLock for TLC. *)
EXTENDS SendLock
=============================================================================
