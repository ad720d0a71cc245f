----------------------------- MODULE MCApiProxy -----------------------------
(* Instances of ApiProxy for TLC: the keys to be minted share one envelope. *)
EXTENDS ApiProxy

CONSTANTS n1

MCNonceOf == [k \in Keys |-> n1]
=============================================================================
