-------------------------- MODULE MCDepositNotify --------------------------
(* Instances of DepositNotify for TLC. *)
EXTENDS DepositNotify

CONSTANTS t1, t2, b1

MCBuyerOf == [t \in Txids |-> b1]
=============================================================================
