-------------------------- MODULE MCDepositLedger --------------------------
(* Instances of DepositLedger for TLC. *)
EXTENDS DepositLedgerInv

CONSTANTS t1, t2, b1

\* One buyer funds everything: lastDepositTxid then hides no double credit.
MCBuyerOf == [t \in Txids |-> b1]
=============================================================================
