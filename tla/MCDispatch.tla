----------------------------- MODULE MCDispatch -----------------------------
(* Instances of Dispatch for TLC: every job was bought from the one agent. *)
EXTENDS Dispatch

CONSTANTS a1

MCSellerOf == [j \in Jobs |-> a1]
=============================================================================
