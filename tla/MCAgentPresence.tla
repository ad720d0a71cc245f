--------------------------- MODULE MCAgentPresence ---------------------------
(* Instance of AgentPresence for TLC. *)
EXTENDS AgentPresence

CONSTANTS r1, t1

MCTypeOf == [i \in Items |-> IF i = t1 THEN "reputation_tally" ELSE "review"]

\* One item is sound and the other is not, or neither is.
MCFates == {[i \in Items |-> IF i = r1 THEN "poison" ELSE "ok"],
            [i \in Items |-> IF i = r1 THEN "reject" ELSE "gate"]}

MCModes == {[start |-> b, stop |-> b] : b \in BOOLEAN}
=============================================================================
