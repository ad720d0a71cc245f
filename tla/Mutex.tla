------------------------------- MODULE Mutex -------------------------------
(***************************************************************************)
(* What a lock of the dispatcher promises: at most one process is inside   *)
(* at a time.  A process leaves by releasing the lock, or by dying.        *)
(***************************************************************************)
CONSTANT Procs

VARIABLE inside   \* the live processes that believe they hold the lock

Init == inside = {}

Enter(p) == inside = {} /\ inside' = {p}

Leave(p) == inside = {p} /\ inside' = {}

Next == \E p \in Procs : Enter(p) \/ Leave(p)

Spec == Init /\ [][Next]_inside
=============================================================================
