--------------------------- MODULE SpendPolicyInv ---------------------------
(***************************************************************************)
(* The inductive invariant of SpendPolicy, as long as nothing failed       *)
(* (faults = 0): who has the lock of the history, what its copy is, and    *)
(* what the sends under way may still add.                                 *)
(***************************************************************************)
EXTENDS SpendPolicy

Histories == [perJob : SUBSET SendIds, global : SUBSET SendIds]

Places == {"idle", "send", "lock", "fill", "gate", "remove", "recheck", "install",
           "readback", "ungate", "read", "save", "token", "unlink", "dead"}

\* A sender that is under way is about a send that was allowed.
Busy(s) == at[s] \notin {"idle", "dead"}

\* The state holds what its types say.
TypeOK ==
    /\ history \in Histories /\ saved \subseteq SendIds
    /\ lock \in Senders \cup {Free, Torn} /\ gate \in Senders \cup {Free}
    /\ at \in [Senders -> Places] /\ copy \in [Senders -> Histories]
    /\ held \in [Senders -> BOOLEAN] /\ send \in [Senders -> 0..sends]
    /\ \A s \in Senders : Busy(s) => send[s] # 0
    /\ keyOf \in [SendIds -> Keys] /\ amount \in [SendIds -> Nat]
    /\ age \in [SendIds -> {"new", "recent", "old"}]
    /\ sends \in 0..MaxSends /\ faults \in Nat

Gated == {"recheck", "install", "readback", "ungate"}
Inside == {"read", "save", "token", "unlink"}

\* The lock's holder is dead, or died before it wrote its number.
Replaceable ==
    \/ lock \in Senders /\ ~Alive(lock)
    \/ lock = Torn /\ ~Filling

\* The gate names the one process in it; the lock the one that has it, and it is
\* about to be replaced only when nobody has it.
LockInv ==
    /\ \A s \in Senders : at[s] \in Gated => gate = s
    /\ \A s, t \in Senders : at[s] = "fill" /\ at[t] = "fill" => s = t
    /\ \A s \in Senders : at[s] = "fill" => lock = Torn
    /\ \A s \in Senders : at[s] = "install" => Replaceable
    /\ \A s \in Senders : at[s] = "readback" => lock = s
    /\ \A s \in Senders : held[s] => lock = s /\ at[s] \in Inside \cup {"ungate"}
    /\ \A s \in Senders : at[s] \in Inside => held[s]

\* What the holder is about to write is based on the history as it is.
CopyInv == \A s \in Senders : at[s] = "save" => copy[s] = history

\* A send under way has a number of its own, which is not in the history yet.
FreshInv ==
    /\ history.global \subseteq 1..sends
    /\ \A s \in Senders : at[s] = "send" => send[s] \notin history.global
    /\ \A s, t \in Senders : send[s] = send[t] /\ send[s] # 0 => s = t

KeptInv == LockInv /\ CopyInv /\ RecordIsKept

SavedOf(k) == {i \in saved : keyOf[i] = k}
Refunded(k) == Total(SavedOf(k))

\* A send that may still be recorded; one that refunds a job.
Due(s) == send[s] # 0 /\ at[s] \notin {"token", "unlink"}
IsRefund(s) == KindOf[keyOf[send[s]]] = "refund"

\* A job has one refund under way, which fits into what is left of its price.
RefundInv ==
    /\ history.perJob \subseteq saved /\ saved \subseteq 1..sends
    /\ \A s \in Senders : send[s] # 0 => Busy(s)
    /\ \A s \in Senders : Due(s) => send[s] \notin saved
    /\ \A s, t \in Senders :
          (send[s] # 0 /\ send[t] # 0 /\ IsRefund(s) /\ keyOf[send[s]] = keyOf[send[t]])
              => s = t
    /\ \A s \in Senders, k \in Keys :
          Due(s) /\ IsRefund(s) /\ keyOf[send[s]] = k =>
              10 * (Refunded(k) + amount[send[s]]) <= 11 * Price

\* What every state satisfies.
HistoryInv ==
    /\ TypeOK
    /\ faults = 0 => KeptInv /\ FreshInv /\ RefundInv /\ HourIsBounded /\ RefundIsBounded
=============================================================================
