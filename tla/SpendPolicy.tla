---------------------------- MODULE SpendPolicy ----------------------------
(***************************************************************************)
(* The gate before money leaves the host (src/spend-policy.js), as the     *)
(* daemon's refunds and the one-shot commands that pay, extend and top up  *)
(* use it: each asks gateExternalSend, broadcasts, and records the send in *)
(* the shared history the next one is judged by.                           *)
(*                                                                         *)
(* Every sender is a process of its own.  The gate and the record are      *)
(* synchronous in it; between them it waits for the network, and the       *)
(* record is a series of system calls under a lock that is given up after  *)
(* five seconds.  A send in the history is its number; its amount counts   *)
(* in tenths of the price of a job.                                        *)
(***************************************************************************)
EXTENDS Naturals, FiniteSetsExt

CONSTANTS
    Senders,
    Keys,             \* limiter keys: a job, or kind and job or seller
    KindOf,           \* the kind of a key
    AmountsOf,        \* what may be sent at once for a key
    Price,            \* the price of a job
    MaxSendsPerJob, MaxSendsPerHour,
    Free, Torn,       \* no lock file; one without a process number in it
    MaxSends,         \* bound: sends allowed
    MaxFailures       \* bound: senders that die, lock waits that run out, processes
                      \* that stall, failed saves, an unreadable history

ASSUME SpendAssumption ==
    /\ IsFiniteSet(Senders) /\ Senders # {} /\ Keys # {}
    /\ KindOf \in [Keys -> {"refund", "payment", "deposit"}]
    /\ {MaxSendsPerJob, MaxSendsPerHour, MaxSends, MaxFailures, Price} \subseteq Nat
    /\ \A k \in Keys : AmountsOf[k] \subseteq Nat \ {0}
    /\ Free \notin Senders /\ Torn \notin Senders /\ Free # Torn

VARIABLES
    history,  \* send-history.json: sends per job, sends of the last hour
    lock,     \* its lock: Free, Torn, or the process named in it
    gate,     \* the gate of those who take over a dead process's lock
    at,       \* where a sender is
    send,     \* the send it is about, 0 for none
    copy,     \* the history it has read
    held,     \* it has the lock
    keyOf, amount, age,    \* of a send: its key, its amount, "new" while the
                           \* cooldown of its job lasts, "recent" for an hour, "old"
    saved,    \* history: sends that were written to the history
    sends, crashes, faults

file == <<history, lock, gate>>
ofSend == <<keyOf, amount, age, sends>>
ofSender == <<at, send, copy, held>>
bounds == <<crashes, faults>>
vars == <<file, ofSend, ofSender, saved, bounds>>

SendIds == 1..MaxSends
NoHistory == [perJob |-> {}, global |-> {}]

Init ==
    /\ history = NoHistory /\ gate = Free
    /\ lock \in {Free, Torn}
    /\ at = [s \in Senders |-> "idle"]
    /\ send = [s \in Senders |-> 0]
    /\ copy = [s \in Senders |-> NoHistory]
    /\ held = [s \in Senders |-> FALSE]
    /\ keyOf = [i \in SendIds |-> CHOOSE k \in Keys : TRUE]
    /\ amount = [i \in SendIds |-> 0]
    /\ age = [i \in SendIds |-> "old"]
    /\ saved = {} /\ sends = 0 /\ crashes = 0 /\ faults = 0

Alive(s) == at[s] # "dead"
Fault == crashes + faults < MaxFailures /\ faults' = faults + 1

-----------------------------------------------------------------------------
(* The gate. *)

Of(h, k) == {i \in h.perJob : keyOf[i] = k}
Total(I) == FoldSet(LAMBDA i, sum : sum + amount[i], 0, I)
Larger(a, b) == IF a < b THEN b ELSE a

\* A payment is judged by its own amount; a deposit is meant to be repeated.
jobPrice(k, a, sent) ==
    CASE KindOf[k] = "refund" -> Price
      [] KindOf[k] = "payment" -> a
      [] KindOf[k] = "deposit" -> Larger(a * MaxSendsPerJob, sent + a)

\* A mutant of checkDispatcherRateLimit: one send too many in the hour.
LimitOneMore(k, a) ==
    LET ofJob == Of(history, k)
        sent == Total(ofJob)
    IN  /\ Cardinality(ofJob) < MaxSendsPerJob
        /\ 10 * (sent + a) <= 11 * jobPrice(k, a, sent)
        /\ Cardinality({i \in history.global : age[i] # "old"}) <= MaxSendsPerHour
        /\ \A i \in ofJob : age[i] # "new"

\* A mutant of checkDispatcherRateLimit: each send is within the ceiling by itself.
LimitEachSend(k, a) ==
    LET ofJob == Of(history, k)
    IN  /\ Cardinality(ofJob) < MaxSendsPerJob
        /\ 10 * a <= 11 * jobPrice(k, a, 0)
        /\ Cardinality({i \in history.global : age[i] # "old"}) < MaxSendsPerHour
        /\ \A i \in ofJob : age[i] # "new"

checkDispatcherRateLimit(k, a) ==
    LET ofJob == Of(history, k)
        sent == Total(ofJob)
    IN  /\ Cardinality(ofJob) < MaxSendsPerJob
        /\ 10 * (sent + a) <= 11 * jobPrice(k, a, sent)
        /\ Cardinality({i \in history.global : age[i] # "old"}) < MaxSendsPerHour
        /\ \A i \in ofJob : age[i] # "new"

\* The refunds of a job are under its send lock, until the process dies.
SendLocked(k) == \E s \in Senders : Alive(s) /\ send[s] # 0 /\ keyOf[send[s]] = k

gateExternalSend(s, k, a) ==
    /\ at[s] = "idle" /\ sends < MaxSends
    /\ KindOf[k] = "refund" => ~SendLocked(k)
    /\ checkDispatcherRateLimit(k, a)
    /\ sends' = sends + 1
    /\ keyOf' = [keyOf EXCEPT ![sends'] = k] /\ amount' = [amount EXCEPT ![sends'] = a]
    /\ send' = [send EXCEPT ![s] = sends']
    /\ at' = [at EXCEPT ![s] = "send"]
    /\ UNCHANGED <<file, age, copy, held, saved, bounds>>

Stops(s) ==
    /\ at' = [at EXCEPT ![s] = "idle"] /\ send' = [send EXCEPT ![s] = 0]
    /\ copy' = [copy EXCEPT ![s] = NoHistory] /\ held' = [held EXCEPT ![s] = FALSE]
Goes(s, place) == at' = [at EXCEPT ![s] = place] /\ UNCHANGED <<send, copy, held>>

\* The send fails.  So it counts for the history, too, when a payment was
\* broadcast and its report to the platform failed: it is not recorded.
SendFails(s) ==
    /\ at[s] = "send" /\ Stops(s)
    /\ UNCHANGED <<file, ofSend, saved, bounds>>

-----------------------------------------------------------------------------
(* The record: withSendHistoryLock. *)

\* It was broadcast; its time is that of the call.
recordDispatcherSend(s) ==
    /\ at[s] = "send"
    /\ age' = [age EXCEPT ![send[s]] = "new"]
    /\ Goes(s, "lock")
    /\ UNCHANGED <<file, keyOf, amount, sends, saved, bounds>>

\* openSync with 'wx', then the process number.
Create(s) ==
    /\ at[s] = "lock" /\ lock = Free
    /\ lock' = Torn /\ Goes(s, "fill")
    /\ UNCHANGED <<history, gate, ofSend, saved, bounds>>
Fill(s) ==
    /\ at[s] = "fill"
    /\ lock' = s
    /\ at' = [at EXCEPT ![s] = "read"] /\ held' = [held EXCEPT ![s] = TRUE]
    /\ UNCHANGED <<history, gate, ofSend, send, copy, saved, bounds>>

Filling == \E s \in Senders : at[s] = "fill"

\* The holder is dead; or it has no number and is two seconds old, which a live
\* process is only if it stalls between the two calls.
Stealable ==
    \/ lock \in Senders /\ ~Alive(lock) /\ UNCHANGED faults
    \/ lock = Torn /\ IF Filling THEN Fault ELSE UNCHANGED faults

Judge(s) ==
    /\ at[s] = "lock" /\ Stealable
    /\ Goes(s, "gate")
    /\ UNCHANGED <<file, ofSend, saved, crashes>>

EnterGate(s) ==
    /\ at[s] = "gate" /\ gate = Free
    /\ gate' = s /\ Goes(s, "recheck")
    /\ UNCHANGED <<history, lock, ofSend, saved, bounds>>

\* Somebody is in the gate, or it is judged to be two seconds old and removed:
\* its process is dead, or stalls, or had come after the one that was judged.
GateIsTaken(s) ==
    /\ at[s] = "gate" /\ gate # Free
    /\ Goes(s, "lock") \/ Goes(s, "remove")
    /\ UNCHANGED <<file, ofSend, saved, bounds>>
RemoveGate(s) ==
    /\ at[s] = "remove"
    /\ gate' = Free /\ Goes(s, "lock")
    /\ IF gate # Free /\ Alive(gate) THEN Fault ELSE UNCHANGED faults
    /\ UNCHANGED <<history, lock, ofSend, saved, crashes>>

\* A mutant of Recheck: the first look is trusted.
RecheckNot(s) ==
    /\ at[s] = "recheck" /\ Goes(s, "install")
    /\ UNCHANGED <<file, ofSend, saved, bounds>>

\* Inside the gate the lock is read again.
Recheck(s) ==
    /\ at[s] = "recheck"
    /\ \/ Stealable /\ Goes(s, "install")
       \/ (lock \in Senders => Alive(lock)) /\ Goes(s, "ungate") /\ UNCHANGED faults
    /\ UNCHANGED <<file, ofSend, saved, crashes>>

Install(s) ==
    /\ at[s] = "install"
    /\ lock' = s /\ Goes(s, "readback")
    /\ UNCHANGED <<history, gate, ofSend, saved, bounds>>

ReadBack(s) ==
    /\ at[s] = "readback"
    /\ held' = [held EXCEPT ![s] = lock = s]
    /\ at' = [at EXCEPT ![s] = "ungate"]
    /\ UNCHANGED <<file, ofSend, send, copy, saved, bounds>>

\* Whatever gate is there is removed.
LeaveGate(s) ==
    /\ at[s] = "ungate"
    /\ gate' = Free
    /\ Goes(s, IF held[s] THEN "read" ELSE "lock")
    /\ UNCHANGED <<history, lock, ofSend, saved, bounds>>

\* Five seconds are over: the record is made without the lock.
GivesUp(s) ==
    /\ at[s] = "lock" /\ Fault
    /\ Goes(s, "read")
    /\ UNCHANGED <<file, ofSend, saved, crashes>>

Load(s) ==
    /\ at[s] = "read"
    /\ at' = [at EXCEPT ![s] = "save"]
    /\ \/ copy' = [copy EXCEPT ![s] = history] /\ UNCHANGED faults
       \/ copy' = [copy EXCEPT ![s] = NoHistory] /\ Fault
    /\ UNCHANGED <<file, ofSend, send, held, saved, crashes>>

Recorded(h, i) ==
    [perJob |-> h.perJob \cup {i}, global |-> {j \in h.global \cup {i} : age[j] # "old"}]

Save(s) ==
    /\ at[s] = "save"
    /\ \/ history' = Recorded(copy[s], send[s]) /\ saved' = saved \cup {send[s]} /\ UNCHANGED faults
       \/ Fault /\ UNCHANGED <<history, saved>>
    /\ IF held[s] THEN Goes(s, "token") ELSE Stops(s)
    /\ UNCHANGED <<lock, gate, ofSend, crashes>>

\* The lock is removed if it is still ours.
CheckToken(s) ==
    /\ at[s] = "token"
    /\ IF lock = s THEN Goes(s, "unlink") ELSE Stops(s)
    /\ UNCHANGED <<file, ofSend, saved, bounds>>
Unlink(s) ==
    /\ at[s] = "unlink"
    /\ lock' = Free /\ Stops(s)
    /\ UNCHANGED <<history, gate, ofSend, saved, bounds>>

Dies(s) ==
    /\ at[s] \notin {"idle", "dead"} /\ crashes + faults < MaxFailures
    /\ crashes' = crashes + 1
    /\ at' = [at EXCEPT ![s] = "dead"] /\ send' = [send EXCEPT ![s] = 0]
    /\ copy' = [copy EXCEPT ![s] = NoHistory] /\ held' = [held EXCEPT ![s] = FALSE]
    /\ UNCHANGED <<file, ofSend, saved, faults>>

\* The cooldown, then the hour of a send passes.
TimePasses(i) ==
    /\ age[i] # "old"
    /\ age' = [age EXCEPT ![i] = IF @ = "new" THEN "recent" ELSE "old"]
    /\ UNCHANGED <<file, keyOf, amount, sends, ofSender, saved, bounds>>

Locks(s) ==
    \/ Create(s) \/ Fill(s) \/ Judge(s) \/ EnterGate(s) \/ GateIsTaken(s)
    \/ RemoveGate(s) \/ Recheck(s)
    \/ Install(s) \/ ReadBack(s) \/ LeaveGate(s)
Records(s) ==
    \/ recordDispatcherSend(s) \/ Locks(s) \/ Load(s) \/ Save(s) \/ CheckToken(s) \/ Unlink(s)

Next ==
    \/ \E s \in Senders :
        \/ \E k \in Keys : \E a \in AmountsOf[k] : gateExternalSend(s, k, a)
        \/ SendFails(s) \/ Records(s) \/ GivesUp(s) \/ Dies(s)
    \/ \E i \in SendIds : TimePasses(i)

Spec == Init /\ [][Next]_vars

-----------------------------------------------------------------------------
(* Properties. *)

InFlight == {s \in Senders : at[s] \in {"send", "lock", "fill", "gate", "remove", "recheck",
                                        "install", "readback", "ungate", "read", "save"}}

\* The sends of the last hour.
Recent(h) == {i \in h.global : age[i] # "old"}

\* A record that was written stays in the history, whoever dies with the lock
\* or while taking it over, as long as nobody gives the lock up, stalls or
\* finds the disk full.
RecordIsKept == faults = 0 => saved \subseteq history.perJob

\* Under the same condition the sends of an hour are at most one per further
\* sender above the limit: each was judged before the others were recorded.
HourIsBounded ==
    faults = 0 => Cardinality(Recent(history)) + Cardinality(InFlight)
                      <= MaxSendsPerHour + Cardinality(Senders) - 1

\* And in value.
RefundIsBounded ==
    faults = 0 =>
        \A k \in Keys : KindOf[k] = "refund" =>
            10 * Total({i \in saved : keyOf[i] = k}) <= 11 * Price
=============================================================================
