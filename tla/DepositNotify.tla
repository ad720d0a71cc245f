--------------------------- MODULE DepositNotify ---------------------------
(***************************************************************************)
(* The platform notifications of DepositLedger (deposit-watcher.js:        *)
(* _markNotifyOwed, _clearNotifyOwed, retryPendingNotifies).               *)
(*                                                                         *)
(* A credit owes the platform one notification, recorded on its ledger     *)
(* record.  The answer to the first send arrives at any time; the poller   *)
(* re-sends what is still owed from a snapshot of deposits.json that it    *)
(* writes back whole after its last await.  Neither takes the deposit      *)
(* lock.  The daemon is one thread, so they run where the lock holder      *)
(* awaits.  The poller's interval does not wait for the previous tick,     *)
(* and reports come from the webhook, so a retry overlaps any other task.  *)
(* Attempt counts and backoff are a free choice: after a failed attempt    *)
(* the record is still owed, or given up.                                  *)
(***************************************************************************)
EXTENDS DepositLedger

CONSTANT MaxRetries      \* bound on re-send rounds
ASSUME MaxRetriesAssumption == MaxRetries \in Nat

VARIABLES
    retry,      \* the retry under way: the snapshot, and the records left to send
    told,       \* txids whose notification the platform accepted
    retries,    \* re-send rounds so far
    credited    \* history: txids that were ever on the meter

notifyVars == <<retry, told, retries, credited>>
allVars == <<vars, notifyVars>>

NoRetry == [on |-> FALSE, owed |-> {}]

\* Where the daemon's lock holder awaits (or there is none).
Awaiting == pc \in {"idle", "verify", "recheck"} \/ (pc = "credit" /\ task = "report")

NotifyInit == Init /\ retry = NoRetry /\ told = {} /\ retries = 0 /\ credited = {}

\* A ledger step; a daemon crash also ends the retry.
Ledger ==
    /\ TightNext
    /\ credited' = credited \cup {t \in Txids : meter'[t] > meter[t]}
    /\ retry' = IF crashes' # crashes /\ cli' = cli THEN NoRetry ELSE retry
    /\ UNCHANGED <<told, retries>>

Owed == {t \in Txids : processed[t].in /\ processed[t].notify}

\* The platform accepted the first send.
NotifyAccepted(t) ==
    /\ Awaiting /\ t \in Owed
    /\ processed' = [processed EXCEPT ![t].notify = FALSE]
    /\ told' = told \cup {t}
    /\ UNCHANGED <<chain, pending, creditedTxids, reversed, meters, daemon, cli,
                   crashes, retry, retries, credited>>

RetryBegin ==
    /\ Awaiting /\ ~retry.on /\ Owed # {} /\ retries < MaxRetries
    /\ retries' = retries + 1
    /\ retry' = [on |-> TRUE, owed |-> Owed, processed |-> processed, pending |-> pending,
                 creditedTxids |-> creditedTxids, reversed |-> reversed]
    /\ UNCHANGED <<vars, told, credited>>

\* One send: accepted, refused for good or given up, or to be tried again.
RetrySend(t) ==
    /\ Awaiting /\ retry.on /\ t \in retry.owed
    /\ \E result \in {"ok", "gaveUp", "retry"} :
          /\ retry' = [retry EXCEPT !.owed = @ \ {t},
                                    !.processed[t].notify = result = "retry"]
          /\ told' = IF result = "ok" THEN told \cup {t} ELSE told
    /\ UNCHANGED <<vars, retries, credited>>

\* The whole snapshot goes back to disk.
RetrySave ==
    /\ Awaiting /\ retry.on /\ retry.owed = {}
    /\ processed' = retry.processed /\ pending' = retry.pending
    /\ creditedTxids' = retry.creditedTxids /\ reversed' = retry.reversed
    /\ retry' = NoRetry
    /\ UNCHANGED <<chain, meters, daemon, cli, crashes, told, retries, credited>>

NotifyNext ==
    \/ Ledger
    \/ RetryBegin \/ RetrySave
    \/ \E t \in Txids : NotifyAccepted(t) \/ RetrySend(t)

NotifySpec == NotifyInit /\ [][NotifyNext]_allVars

\* The platform is never told of a deposit that did not reach the meter.
ToldOnlyWhenCredited == told \subseteq credited
=============================================================================
