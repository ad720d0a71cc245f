--------------------------- MODULE DepositLedger ---------------------------
(***************************************************************************)
(* The prepaid-deposit ledger of one api-endpoint agent: deposits.json and *)
(* the part of credit-meters.json that deposits move                       *)
(* (src/deposit-watcher.js, src/credit-meter.js).                          *)
(*                                                                         *)
(* Two processes share the two files.  The daemon answers deposit reports  *)
(* and runs the poller (reconcile the credits taken out of the mempool,    *)
(* recheck the reversals, sweep the pending deposits); the operator's CLI  *)
(* runs `deposits credit` and `deposits dismiss`.  Both work under the     *)
(* deposit lock, one task at a time, but either process may die between    *)
(* any two file writes, and the chain moves on while a task awaits it.     *)
(*                                                                         *)
(* Abstractions.  The meter of a buyer is kept per transaction: meter[t]   *)
(* is how many times the amount of t is in the buyer's totalDeposited      *)
(* (reports and sweeps credit, reversals debit).  Spending is not here, it *)
(* moves `balance` only.  The evidence that a transaction is gone (three   *)
(* misses over ten minutes and thirty blocks of a synced node) is a miss   *)
(* counter up to MinMisses followed by a free choice whether the time and  *)
(* block grace has passed.  "confirmed" is final and means the required    *)
(* confirmations are there.                                                *)
(***************************************************************************)
EXTENDS Naturals, Integers, FiniteSets

CONSTANTS
    Txids,          \* funding transactions
    Buyers,         \* buyers of this agent
    BuyerOf,        \* [Txids -> Buyers]: who funded (sender check of the report)
    ZeroConf,       \* transactions below 2 VRSC: required confirmations 0
    NoTx,           \* "no transaction"
    MinMisses,      \* RECONCILE_MIN_MISSES
    Notifying,      \* the agent has a notify context
    MaxCrashes      \* bound on process deaths

ASSUME NoTxAssumption == NoTx \notin Txids
ASSUME BuyerAssumption == BuyerOf \in [Txids -> Buyers]
ASSUME ZeroConfAssumption == ZeroConf \subseteq Txids
ASSUME MinMissesAssumption == MinMisses \in Nat \ {0}
ASSUME NotifyingAssumption == Notifying \in BOOLEAN
ASSUME MaxCrashesAssumption == MaxCrashes \in Nat

VARIABLES
    chain,          \* [Txids -> status on the network]
    processed,      \* deposits.json: the credit records, one slot per txid
    pending,        \* deposits.json: reported, waiting for confirmations
    creditedTxids,  \* deposits.json: the dedup ledger proper
    reversed,       \* deposits.json: the last reversal of each txid
    meter,          \* credit-meters.json, see the header
    lastDeposit,    \* credit-meters.json: lastDepositTxid of each buyer
    claims,         \* daemon memory: _claimsInProgress
    pc,             \* daemon: where the task holding the deposit lock is
    task,           \* daemon: which task that is
    cur,            \* daemon: the txid it is working on
    look,           \* daemon: what this reconcile pass looked up, per txid
    todo,           \* daemon: txids the sweep or the recheck has left
    cli,            \* the operator's CLI process
    crashes         \* process deaths so far

disk == <<processed, pending, creditedTxids, reversed>>
meters == <<meter, lastDeposit>>
daemon == <<claims, pc, task, cur, look, todo>>
vars == <<chain, disk, meters, daemon, cli, crashes>>

-----------------------------------------------------------------------------
(* Records *)

Statuses == {"mempool", "confirmed", "dropped"}
Outcomes == {"none", "confirmed", "mempool", "strong", "transient"}
Reversals == {"none", "debiting", "debited", "recredited"}
Reasons == {"none", "ambiguousReversal", "withheld", "unprovenCredit",
            "restoreInterrupted", "confirmedUndebited"}
\* resolvedAt: not set, by an operator's verb, by the code itself.
Resolutions == {"no", "operator", "automatic"}

\* A slot of `processed'; in = FALSE is "no record".
ProcessedRecord ==
    [in : BOOLEAN, crediting : BOOLEAN, unconfirmed : BOOLEAN,
     reversal : Reversals, needsOperator : Reasons, withheld : BOOLEAN,
     resolving : BOOLEAN, resolved : Resolutions, notify : BOOLEAN,
     misses : Nat]

\* A slot of `reversed'; late = older than REVERSAL_RECHECK_WINDOW_MS.
ReversedRecord ==
    [in : BOOLEAN, debited : BOOLEAN, restoring : BOOLEAN, restored : BOOLEAN,
     late : BOOLEAN, needsOperator : Reasons, resolving : BOOLEAN,
     resolved : Resolutions]

NoRecord ==
    [in |-> FALSE, crediting |-> FALSE, unconfirmed |-> FALSE,
     reversal |-> "none", needsOperator |-> "none", withheld |-> FALSE,
     resolving |-> FALSE, resolved |-> "no", notify |-> FALSE, misses |-> 0]

\* One operator per edit of a record; Flagged, Resolving, Resolved and Dismissed
\* edit the slots of both lists.
Filed(record) == [record EXCEPT !.in = TRUE]
SettledRecord == Filed(NoRecord)
Crediting(record) == [record EXCEPT !.crediting = TRUE]
FromMempool(record) == [record EXCEPT !.unconfirmed = TRUE]
Finalized(record) == [record EXCEPT !.crediting = FALSE]
NotifyOwed(record) == [record EXCEPT !.notify = TRUE]
Stamped(record, stamp) == [record EXCEPT !.reversal = stamp]
SeenAgain(record) == [record EXCEPT !.misses = 0]
Withheld(record) == [record EXCEPT !.needsOperator = "withheld", !.withheld = TRUE]

Flagged(record, reason) ==
    [record EXCEPT !.needsOperator = IF @ = "none" THEN reason ELSE @]
Resolving(record) == [record EXCEPT !.resolving = TRUE]
Resolved(record) ==
    [record EXCEPT !.resolving = FALSE, !.resolved = "operator", !.needsOperator = "none"]
Dismissed(record) ==
    [record EXCEPT !.resolved = "operator", !.needsOperator = "none"]

NewReversal(certain) ==
    [in |-> TRUE, debited |-> certain, restoring |-> FALSE, restored |-> FALSE,
     late |-> FALSE, needsOperator |-> "none", resolving |-> FALSE,
     resolved |-> "no"]
NoReversal ==
    [in |-> FALSE, debited |-> FALSE, restoring |-> FALSE, restored |-> FALSE,
     late |-> FALSE, needsOperator |-> "none", resolving |-> FALSE,
     resolved |-> "no"]

Late(entry) == [entry EXCEPT !.late = TRUE]
Restoring(entry) == [entry EXCEPT !.restoring = TRUE]
Restored(entry) == [entry EXCEPT !.restoring = FALSE, !.restored = TRUE]
Closed(entry) == [entry EXCEPT !.restored = TRUE]
Superseded(entry) ==
    [entry EXCEPT !.restored = TRUE,
                  !.resolved = IF @ = "no" /\ entry.needsOperator # "none"
                               THEN "automatic" ELSE @,
                  !.needsOperator = IF entry.resolved = "no" THEN "none" ELSE @]

CliRecord ==
    [at : {"off", "asked", "crediting", "settling"}, tx : Txids \cup {NoTx},
     action : {"none", "credit", "dismiss"}, where : {"none", "processed", "reversed"}]

CliOff == [at |-> "off", tx |-> NoTx, action |-> "none", where |-> "none"]

DaemonPoints ==
    {"idle", "verify", "credit", "finalize", "sweep", "reconcile", "debit",
     "debited", "remove", "recredit", "confirm", "recheck", "restore", "settle"}

\* Where the daemon is working on one transaction.
AtWork == DaemonPoints \ {"idle", "sweep", "reconcile", "recheck"}

\* The shape of the two files and of the memory of the two processes;
\* the daemon works on a transaction wherever a step needs one.
TypeOK ==
    /\ chain \in [Txids -> Statuses]
    /\ processed \in [Txids -> ProcessedRecord]
    /\ pending \in SUBSET Txids
    /\ creditedTxids \in SUBSET Txids
    /\ \A t \in Txids : processed[t].misses <= MinMisses
    /\ reversed \in [Txids -> ReversedRecord]
    /\ meter \in [Txids -> Int]
    /\ lastDeposit \in [Buyers -> Txids \cup {NoTx}]
    /\ claims \in SUBSET Txids
    /\ pc \in DaemonPoints
    /\ task \in {"none", "report", "sweep", "reconcile"}
    /\ cur \in Txids \cup {NoTx}
    /\ pc \in AtWork => cur \in Txids
    /\ look \in [Txids -> Outcomes]
    /\ todo \in SUBSET Txids
    /\ cli \in CliRecord
    /\ cli.at # "off" => cli.tx \in Txids
    /\ crashes \in 0..MaxCrashes

Init ==
    /\ chain = [t \in Txids |-> "mempool"]
    /\ processed = [t \in Txids |-> NoRecord]
    /\ pending = {}
    /\ creditedTxids = {}
    /\ reversed = [t \in Txids |-> NoReversal]
    /\ meter = [t \in Txids |-> 0]
    /\ lastDeposit = [b \in Buyers |-> NoTx]
    /\ claims = {}
    /\ pc = "idle" /\ task = "none" /\ cur = NoTx
    /\ look = [t \in Txids |-> "none"]
    /\ todo = {}
    /\ cli = CliOff
    /\ crashes = 0

-----------------------------------------------------------------------------
(* The chain, as the platform reports it.  A mempool transaction is mined or
   disappears; a transaction that disappeared may come back. *)

ChainStep(t) ==
    /\ \/ chain[t] = "mempool" /\ \E s \in {"confirmed", "dropped"} :
                                     chain' = [chain EXCEPT ![t] = s]
       \/ chain[t] = "dropped" /\ chain' = [chain EXCEPT ![t] = "mempool"]
    /\ UNCHANGED <<disk, meters, daemon, cli, crashes>>

\* 24 hours after the reversal; no lock hold lasts that long.
WindowPasses(t) ==
    /\ pc = "idle" /\ reversed[t].in /\ ~reversed[t].late
    /\ reversed' = [reversed EXCEPT ![t] = Late(@)]
    /\ UNCHANGED <<chain, processed, pending, creditedTxids, meters, daemon, cli, crashes>>

-----------------------------------------------------------------------------
(* The meter (credit-meter.js).  A repeat of the buyer's last deposit is not
   credited again; a reversal forgets it. *)

CreditMeter(t) ==
    /\ meter' = IF lastDeposit[BuyerOf[t]] = t THEN meter
                ELSE [meter EXCEPT ![t] = @ + 1]
    /\ lastDeposit' = [lastDeposit EXCEPT ![BuyerOf[t]] = t]

DebitMeter(t) ==
    /\ meter' = [meter EXCEPT ![t] = @ - 1]
    /\ lastDeposit' = IF lastDeposit[BuyerOf[t]] = t
                      THEN [lastDeposit EXCEPT ![BuyerOf[t]] = NoTx]
                      ELSE lastDeposit

-----------------------------------------------------------------------------
(* Helpers on the ledger *)

\* Mutant: the dedup reads the trimmed audit log only.
HasCreditedAudit(t) == processed[t].in

HasCredited(t) == t \in creditedTxids \/ processed[t].in

\* A reversal that _recheckReversals may still undo by itself.
Restorable(t) ==
    /\ reversed[t].in /\ reversed[t].debited
    /\ ~reversed[t].restored /\ ~reversed[t].restoring

\* _settleReversedForTxid: another path credited the txid.
SettleReversed(t) ==
    IF reversed[t].in /\ ~reversed[t].restored
    THEN [reversed EXCEPT ![t] = Superseded(@)]
    ELSE reversed

\* STUCK_CREDITING_MS is longer than any credit that is still under way.
InFlight(t) == cur = t /\ pc \in {"credit", "finalize"}

ProcessedAnomaly(t) ==
    /\ processed[t].in /\ processed[t].resolved = "no"
    /\ processed[t].needsOperator # "none" \/ (processed[t].crediting /\ ~InFlight(t))

ReversedAnomaly(t) ==
    reversed[t].in /\ reversed[t].resolved = "no" /\ reversed[t].needsOperator # "none"

\* What `deposits list' and /health show the operator.
Anomaly(t) == ProcessedAnomaly(t) \/ ReversedAnomaly(t)

CliHoldsLock == cli.at \in {"crediting", "settling"}
LockFree == pc = "idle" /\ ~CliHoldsLock

\* The task ends, or throws, and its finally releases the lock.
Release ==
    /\ pc' = "idle" /\ task' = "none" /\ cur' = NoTx
    /\ look' = [t \in Txids |-> "none"] /\ todo' = {}

Goto(point) == pc' = point /\ UNCHANGED <<task, cur, look, todo>>

\* After one deposit the report is done; the sweep takes the next one.
Return ==
    IF task = "sweep"
    THEN pc' = "sweep" /\ cur' = NoTx /\ UNCHANGED <<task, look, todo>>
    ELSE Release

-----------------------------------------------------------------------------
(* Crediting a deposit: reportDeposit and the pending sweep share the three
   phases claim / intent / money / settle. *)

\* claimTxid, then the first await (verifyPayment, getTxStatus).
Claim(t) ==
    /\ t \notin claims /\ ~HasCredited(t)
    /\ claims' = claims \cup {t}
    /\ pc' = "verify" /\ cur' = t

\* A buyer's authenticated report reaches the locked half.
ReportBegin(t) ==
    /\ LockFree
    /\ Claim(t)
    /\ task' = "report"
    /\ UNCHANGED <<chain, disk, meters, look, todo, cli, crashes>>

\* The poller's second lock hold.
SweepBegin ==
    /\ LockFree /\ pending # {}
    /\ pc' = "sweep" /\ task' = "sweep" /\ todo' = pending
    /\ UNCHANGED <<chain, disk, meters, claims, cur, look, cli, crashes>>

SweepNext(t) ==
    /\ pc = "sweep" /\ t \in todo
    /\ todo' = todo \ {t}
    /\ \/ Claim(t) /\ UNCHANGED <<task, look>>
       \/ (t \in claims \/ HasCredited(t)) /\ UNCHANGED <<claims, pc, task, cur, look>>
    /\ UNCHANGED <<chain, disk, meters, cli, crashes>>

SweepEnd ==
    /\ pc = "sweep" /\ todo = {}
    /\ Release
    /\ UNCHANGED <<chain, disk, meters, claims, cli, crashes>>

EnoughConfirmations(t) ==
    chain[t] = "confirmed" \/ (t \in ZeroConf /\ chain[t] = "mempool")

\* Verification refused, an API error, or (belt and braces) already credited.
VerifyFails ==
    /\ pc = "verify"
    /\ claims' = claims \ {cur}
    /\ Return
    /\ UNCHANGED <<chain, disk, meters, cli, crashes>>

\* Too few confirmations: a report is parked in `pending', the sweep keeps it.
VerifyWaits ==
    /\ pc = "verify" /\ chain[cur] = "mempool" /\ ~EnoughConfirmations(cur)
    /\ pending' = pending \cup {cur}
    /\ claims' = claims \ {cur}
    /\ Return
    /\ UNCHANGED <<chain, processed, creditedTxids, reversed, meters, cli, crashes>>

\* A credit taken out of the mempool is marked for the reconciler; the sweep
\* credits with confirmations only.
CreditingRecord ==
    IF task = "report" /\ chain[cur] = "mempool"
    THEN FromMempool(Crediting(SettledRecord))
    ELSE Crediting(SettledRecord)

\* Mutant: the notification is owed from the intent on.
RecordCreditIntentNotify ==
    /\ pc = "verify" /\ EnoughConfirmations(cur) /\ ~HasCredited(cur)
    /\ processed' = [processed EXCEPT ![cur] = NotifyOwed(CreditingRecord)]
    /\ pending' = pending \ {cur}
    /\ reversed' = SettleReversed(cur)
    /\ creditedTxids' = creditedTxids \cup {cur}
    /\ Goto("credit")
    /\ UNCHANGED <<chain, meters, claims, cli, crashes>>

\* _recordCreditIntent: the record, the dedup entry and the settled reversal
\* reach the disk in one write, before any money moves.
RecordCreditIntent ==
    /\ pc = "verify" /\ EnoughConfirmations(cur) /\ ~HasCredited(cur)
    /\ processed' = [processed EXCEPT ![cur] = CreditingRecord]
    /\ pending' = pending \ {cur}
    /\ reversed' = SettleReversed(cur)
    /\ creditedTxids' = creditedTxids \cup {cur}
    /\ Goto("credit")
    /\ UNCHANGED <<chain, meters, claims, cli, crashes>>

CreditMoney ==
    /\ pc = "credit"
    /\ CreditMeter(cur)
    /\ Goto("finalize")
    /\ UNCHANGED <<chain, disk, claims, cli, crashes>>

\* The meter is locked by another process or cannot be written
\* (CREDIT_WRITE_FAILED): the record stays `crediting', the claim stays taken.
CreditMoneyFails ==
    /\ pc = "credit"
    /\ Return
    /\ UNCHANGED <<chain, disk, meters, claims, cli, crashes>>

\* _finalizeCredit and _markNotifyOwed; either save may fail and be swallowed.
FinalizeCredit ==
    /\ pc = "finalize"
    /\ \E record \in {processed[cur], Finalized(processed[cur])} :
          \/ processed' = [processed EXCEPT ![cur] = record]
          \/ Notifying /\ processed' = [processed EXCEPT ![cur] = NotifyOwed(record)]
    /\ Return
    /\ UNCHANGED <<chain, pending, creditedTxids, reversed, meters, claims, cli, crashes>>

-----------------------------------------------------------------------------
(* reconcileUnconfirmedDeposits: the poller's first lock hold. *)

Open == {t \in Txids : processed[t].in /\ processed[t].unconfirmed}

\* Entry of _recheckReversals: flag the restores a crash interrupted, then
\* take every reversal inside the window that is not undone yet.
EnterRecheck ==
    /\ reversed' = [t \in Txids |->
           IF reversed[t].in /\ reversed[t].restoring
           THEN Flagged(reversed[t], "restoreInterrupted") ELSE reversed[t]]
    /\ todo' = {t \in Txids : /\ reversed[t].in /\ ~reversed[t].late
                              /\ ~reversed[t].restored /\ ~reversed[t].restoring}
    /\ pc' = "recheck" /\ task' = "reconcile" /\ cur' = NoTx
    /\ look' = [t \in Txids |-> "none"]

\* What a lookup may answer: the truth, or nothing readable.
Answers(t) == {"transient", IF chain[t] = "dropped" THEN "strong" ELSE chain[t]}

\* Mutant: nothing open, nothing to do.
ReconcileIdleOpen ==
    /\ LockFree
    /\ IF Open = {} THEN UNCHANGED <<reversed, pc, task, cur, look, todo>>
       ELSE EnterRecheck
    /\ UNCHANGED <<chain, processed, pending, creditedTxids, meters, claims, cli, crashes>>

\* Nothing is open, or the node's word is not worth acting on: recheck only.
ReconcileIdle ==
    /\ LockFree
    /\ EnterRecheck
    /\ UNCHANGED <<chain, processed, pending, creditedTxids, meters, claims, cli, crashes>>

\* Mutant: the systemic guard also fires on a single lookup.
ReconcileBeginLone ==
    /\ LockFree /\ Open # {}
    /\ \E found \in [Txids -> Outcomes] :
          /\ \A t \in Txids : found[t] \in (IF t \in Open THEN Answers(t) ELSE {"none"})
          /\ \E t \in Open : found[t] # "strong"
          /\ look' = found
    /\ pc' = "reconcile" /\ task' = "reconcile"
    /\ UNCHANGED <<chain, disk, meters, claims, cur, todo, cli, crashes>>

\* Phase 1 looks everything up; phase 2 drops a pass in which every one of
\* several lookups says the chain does not know the transaction.
ReconcileBegin ==
    /\ LockFree /\ Open # {}
    /\ \E found \in [Txids -> Outcomes] :
          /\ \A t \in Txids : found[t] \in (IF t \in Open THEN Answers(t) ELSE {"none"})
          /\ Cardinality(Open) > 1 => \E t \in Open : found[t] # "strong"
          /\ look' = found
    /\ pc' = "reconcile" /\ task' = "reconcile"
    /\ UNCHANGED <<chain, disk, meters, claims, cur, todo, cli, crashes>>

Judged(t) == look' = [look EXCEPT ![t] = "none"]

\* The record is put back on disk and the pass takes the next one.
SaveAndNext(t, record) ==
    /\ processed' = [processed EXCEPT ![t] = record]
    /\ Judged(t)
    /\ pc' = "reconcile" /\ cur' = NoTx
    /\ UNCHANGED <<task, todo>>

\* Mutant: a reversal stamp found on confirmation raises no flag.
ConfirmedUnflagged(record, reason) ==
    [record EXCEPT !.unconfirmed = FALSE, !.misses = 0, !.reversal = "none"]

\* The confirmed branch after the reversal state is dealt with.
Confirmed(record, reason) ==
    [record EXCEPT !.unconfirmed = FALSE, !.misses = 0, !.reversal = "none",
                   !.needsOperator = IF record.withheld THEN "none" ELSE reason,
                   !.resolved = IF record.withheld THEN "automatic" ELSE @,
                   !.withheld = FALSE]

Live(t) == processed[t].in /\ processed[t].unconfirmed

ReconcileSkips(t) ==
    /\ pc = "reconcile" /\ look[t] # "none"
    /\ look[t] = "transient" \/ ~Live(t)
    /\ Judged(t)
    /\ UNCHANGED <<chain, disk, meters, claims, pc, task, cur, todo, cli, crashes>>

\* Confirmed, and no debit is proven: a reversal stamp means nobody can tell.
ReconcileConfirms(t) ==
    /\ pc = "reconcile" /\ look[t] = "confirmed" /\ Live(t)
    /\ processed[t].reversal # "debited"
    /\ SaveAndNext(t, Confirmed(processed[t],
           IF processed[t].reversal = "none" THEN processed[t].needsOperator
           ELSE "ambiguousReversal"))
    /\ UNCHANGED <<chain, pending, creditedTxids, reversed, meters, claims, cli, crashes>>

\* Confirmed after a completed debit: flag first, then give the money back.
RecreditIntent(t) ==
    /\ pc = "reconcile" /\ look[t] = "confirmed" /\ Live(t)
    /\ processed[t].reversal = "debited"
    /\ processed' = [processed EXCEPT ![t] = Stamped(@, "recredited")]
    /\ pc' = "recredit" /\ cur' = t
    /\ UNCHANGED <<chain, pending, creditedTxids, reversed, meters, claims,
                   task, look, todo, cli, crashes>>

RecreditMoney ==
    /\ pc = "recredit"
    /\ CreditMeter(cur)
    /\ Goto("confirm")
    /\ UNCHANGED <<chain, disk, claims, cli, crashes>>

RecreditConfirms ==
    /\ pc = "confirm"
    /\ SaveAndNext(cur, Confirmed(processed[cur], processed[cur].needsOperator))
    /\ UNCHANGED <<chain, pending, creditedTxids, reversed, meters, claims, cli, crashes>>

StillInMempool(t) ==
    /\ pc = "reconcile" /\ look[t] = "mempool" /\ Live(t)
    /\ SaveAndNext(t, SeenAgain(processed[t]))
    /\ UNCHANGED <<chain, pending, creditedTxids, reversed, meters, claims, cli, crashes>>

-----------------------------------------------------------------------------
(* The chain does not know the transaction. *)

Missed(t) == pc = "reconcile" /\ look[t] = "strong" /\ Live(t)

\* Mutant: the intent stamp alone does not count as a debit.
AlreadyDebitedProven(t) == processed[t].reversal = "debited"

AlreadyDebited(t) == processed[t].reversal \in {"debiting", "debited"}

\* The credit itself is in doubt: never debit it, ask.
MissedMidCredit(t) ==
    /\ Missed(t) /\ processed[t].crediting
    /\ SaveAndNext(t, Flagged(processed[t], "unprovenCredit"))
    /\ UNCHANGED <<chain, pending, creditedTxids, reversed, meters, claims, cli, crashes>>

CountMiss(record) ==
    [record EXCEPT !.misses = IF @ < MinMisses THEN @ + 1 ELSE @]

\* Too early, or the financial kill switch is on.
MissedTooEarly(t) ==
    /\ Missed(t) /\ ~processed[t].crediting /\ ~AlreadyDebited(t)
    /\ \/ SaveAndNext(t, CountMiss(processed[t]))
       \/ /\ CountMiss(processed[t]).misses = MinMisses
          /\ SaveAndNext(t, processed[t])
    /\ UNCHANGED <<chain, pending, creditedTxids, reversed, meters, claims, cli, crashes>>

ReversalDue(t) ==
    /\ Missed(t) /\ ~processed[t].crediting /\ ~AlreadyDebited(t)
    /\ CountMiss(processed[t]).misses = MinMisses

\* Due, but other agents have used up the fleet's budget for reversals.
ReversalWithheld(t) ==
    /\ ReversalDue(t)
    /\ SaveAndNext(t, Withheld(CountMiss(processed[t])))
    /\ UNCHANGED <<chain, pending, creditedTxids, reversed, meters, claims, cli, crashes>>

ReversalIntent(t) ==
    /\ ReversalDue(t)
    /\ processed' = [processed EXCEPT ![t] = Stamped(CountMiss(@), "debiting")]
    /\ pc' = "debit" /\ cur' = t
    /\ UNCHANGED <<chain, pending, creditedTxids, reversed, meters, claims,
                   task, look, todo, cli, crashes>>

ReversalMoney ==
    /\ pc = "debit"
    /\ DebitMeter(cur)
    /\ Goto("debited")
    /\ UNCHANGED <<chain, disk, claims, cli, crashes>>

ReversalDebited ==
    /\ pc = "debited"
    /\ processed' = [processed EXCEPT ![cur] = Stamped(@, "debited")]
    /\ Goto("remove")
    /\ UNCHANGED <<chain, pending, creditedTxids, reversed, meters, claims, cli, crashes>>

\* Mutant: the txid is freed whether or not the debit ran.
MoveToReversedFree(t, certain) ==
    /\ SaveAndNext(t, NoRecord)
    /\ reversed' = [reversed EXCEPT ![t] = NewReversal(certain)]
    /\ creditedTxids' = creditedTxids \ {t}
    /\ claims' = claims \ {t}
    /\ UNCHANGED <<chain, pending, meters, cli, crashes>>

\* The bookkeeping.  Only a debit that certainly ran frees the txid.
MoveToReversed(t, certain) ==
    /\ SaveAndNext(t, NoRecord)
    /\ reversed' = [reversed EXCEPT ![t] = NewReversal(certain)]
    /\ creditedTxids' = IF certain THEN creditedTxids \ {t} ELSE creditedTxids
    /\ claims' = IF certain THEN claims \ {t} ELSE claims
    /\ UNCHANGED <<chain, pending, meters, cli, crashes>>

ReversalRecorded == pc = "remove" /\ MoveToReversed(cur, TRUE)

\* A crash left the stamp: complete the bookkeeping, never debit again.
ReversalForgiven(t) ==
    /\ Missed(t) /\ ~processed[t].crediting /\ AlreadyDebited(t)
    /\ MoveToReversed(t, FALSE)

\* All records judged: on to the recheck.
ReconcileEnd ==
    /\ pc = "reconcile" /\ \A t \in Txids : look[t] = "none"
    /\ EnterRecheck
    /\ UNCHANGED <<chain, processed, pending, creditedTxids, meters, claims, cli, crashes>>

-----------------------------------------------------------------------------
(* _recheckReversals: undo a reversal whose transaction confirmed. *)

\* The debit was not certain: the operator has to look.  The code flags such
\* an entry without looking the transaction up.
RecheckFlags(t) ==
    /\ pc = "recheck" /\ t \in todo /\ ~reversed[t].debited
    /\ reversed' = [reversed EXCEPT ![t] =
           IF @.restored THEN @ ELSE Flagged(@, "confirmedUndebited")]
    /\ todo' = todo \ {t}
    /\ UNCHANGED <<chain, processed, pending, creditedTxids, meters, claims,
                   pc, task, cur, look, cli, crashes>>

\* Not on the chain, or no readable answer.
RecheckWaits(t) ==
    /\ pc = "recheck" /\ t \in todo /\ reversed[t].debited
    /\ todo' = todo \ {t}
    /\ UNCHANGED <<chain, disk, meters, claims, pc, task, cur, look, cli, crashes>>

\* Intent and dedup entry in one write, then the money, then the settlement.
RestoreIntent(t) ==
    /\ pc = "recheck" /\ t \in todo /\ Restorable(t) /\ chain[t] = "confirmed"
    /\ reversed' = [reversed EXCEPT ![t] = Restoring(@)]
    /\ processed' = IF processed[t].in THEN processed
                    ELSE [processed EXCEPT ![t] = SettledRecord]
    /\ creditedTxids' = creditedTxids \cup {t}
    /\ todo' = todo \ {t}
    /\ pc' = "restore" /\ cur' = t
    /\ UNCHANGED <<chain, pending, meters, claims, task, look, cli, crashes>>

RestoreMoney ==
    /\ pc = "restore"
    /\ CreditMeter(cur)
    /\ Goto("settle")
    /\ UNCHANGED <<chain, disk, claims, cli, crashes>>

RestoreSettles ==
    /\ pc = "settle"
    /\ reversed' = [reversed EXCEPT ![cur] = Restored(@)]
    /\ pc' = "recheck" /\ cur' = NoTx
    /\ UNCHANGED <<chain, processed, pending, creditedTxids, meters, claims,
                   task, look, todo, cli, crashes>>

RecheckEnd ==
    /\ pc = "recheck" /\ todo = {}
    /\ Release
    /\ UNCHANGED <<chain, disk, meters, claims, cli, crashes>>

\* creditDeposit or reverseDeposit fails closed: the pass is abandoned.
PassFails ==
    /\ pc \in {"recredit", "debit", "restore"}
    /\ Release
    /\ UNCHANGED <<chain, disk, meters, claims, cli, crashes>>

-----------------------------------------------------------------------------
(* The operator's CLI. *)

CliGoto(point, list) ==
    cli' = [at |-> point, tx |-> cli.tx, action |-> cli.action, where |-> list]

\* The flags ask a human to compare the meter with the chain; the operator of
\* this model does it right, and then runs the verb.
CliBegin(t, action) ==
    /\ cli.at = "off" /\ Anomaly(t)
    /\ \/ action = "credit" /\ chain[t] = "confirmed" /\ meter[t] = 0
       \/ action = "dismiss" /\ (meter[t] = 1 \/ chain[t] = "dropped")
    /\ cli' = [at |-> "asked", tx |-> t, action |-> action, where |-> "none"]
    /\ UNCHANGED <<chain, disk, meters, daemon, crashes>>

\* Under the lock: settled meanwhile, or interrupted before; nothing to do.
CliRefused ==
    /\ cli.at = "asked" /\ LockFree
    /\ \/ ~Anomaly(cli.tx)
       \/ /\ cli.action = "credit"
          /\ IF ProcessedAnomaly(cli.tx) THEN processed[cli.tx].resolving
             ELSE reversed[cli.tx].resolving
    /\ cli' = CliOff
    /\ UNCHANGED <<chain, disk, meters, daemon, crashes>>

CliCreditIntent ==
    /\ cli.at = "asked" /\ cli.action = "credit" /\ LockFree
    /\ \/ /\ ProcessedAnomaly(cli.tx) /\ ~processed[cli.tx].resolving
          /\ processed' = [processed EXCEPT ![cli.tx] = Resolving(@)]
          /\ CliGoto("crediting", "processed")
          /\ UNCHANGED reversed
       \/ /\ ~ProcessedAnomaly(cli.tx) /\ ReversedAnomaly(cli.tx)
          /\ ~reversed[cli.tx].resolving
          /\ reversed' = [reversed EXCEPT ![cli.tx] = Resolving(@)]
          /\ CliGoto("crediting", "reversed")
          /\ UNCHANGED processed
    /\ UNCHANGED <<chain, pending, creditedTxids, meters, daemon, crashes>>

CliCreditMoney ==
    /\ cli.at = "crediting"
    /\ CreditMeter(cli.tx)
    /\ CliGoto("settling", cli.where)
    /\ UNCHANGED <<chain, disk, daemon, crashes>>

\* A reversal took the txid out of the dedup ledger; it goes back in.
CliCreditSettles ==
    /\ cli.at = "settling"
    /\ IF cli.where = "processed"
       THEN /\ processed' = [processed EXCEPT ![cli.tx] = Resolved(@)]
            /\ UNCHANGED reversed
       ELSE /\ reversed' = [reversed EXCEPT ![cli.tx] = Closed(Resolved(@))]
            /\ processed' = IF processed[cli.tx].in THEN processed
                            ELSE [processed EXCEPT ![cli.tx] = SettledRecord]
    /\ creditedTxids' = creditedTxids \cup {cli.tx}
    /\ cli' = CliOff
    /\ UNCHANGED <<chain, pending, meters, daemon, crashes>>

CliDismiss ==
    /\ cli.at = "asked" /\ cli.action = "dismiss" /\ LockFree
    /\ \/ /\ ProcessedAnomaly(cli.tx)
          /\ processed' = [processed EXCEPT ![cli.tx] = Dismissed(@)]
          /\ UNCHANGED reversed
       \/ /\ ~ProcessedAnomaly(cli.tx) /\ ReversedAnomaly(cli.tx)
          /\ reversed' = [reversed EXCEPT ![cli.tx] = Dismissed(@)]
          /\ UNCHANGED processed
    /\ cli' = CliOff
    /\ UNCHANGED <<chain, pending, creditedTxids, meters, daemon, crashes>>

-----------------------------------------------------------------------------
(* A process dies; the lock of a dead process is stolen.  The daemon forgets
   its claims. *)

DaemonCrash ==
    /\ crashes < MaxCrashes
    /\ crashes' = crashes + 1
    /\ Release /\ claims' = {}
    /\ UNCHANGED <<chain, disk, meters, cli>>

CliCrash ==
    /\ crashes < MaxCrashes /\ cli.at # "off"
    /\ crashes' = crashes + 1
    /\ cli' = CliOff
    /\ UNCHANGED <<chain, disk, meters, daemon>>

CreditSteps ==
    \/ \E t \in Txids : ReportBegin(t) \/ SweepNext(t)
    \/ SweepBegin \/ SweepEnd
    \/ VerifyFails \/ VerifyWaits \/ RecordCreditIntent
    \/ CreditMoney \/ CreditMoneyFails \/ FinalizeCredit

ReconcileSteps ==
    \/ ReconcileIdle \/ ReconcileBegin \/ ReconcileEnd
    \/ \E t \in Txids :
          \/ ReconcileSkips(t) \/ ReconcileConfirms(t) \/ RecreditIntent(t)
          \/ StillInMempool(t) \/ MissedMidCredit(t) \/ MissedTooEarly(t)
          \/ ReversalIntent(t) \/ ReversalForgiven(t)
    \/ RecreditMoney \/ RecreditConfirms
    \/ ReversalMoney \/ ReversalDebited \/ ReversalRecorded
    \/ PassFails

RecheckSteps ==
    \/ \E t \in Txids : RecheckFlags(t) \/ RecheckWaits(t) \/ RestoreIntent(t)
    \/ RestoreMoney \/ RestoreSettles \/ RecheckEnd

CliSteps ==
    \/ \E t \in Txids, a \in {"credit", "dismiss"} : CliBegin(t, a)
    \/ CliRefused \/ CliCreditIntent \/ CliCreditMoney \/ CliCreditSettles
    \/ CliDismiss

Environment ==
    \/ \E t \in Txids : ChainStep(t) \/ WindowPasses(t)
    \/ DaemonCrash \/ CliCrash

\* The ledger of an agent whose fleet has reversals left in its budget, and of
\* one whose fleet may have none.
Next == CreditSteps \/ ReconcileSteps \/ RecheckSteps \/ CliSteps \/ Environment
TightNext == Next \/ \E t \in Txids : ReversalWithheld(t)

Spec == Init /\ [][Next]_vars

\* A readable answer for every open record of a pass.
ReconcileInformed ==
    ReconcileBegin /\ \A t \in Open : look'[t] # "transient"

\* The poller's timer fires for ever and the lock queue is first come, first
\* served; a task that holds the lock goes on; the platform answers, and the
\* block grace passes, again and again.
Fairness ==
    /\ WF_vars(pc # "idle" /\ (CreditSteps \/ ReconcileSteps \/ RecheckSteps))
    /\ WF_vars(cli.at # "off" /\ CliSteps)
    /\ SF_vars(SweepBegin) /\ SF_vars(ReconcileInformed) /\ SF_vars(ReconcileIdle)
    /\ \A t \in ZeroConf : /\ SF_vars(RecordCreditIntent /\ cur = t)
                           /\ SF_vars(RestoreIntent(t))
                           /\ SF_vars(ReversalIntent(t))

FairSpec == Spec /\ Fairness

-----------------------------------------------------------------------------
(* Properties *)

\* The deposit of one transaction is on the meter at most once, whatever
\* reports, sweeps, restores, operator verbs and crashes do.
NeverCreditedTwice == \A t \in Txids : meter[t] <= 1

\* A buyer is never debited for a credit that is not on the meter.
NeverDebitedTwice == \A t \in Txids : meter[t] >= 0

\* A credit on the meter is covered by the dedup ledger at every instant a
\* process can die, so no restart makes the txid creditable again.
CreditIsDeduped == \A t \in Txids : meter[t] = 1 => t \in creditedTxids

\* "Exactly one of the two paths can ever credit it": a txid that the buyer
\* may report again and a reversal that may restore itself never come with a
\* dedup entry, and the credit is really gone.
RestorableIsReleased ==
    \A t \in Txids : Restorable(t) => /\ t \notin creditedTxids
                                      /\ ~processed[t].in /\ meter[t] = 0

\* A reversal is never written over one that is still undecided.
ReversalKept ==
    [][\A t \in Txids :
          (reversed[t].in /\ ~reversed'[t].restored /\ ~reversed[t].restored)
             => reversed'[t].debited = reversed[t].debited]_vars

\* A txid leaves the dedup ledger only with its credit gone from the meter.
ReleasedOnlyWhenGone ==
    [][\A t \in Txids : (t \in creditedTxids /\ t \notin creditedTxids')
                            => meter[t] = 0 /\ ~processed'[t].in]_vars

\* The next poller passes settle t, restore it, or put it on the operator's list.
InPollersHands(t) ==
    \/ processed[t].in /\ processed[t].unconfirmed /\ ~processed[t].crediting
    \/ Restorable(t)
    \/ reversed[t].in /\ (reversed[t].restoring \/ (~reversed[t].debited /\ ~reversed[t].late))

\* A reversal without a certain debit that no pass rechecked within 24 hours
\* (the daemon died right after recording it and stayed down): nothing looks
\* at it again.
MissedTheWindow(t) ==
    reversed[t].in /\ reversed[t].late /\ ~reversed[t].debited /\ ~reversed[t].restored

\* A confirmed deposit the agent took charge of and whose credit is missing
\* is always in somebody's hands: the poller's, the operator's list, or a
\* decision the operator took.  (Looked at when no task is half way.)
NothingLostSilently ==
    LockFree => \A t \in creditedTxids :
        (chain[t] = "confirmed" /\ meter[t] = 0 /\ ~MissedTheWindow(t))
            => \/ InPollersHands(t) \/ Anomaly(t)
               \/ processed[t].resolved = "operator"
               \/ reversed[t].resolved = "operator"

\* A wrong reversal is undone: the transaction confirmed inside the window.
ReversalIsUndone ==
    \A t \in ZeroConf : (Restorable(t) /\ chain[t] = "confirmed")
                         ~> (meter[t] = 1 \/ Anomaly(t) \/ reversed[t].late)

\* A credit taken out of the mempool is taken away, or shown to the operator,
\* when its transaction is gone for good and no other such credit is open.
LoneDroppedIsTakenBack ==
    \A t \in ZeroConf : <>[](chain[t] = "dropped" /\ Open \subseteq {t})
        => <>[](meter[t] = 0 \/ Anomaly(t) \/ MissedTheWindow(t)
                  \/ processed[t].resolved = "operator"
                  \/ reversed[t].resolved = "operator")
=============================================================================
