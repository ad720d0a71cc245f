------------------------ MODULE DepositLedgerProofs ------------------------
(***************************************************************************)
(* Proofs about DepositLedger: what each edit of a record writes and leaves *)
(* alone, one lemma per operator, so that the proofs about the actions keep *)
(* the records folded; that every step keeps the state typed, and the       *)
(* ledger sound.  Then, about DepositNotify, that the platform is told of   *)
(* credited deposits only.                                                  *)
(***************************************************************************)
EXTENDS DepositLedgerInv, DepositNotify, TLAPS

-----------------------------------------------------------------------------
(* Records *)

\* A filed record is the same record, present.
LEMMA FiledFields ==
    ASSUME NEW r \in ProcessedRecord, NEW q, q = Filed(r)
    PROVE  /\ q \in ProcessedRecord
           /\ q.in /\ q.crediting = r.crediting
           /\ q.unconfirmed = r.unconfirmed /\ q.reversal = r.reversal
           /\ q.needsOperator = r.needsOperator /\ q.withheld = r.withheld
           /\ q.resolving = r.resolving /\ q.resolved = r.resolved
           /\ q.notify = r.notify /\ q.misses = r.misses
BY DEF Filed, ProcessedRecord, Reversals, Reasons, Resolutions

\* The credit intent sets the crediting mark only.
LEMMA CreditingFields ==
    ASSUME NEW r \in ProcessedRecord, NEW q, q = Crediting(r)
    PROVE  /\ q \in ProcessedRecord
           /\ q.in = r.in /\ q.crediting /\ q.unconfirmed = r.unconfirmed
           /\ q.reversal = r.reversal /\ q.needsOperator = r.needsOperator
           /\ q.withheld = r.withheld /\ q.resolving = r.resolving
           /\ q.resolved = r.resolved /\ q.notify = r.notify
           /\ q.misses = r.misses
BY DEF Crediting, ProcessedRecord, Reversals, Reasons, Resolutions

\* A credit taken out of the mempool is marked unconfirmed, nothing else.
LEMMA FromMempoolFields ==
    ASSUME NEW r \in ProcessedRecord, NEW q, q = FromMempool(r)
    PROVE  /\ q \in ProcessedRecord
           /\ q.in = r.in /\ q.crediting = r.crediting /\ q.unconfirmed
           /\ q.reversal = r.reversal /\ q.needsOperator = r.needsOperator
           /\ q.withheld = r.withheld /\ q.resolving = r.resolving
           /\ q.resolved = r.resolved /\ q.notify = r.notify
           /\ q.misses = r.misses
BY DEF FromMempool, ProcessedRecord, Reversals, Reasons, Resolutions

\* _finalizeCredit clears the crediting mark only.
LEMMA FinalizedFields ==
    ASSUME NEW r \in ProcessedRecord, NEW q, q = Finalized(r)
    PROVE  /\ q \in ProcessedRecord
           /\ q.in = r.in /\ ~q.crediting /\ q.unconfirmed = r.unconfirmed
           /\ q.reversal = r.reversal /\ q.needsOperator = r.needsOperator
           /\ q.withheld = r.withheld /\ q.resolving = r.resolving
           /\ q.resolved = r.resolved /\ q.notify = r.notify
           /\ q.misses = r.misses
BY DEF Finalized, ProcessedRecord, Reversals, Reasons, Resolutions

\* _markNotifyOwed sets its mark only.
LEMMA NotifyOwedFields ==
    ASSUME NEW r \in ProcessedRecord, NEW q, q = NotifyOwed(r)
    PROVE  /\ q \in ProcessedRecord
           /\ q.in = r.in /\ q.crediting = r.crediting
           /\ q.unconfirmed = r.unconfirmed /\ q.reversal = r.reversal
           /\ q.needsOperator = r.needsOperator /\ q.withheld = r.withheld
           /\ q.resolving = r.resolving /\ q.resolved = r.resolved
           /\ q.notify /\ q.misses = r.misses
BY DEF NotifyOwed, ProcessedRecord, Reversals, Reasons, Resolutions

\* A reversal stamp leaves the rest of the record alone.
LEMMA StampedFields ==
    ASSUME NEW r \in ProcessedRecord, NEW v \in Reversals, NEW q, q = Stamped(r, v)
    PROVE  /\ q \in ProcessedRecord
           /\ q.in = r.in /\ q.crediting = r.crediting
           /\ q.unconfirmed = r.unconfirmed /\ q.reversal = v
           /\ q.needsOperator = r.needsOperator /\ q.withheld = r.withheld
           /\ q.resolving = r.resolving /\ q.resolved = r.resolved
           /\ q.notify = r.notify /\ q.misses = r.misses
BY DEF Stamped, ProcessedRecord, Reversals, Reasons, Resolutions

\* _clearMissRun resets the misses only.
LEMMA SeenAgainFields ==
    ASSUME NEW r \in ProcessedRecord, NEW q, q = SeenAgain(r)
    PROVE  /\ q \in ProcessedRecord
           /\ q.in = r.in /\ q.crediting = r.crediting
           /\ q.unconfirmed = r.unconfirmed /\ q.reversal = r.reversal
           /\ q.needsOperator = r.needsOperator /\ q.withheld = r.withheld
           /\ q.resolving = r.resolving /\ q.resolved = r.resolved
           /\ q.notify = r.notify /\ q.misses = 0
BY DEF SeenAgain, ProcessedRecord, Reversals, Reasons, Resolutions

\* A withheld reversal is flagged, the record stays open.
LEMMA WithheldFields ==
    ASSUME NEW r \in ProcessedRecord, NEW q, q = Withheld(r)
    PROVE  /\ q \in ProcessedRecord
           /\ q.in = r.in /\ q.crediting = r.crediting
           /\ q.unconfirmed = r.unconfirmed /\ q.reversal = r.reversal
           /\ q.needsOperator = "withheld" /\ q.withheld
           /\ q.resolving = r.resolving /\ q.resolved = r.resolved
           /\ q.notify = r.notify /\ q.misses = r.misses
BY DEF Withheld, ProcessedRecord, Reversals, Reasons, Resolutions

\* A miss is counted, up to the cap, and nothing else changes.
LEMMA CountMissFields ==
    ASSUME NEW r \in ProcessedRecord, NEW q, q = CountMiss(r)
    PROVE  /\ q \in ProcessedRecord
           /\ q.in = r.in /\ q.crediting = r.crediting
           /\ q.unconfirmed = r.unconfirmed /\ q.reversal = r.reversal
           /\ q.needsOperator = r.needsOperator /\ q.withheld = r.withheld
           /\ q.resolving = r.resolving /\ q.resolved = r.resolved
           /\ q.notify = r.notify
           /\ MinMisses \in Nat /\ r.misses <= MinMisses => q.misses <= MinMisses
BY DEF CountMiss, ProcessedRecord, Reversals, Reasons, Resolutions

\* A confirmation closes the record and keeps its flag unless the reversal was withheld.
LEMMA ConfirmedFields ==
    ASSUME NEW r \in ProcessedRecord, NEW reason \in Reasons, NEW q, q = Confirmed(r, reason)
    PROVE  /\ q \in ProcessedRecord
           /\ q.in = r.in /\ q.crediting = r.crediting /\ ~q.unconfirmed
           /\ q.reversal = "none" /\ ~q.withheld /\ q.resolving = r.resolving
           /\ q.notify = r.notify /\ q.misses = 0
           /\ ~r.withheld => q.needsOperator = reason /\ q.resolved = r.resolved
BY DEF Confirmed, ProcessedRecord, Reversals, Reasons, Resolutions

\* A flag is raised on a record that has none.
LEMMA FlaggedFields ==
    ASSUME NEW r \in ProcessedRecord, NEW reason \in Reasons, NEW q, q = Flagged(r, reason)
    PROVE  /\ q \in ProcessedRecord
           /\ q.in = r.in /\ q.crediting = r.crediting
           /\ q.unconfirmed = r.unconfirmed /\ q.reversal = r.reversal
           /\ q.needsOperator = IF r.needsOperator = "none" THEN reason ELSE r.needsOperator
           /\ q.withheld = r.withheld /\ q.resolving = r.resolving
           /\ q.resolved = r.resolved /\ q.notify = r.notify
           /\ q.misses = r.misses
BY DEF Flagged, ProcessedRecord, Reversals, Reasons, Resolutions

\* The intent of `deposits credit' marks the record as resolving.
LEMMA ResolvingFields ==
    ASSUME NEW r \in ProcessedRecord, NEW q, q = Resolving(r)
    PROVE  /\ q \in ProcessedRecord
           /\ q.in = r.in /\ q.crediting = r.crediting
           /\ q.unconfirmed = r.unconfirmed /\ q.reversal = r.reversal
           /\ q.needsOperator = r.needsOperator /\ q.withheld = r.withheld
           /\ q.resolving /\ q.resolved = r.resolved /\ q.notify = r.notify
           /\ q.misses = r.misses
BY DEF Resolving, ProcessedRecord, Reversals, Reasons, Resolutions

\* `deposits credit' settles the record on behalf of the operator.
LEMMA ResolvedFields ==
    ASSUME NEW r \in ProcessedRecord, NEW q, q = Resolved(r)
    PROVE  /\ q \in ProcessedRecord
           /\ q.in = r.in /\ q.crediting = r.crediting
           /\ q.unconfirmed = r.unconfirmed /\ q.reversal = r.reversal
           /\ q.needsOperator = "none" /\ q.withheld = r.withheld
           /\ ~q.resolving /\ q.resolved = "operator" /\ q.notify = r.notify
           /\ q.misses = r.misses
BY DEF Resolved, ProcessedRecord, Reversals, Reasons, Resolutions

\* `deposits dismiss' settles the record on behalf of the operator.
LEMMA DismissedFields ==
    ASSUME NEW r \in ProcessedRecord, NEW q, q = Dismissed(r)
    PROVE  /\ q \in ProcessedRecord
           /\ q.in = r.in /\ q.crediting = r.crediting
           /\ q.unconfirmed = r.unconfirmed /\ q.reversal = r.reversal
           /\ q.needsOperator = "none" /\ q.withheld = r.withheld
           /\ q.resolving = r.resolving /\ q.resolved = "operator"
           /\ q.notify = r.notify /\ q.misses = r.misses
BY DEF Dismissed, ProcessedRecord, Reversals, Reasons, Resolutions

\* A flag is raised on a reversal entry that has none.
LEMMA ReversalFlaggedFields ==
    ASSUME NEW r \in ReversedRecord, NEW reason \in Reasons, NEW q, q = Flagged(r, reason)
    PROVE  /\ q \in ReversedRecord
           /\ q.in = r.in /\ q.debited = r.debited
           /\ q.restoring = r.restoring /\ q.restored = r.restored
           /\ q.late = r.late
           /\ q.needsOperator = IF r.needsOperator = "none" THEN reason ELSE r.needsOperator
           /\ q.resolving = r.resolving /\ q.resolved = r.resolved
BY DEF Flagged, ReversedRecord, Reasons, Resolutions

\* The intent of `deposits credit' marks the entry as resolving.
LEMMA ReversalResolvingFields ==
    ASSUME NEW r \in ReversedRecord, NEW q, q = Resolving(r)
    PROVE  /\ q \in ReversedRecord
           /\ q.in = r.in /\ q.debited = r.debited
           /\ q.restoring = r.restoring /\ q.restored = r.restored
           /\ q.late = r.late /\ q.needsOperator = r.needsOperator
           /\ q.resolving /\ q.resolved = r.resolved
BY DEF Resolving, ReversedRecord, Reasons, Resolutions

\* `deposits credit' settles the entry on behalf of the operator.
LEMMA ReversalResolvedFields ==
    ASSUME NEW r \in ReversedRecord, NEW q, q = Resolved(r)
    PROVE  /\ q \in ReversedRecord
           /\ q.in = r.in /\ q.debited = r.debited
           /\ q.restoring = r.restoring /\ q.restored = r.restored
           /\ q.late = r.late /\ q.needsOperator = "none" /\ ~q.resolving
           /\ q.resolved = "operator"
BY DEF Resolved, ReversedRecord, Reasons, Resolutions

\* `deposits dismiss' settles the entry on behalf of the operator.
LEMMA ReversalDismissedFields ==
    ASSUME NEW r \in ReversedRecord, NEW q, q = Dismissed(r)
    PROVE  /\ q \in ReversedRecord
           /\ q.in = r.in /\ q.debited = r.debited
           /\ q.restoring = r.restoring /\ q.restored = r.restored
           /\ q.late = r.late /\ q.needsOperator = "none"
           /\ q.resolving = r.resolving /\ q.resolved = "operator"
BY DEF Dismissed, ReversedRecord, Reasons, Resolutions

\* The end of the recheck window changes nothing else.
LEMMA LateFields ==
    ASSUME NEW r \in ReversedRecord, NEW q, q = Late(r)
    PROVE  /\ q \in ReversedRecord
           /\ q.in = r.in /\ q.debited = r.debited
           /\ q.restoring = r.restoring /\ q.restored = r.restored /\ q.late
           /\ q.needsOperator = r.needsOperator /\ q.resolving = r.resolving
           /\ q.resolved = r.resolved
BY DEF Late, ReversedRecord, Reasons, Resolutions

\* The restore intent marks the entry as restoring, nothing else.
LEMMA RestoringFields ==
    ASSUME NEW r \in ReversedRecord, NEW q, q = Restoring(r)
    PROVE  /\ q \in ReversedRecord
           /\ q.in = r.in /\ q.debited = r.debited /\ q.restoring
           /\ q.restored = r.restored /\ q.late = r.late
           /\ q.needsOperator = r.needsOperator /\ q.resolving = r.resolving
           /\ q.resolved = r.resolved
BY DEF Restoring, ReversedRecord, Reasons, Resolutions

\* A completed restore clears the intent and closes the entry.
LEMMA RestoredFields ==
    ASSUME NEW r \in ReversedRecord, NEW q, q = Restored(r)
    PROVE  /\ q \in ReversedRecord
           /\ q.in = r.in /\ q.debited = r.debited /\ ~q.restoring
           /\ q.restored /\ q.late = r.late
           /\ q.needsOperator = r.needsOperator /\ q.resolving = r.resolving
           /\ q.resolved = r.resolved
BY DEF Restored, ReversedRecord, Reasons, Resolutions

\* Closing an entry leaves its flags alone.
LEMMA ClosedFields ==
    ASSUME NEW r \in ReversedRecord, NEW q, q = Closed(r)
    PROVE  /\ q \in ReversedRecord
           /\ q.in = r.in /\ q.debited = r.debited
           /\ q.restoring = r.restoring /\ q.restored /\ q.late = r.late
           /\ q.needsOperator = r.needsOperator /\ q.resolving = r.resolving
           /\ q.resolved = r.resolved
BY DEF Closed, ReversedRecord, Reasons, Resolutions

\* An entry settled by another credit is closed, and its flag is answered.
LEMMA SupersededFields ==
    ASSUME NEW r \in ReversedRecord, NEW q, q = Superseded(r)
    PROVE  /\ q \in ReversedRecord
           /\ q.in = r.in /\ q.debited = r.debited
           /\ q.restoring = r.restoring /\ q.restored /\ q.late = r.late
           /\ q.resolving = r.resolving
           /\ r.resolved # "no" => q.resolved # "no"
           /\ q.needsOperator # "none" => q.resolved # "no"
BY DEF Superseded, ReversedRecord, Reasons, Resolutions

\* A fresh reversal entry is an entry.
LEMMA NewReversalTyped ==
    ASSUME NEW certain \in BOOLEAN
    PROVE  NewReversal(certain) \in ReversedRecord
BY DEF NewReversal, ReversedRecord, Reasons, Resolutions

\* So are the empty slots.
LEMMA NewRecords ==
    /\ NoRecord \in ProcessedRecord /\ NoReversal \in ReversedRecord
    /\ CliOff \in CliRecord
BY DEF NoRecord, NoReversal, CliOff, CliRecord, ReversedRecord, ProcessedRecord,
       Reversals, Reasons, Resolutions

-----------------------------------------------------------------------------
(* Types *)

\* A function stays typed when a value of its range is written at a point.
LEMMA UpdateTyped ==
    ASSUME NEW S, NEW T, NEW f \in [S -> T], NEW x, NEW v, x \in S => v \in T
    PROVE  [f EXCEPT ![x] = v] \in [S -> T]
OBVIOUS

\* The meter and the last deposit of a buyer stay typed under a credit...
LEMMA CreditMeterTyped ==
    ASSUME TypeOK, NEW t \in Txids, CreditMeter(t)
    PROVE  meter' \in [Txids -> Int] /\ lastDeposit' \in [Buyers -> Txids \cup {NoTx}]
<1>1. \A x \in Txids : meter[x] + 1 \in Int
  BY DEF TypeOK
<1>2. meter' \in {meter, [meter EXCEPT ![t] = meter[t] + 1]}
  BY DEF CreditMeter
<1>3. [meter EXCEPT ![t] = meter[t] + 1] \in [Txids -> Int]
  BY <1>1, UpdateTyped DEF TypeOK
<1>4. lastDeposit' \in [Buyers -> Txids \cup {NoTx}]
  BY UpdateTyped DEF CreditMeter, TypeOK
<1> QED BY <1>2, <1>3, <1>4 DEF TypeOK

\* ... and under a debit.
LEMMA DebitMeterTyped ==
    ASSUME TypeOK, NEW t \in Txids, DebitMeter(t)
    PROVE  meter' \in [Txids -> Int] /\ lastDeposit' \in [Buyers -> Txids \cup {NoTx}]
<1>1. \A x \in Txids : meter[x] - 1 \in Int
  BY DEF TypeOK
<1>2. meter' = [meter EXCEPT ![t] = meter[t] - 1]
  BY DEF DebitMeter
<1>3. [meter EXCEPT ![t] = meter[t] - 1] \in [Txids -> Int]
  BY <1>1, UpdateTyped DEF TypeOK
<1>4. lastDeposit' \in {lastDeposit, [lastDeposit EXCEPT ![BuyerOf[t]] = NoTx]}
  BY DEF DebitMeter
<1>5. [lastDeposit EXCEPT ![BuyerOf[t]] = NoTx] \in [Buyers -> Txids \cup {NoTx}]
  BY UpdateTyped DEF TypeOK
<1> QED BY <1>2, <1>3, <1>4, <1>5 DEF TypeOK

\* The daemon's position stays typed wherever a task ends or returns to its loop.
DaemonTyped ==
    /\ pc \in DaemonPoints
    /\ task \in {"none", "report", "sweep", "reconcile"}
    /\ cur \in Txids \cup {NoTx}
    /\ pc \in AtWork => cur \in Txids
    /\ look \in [Txids -> Outcomes]
    /\ todo \in SUBSET Txids

\* The lock is released: the daemon's memory is empty.
LEMMA ReleaseTyped == Release => DaemonTyped'
BY DEF Release, DaemonTyped, DaemonPoints, AtWork, Outcomes

\* A report ends with its deposit, a sweep takes the next one.
LEMMA ReturnTyped == TypeOK /\ Return => DaemonTyped'
BY ReleaseTyped DEF Return, DaemonTyped, DaemonPoints, AtWork, TypeOK

\* On to the next write for the same transaction.
LEMMA GotoTyped == ASSUME NEW p \in DaemonPoints, cur \in Txids, TypeOK, Goto(p) PROVE DaemonTyped'
BY DEF Goto, DaemonTyped, TypeOK

\* A record is put back and the pass takes the next one.
LEMMA SaveAndNextTyped ==
    ASSUME NEW t \in Txids, NEW r \in ProcessedRecord, r.misses <= MinMisses,
           TypeOK, SaveAndNext(t, r)
    PROVE  DaemonTyped' /\ processed' \in [Txids -> ProcessedRecord]
           /\ \A x \in Txids : processed'[x].misses <= MinMisses
BY DEF SaveAndNext, Judged, DaemonTyped, TypeOK, DaemonPoints, AtWork, Outcomes

\* The recheck flags the interrupted restores.
LEMMA EnterRecheckTyped ==
    ASSUME TypeOK, EnterRecheck
    PROVE  DaemonTyped' /\ reversed' \in [Txids -> ReversedRecord]
<1>1. \A t \in Txids : Flagged(reversed[t], "restoreInterrupted") \in ReversedRecord
  BY ReversalFlaggedFields DEF TypeOK, Reasons
<1>2. reversed' \in [Txids -> ReversedRecord]
  BY <1>1 DEF EnterRecheck, TypeOK
<1>3. DaemonTyped'
  BY DEF EnterRecheck, DaemonTyped, DaemonPoints, AtWork, Outcomes
<1> QED BY <1>2, <1>3

\* A reversal settled by another credit is an entry still.
LEMMA SettleReversedTyped ==
    ASSUME TypeOK, NEW t \in Txids
    PROVE  SettleReversed(t) \in [Txids -> ReversedRecord]
BY SupersededFields DEF SettleReversed, TypeOK

\* The record a restore or the CLI leaves is a record.
LEMMA SettledRecordTyped ==
    SettledRecord \in ProcessedRecord /\ SettledRecord.misses = 0
<1>1. NoRecord \in ProcessedRecord /\ NoRecord.misses = 0
  BY NewRecords DEF NoRecord
<1> QED BY <1>1, FiledFields DEF SettledRecord

\* So is the record of a credit's intent.
LEMMA CreditingRecordTyped ==
    CreditingRecord \in ProcessedRecord /\ CreditingRecord.misses = 0
<1>2. SettledRecord \in ProcessedRecord /\ SettledRecord.misses = 0
  BY SettledRecordTyped
<1>3. Crediting(SettledRecord) \in ProcessedRecord /\ Crediting(SettledRecord).misses = 0
  BY <1>2, CreditingFields
<1>4. FromMempool(Crediting(SettledRecord)) \in ProcessedRecord
      /\ FromMempool(Crediting(SettledRecord)).misses = 0
  BY <1>3, FromMempoolFields
<1> QED BY <1>3, <1>4 DEF CreditingRecord
\* Empty files are typed.
LEMMA TypeInit == Init => TypeOK
BY NoTxAssumption, BuyerAssumption, MinMissesAssumption, MaxCrashesAssumption, NewRecords
   DEF Init, TypeOK, Statuses, NoRecord, Outcomes, DaemonPoints, AtWork, CliOff, AtWork

\* Every step keeps the state typed, the budget of reversals exhausted or not.
LEMMA TypeNext == TypeOK /\ [TightNext]_vars => TypeOK'
<1> SUFFICES ASSUME TypeOK, [TightNext]_vars PROVE TypeOK'
  OBVIOUS
<1> USE NoTxAssumption, BuyerAssumption, MinMissesAssumption, MaxCrashesAssumption,
        NotifyingAssumption
    DEF TypeOK, DaemonTyped, disk, meters, daemon
<1>a. \A t \in Txids : processed[t] \in ProcessedRecord /\ reversed[t] \in ReversedRecord
  OBVIOUS
<1>w. pc \in {"verify", "credit", "finalize", "recredit", "confirm", "debit", "debited",
              "remove", "restore", "settle"} => cur \in Txids
  BY DEF AtWork, DaemonPoints
<1>1. ASSUME NEW t \in Txids, ReportBegin(t) PROVE TypeOK'
  BY <1>1 DEF ReportBegin, Claim, DaemonPoints, AtWork
<1>2. ASSUME NEW t \in Txids, SweepNext(t) PROVE TypeOK'
  BY <1>2 DEF SweepNext, Claim, DaemonPoints, AtWork
<1>3. CASE SweepBegin
  BY <1>3 DEF SweepBegin, DaemonPoints, AtWork
<1>4. CASE SweepEnd
  BY <1>4, ReleaseTyped DEF SweepEnd
<1>5. CASE VerifyFails
  BY <1>5, ReturnTyped DEF VerifyFails
<1>6. CASE VerifyWaits
  BY <1>6, <1>w, ReturnTyped DEF VerifyWaits
<1>7. CASE RecordCreditIntent
  <2>1. processed' \in [Txids -> ProcessedRecord]
        /\ \A t \in Txids : processed'[t].misses <= MinMisses
    BY <1>7, <1>w, CreditingRecordTyped, UpdateTyped DEF RecordCreditIntent
  <2>2. DaemonTyped'
    BY <1>7, <1>w, GotoTyped DEF RecordCreditIntent, DaemonPoints, AtWork
  <2> QED BY <1>7, <1>w, <2>1, <2>2, SettleReversedTyped DEF RecordCreditIntent
<1>8. CASE CreditMoney
  BY <1>8, <1>w, CreditMeterTyped, GotoTyped DEF CreditMoney, DaemonPoints, AtWork
<1>9. CASE CreditMoneyFails
  BY <1>9, ReturnTyped DEF CreditMoneyFails
<1>10. CASE FinalizeCredit
  <2>1. cur \in Txids
    BY <1>10, <1>w DEF FinalizeCredit
  <2>2. PICK r \in {processed[cur], Finalized(processed[cur])} :
           \/ processed' = [processed EXCEPT ![cur] = r]
           \/ processed' = [processed EXCEPT ![cur] = NotifyOwed(r)]
    BY <1>10 DEF FinalizeCredit
  <2>3. r \in ProcessedRecord /\ r.misses <= MinMisses
    BY <1>a, <2>1, FinalizedFields
  <2>4. NotifyOwed(r) \in ProcessedRecord /\ NotifyOwed(r).misses <= MinMisses
    BY <2>3, NotifyOwedFields
  <2> QED BY <1>10, <2>1, <2>2, <2>3, <2>4, ReturnTyped DEF FinalizeCredit
<1>11. CASE ReconcileIdle
  BY <1>11, EnterRecheckTyped DEF ReconcileIdle
<1>12. CASE ReconcileBegin
  BY <1>12 DEF ReconcileBegin, DaemonPoints, AtWork
<1>13. CASE ReconcileEnd
  BY <1>13, EnterRecheckTyped DEF ReconcileEnd
<1>14. ASSUME NEW t \in Txids, ReconcileSkips(t) PROVE TypeOK'
  BY <1>14 DEF ReconcileSkips, Judged, Outcomes
<1>15. ASSUME NEW t \in Txids, ReconcileConfirms(t) PROVE TypeOK'
  <2> DEFINE reason == IF processed[t].reversal = "none" THEN processed[t].needsOperator
                       ELSE "ambiguousReversal"
  <2>1. reason \in Reasons
    BY <1>a DEF ProcessedRecord, Reasons
  <2>2. PICK q : q = Confirmed(processed[t], reason)
    OBVIOUS
  <2>3. q \in ProcessedRecord /\ q.misses = 0
    <3> HIDE DEF reason
    <3> QED BY <1>a, <2>1, <2>2, ConfirmedFields
  <2>4. SaveAndNext(t, q)
    BY <1>15, <2>2 DEF ReconcileConfirms
  <2>5. DaemonTyped' /\ processed' \in [Txids -> ProcessedRecord]
        /\ \A x \in Txids : processed'[x].misses <= MinMisses
    BY <2>3, <2>4, SaveAndNextTyped
  <2> QED BY <1>15, <2>5 DEF ReconcileConfirms
<1>16. ASSUME NEW t \in Txids, RecreditIntent(t) PROVE TypeOK'
  <2>1. Stamped(processed[t], "recredited") \in ProcessedRecord
        /\ Stamped(processed[t], "recredited").misses <= MinMisses
    BY <1>a, StampedFields DEF Reversals
  <2> QED BY <1>16, <2>1 DEF RecreditIntent, DaemonPoints, AtWork
<1>17. ASSUME NEW t \in Txids, StillInMempool(t) PROVE TypeOK'
  <2>1. SeenAgain(processed[t]) \in ProcessedRecord /\ SeenAgain(processed[t]).misses <= MinMisses
    BY <1>a, SeenAgainFields
  <2> QED BY <1>17, <2>1, SaveAndNextTyped DEF StillInMempool
<1>18. ASSUME NEW t \in Txids, MissedMidCredit(t) PROVE TypeOK'
  <2>1. Flagged(processed[t], "unprovenCredit") \in ProcessedRecord
        /\ Flagged(processed[t], "unprovenCredit").misses <= MinMisses
    BY <1>a, FlaggedFields DEF Reasons
  <2> QED BY <1>18, <2>1, SaveAndNextTyped DEF MissedMidCredit
<1>b. \A t \in Txids : CountMiss(processed[t]) \in ProcessedRecord
                       /\ CountMiss(processed[t]).misses <= MinMisses
  BY <1>a, CountMissFields
<1>19. ASSUME NEW t \in Txids, MissedTooEarly(t) PROVE TypeOK'
  BY <1>19, <1>a, <1>b, SaveAndNextTyped DEF MissedTooEarly
<1>20. ASSUME NEW t \in Txids, ReversalWithheld(t) PROVE TypeOK'
  <2>1. PICK q : q = Withheld(CountMiss(processed[t]))
    OBVIOUS
  <2>2. q \in ProcessedRecord /\ q.misses <= MinMisses
    BY <1>b, <2>1, WithheldFields
  <2> QED BY <1>20, <2>1, <2>2, SaveAndNextTyped DEF ReversalWithheld
<1>21. ASSUME NEW t \in Txids, ReversalIntent(t) PROVE TypeOK'
  <2>1. Stamped(CountMiss(processed[t]), "debiting") \in ProcessedRecord
        /\ Stamped(CountMiss(processed[t]), "debiting").misses <= MinMisses
    BY <1>b, StampedFields DEF Reversals
  <2> QED BY <1>21, <2>1 DEF ReversalIntent, DaemonPoints, AtWork
<1>c. ASSUME NEW t \in Txids, NEW certain \in BOOLEAN, MoveToReversed(t, certain)
      PROVE TypeOK'
  <2>1. NoRecord \in ProcessedRecord /\ NoRecord.misses <= MinMisses
    BY NewRecords DEF NoRecord
  <2>2. processed' \in [Txids -> ProcessedRecord] /\ DaemonTyped'
        /\ \A x \in Txids : processed'[x].misses <= MinMisses
    BY <1>c, <2>1, SaveAndNextTyped DEF MoveToReversed
  <2>3. reversed' \in [Txids -> ReversedRecord]
    BY <1>c, NewReversalTyped DEF MoveToReversed
  <2> QED BY <1>c, <2>2, <2>3 DEF MoveToReversed
<1>22. ASSUME NEW t \in Txids, ReversalForgiven(t) PROVE TypeOK'
  BY <1>22, <1>c DEF ReversalForgiven
<1>23. CASE RecreditMoney
  BY <1>23, <1>w, CreditMeterTyped, GotoTyped DEF RecreditMoney, DaemonPoints, AtWork
<1>24. CASE RecreditConfirms
  <2>1. cur \in Txids
    BY <1>24, <1>w DEF RecreditConfirms
  <2>2. PICK q : q = Confirmed(processed[cur], processed[cur].needsOperator)
    OBVIOUS
  <2>3. processed[cur].needsOperator \in Reasons
    BY <1>a, <2>1 DEF ProcessedRecord
  <2>4. q \in ProcessedRecord /\ q.misses = 0
    BY <1>a, <2>1, <2>2, <2>3, ConfirmedFields
  <2> QED BY <1>24, <2>1, <2>2, <2>4, SaveAndNextTyped DEF RecreditConfirms
<1>25. CASE ReversalMoney
  BY <1>25, <1>w, DebitMeterTyped, GotoTyped DEF ReversalMoney, DaemonPoints, AtWork
<1>26. CASE ReversalDebited
  <2>1. \A t \in Txids : Stamped(processed[t], "debited") \in ProcessedRecord
                         /\ Stamped(processed[t], "debited").misses <= MinMisses
    BY <1>a, StampedFields DEF Reversals
  <2> QED BY <1>26, <1>w, <2>1, GotoTyped DEF ReversalDebited, DaemonPoints, AtWork
<1>27. CASE ReversalRecorded
  BY <1>27, <1>w, <1>c DEF ReversalRecorded
<1>28. CASE PassFails
  BY <1>28, ReleaseTyped DEF PassFails
<1>29. ASSUME NEW t \in Txids, RecheckFlags(t) PROVE TypeOK'
  <2>1. Flagged(reversed[t], "confirmedUndebited") \in ReversedRecord
    BY <1>a, ReversalFlaggedFields DEF Reasons
  <2> QED BY <1>29, <2>1 DEF RecheckFlags
<1>30. ASSUME NEW t \in Txids, RecheckWaits(t) PROVE TypeOK'
  BY <1>30 DEF RecheckWaits
<1>31. ASSUME NEW t \in Txids, RestoreIntent(t) PROVE TypeOK'
  <2>1. Restoring(reversed[t]) \in ReversedRecord
    BY <1>a, RestoringFields
  <2>2. SettledRecord \in ProcessedRecord /\ SettledRecord.misses <= MinMisses
    BY SettledRecordTyped
  <2> QED BY <1>31, <2>1, <2>2 DEF RestoreIntent, DaemonPoints, AtWork
<1>32. CASE RestoreMoney
  BY <1>32, <1>w, CreditMeterTyped, GotoTyped DEF RestoreMoney, DaemonPoints, AtWork
<1>33. CASE RestoreSettles
  <2>1. \A t \in Txids : Restored(reversed[t]) \in ReversedRecord
    BY <1>a, RestoredFields
  <2> QED BY <1>33, <1>w, <2>1 DEF RestoreSettles, DaemonPoints, AtWork
<1>34. CASE RecheckEnd
  BY <1>34, ReleaseTyped DEF RecheckEnd
<1>35. ASSUME NEW t \in Txids, NEW a \in {"credit", "dismiss"}, CliBegin(t, a) PROVE TypeOK'
  BY <1>35 DEF CliBegin, CliRecord
<1>36. CASE CliRefused
  BY <1>36, NewRecords DEF CliRefused, CliOff
<1>d. \A t \in Txids : /\ Resolving(processed[t]) \in ProcessedRecord
                       /\ Resolving(processed[t]).misses <= MinMisses
  BY <1>a, ResolvingFields
<1>f. \A t \in Txids : Resolving(reversed[t]) \in ReversedRecord
  BY <1>a, ReversalResolvingFields
<1>e. \A p \in {"crediting", "settling"}, l \in {"none", "processed", "reversed"} :
         CliGoto(p, l) => cli' \in CliRecord
  BY DEF CliGoto, CliRecord
<1>37. CASE CliCreditIntent
  <2>1. cli'.tx = cli.tx /\ cli' \in CliRecord /\ cli.at # "off"
    BY <1>37, <1>e DEF CliCreditIntent, CliGoto
  <2>2. cli'.at # "off" => cli'.tx \in Txids
    BY <2>1
  <2> QED BY <1>37, <1>d, <1>f, <2>1, <2>2 DEF CliCreditIntent
<1>38. CASE CliCreditMoney
  <2>1. cli.tx \in Txids /\ cli.where \in {"none", "processed", "reversed"}
    BY <1>38 DEF CliRecord, CliCreditMoney
  <2>2. cli' \in CliRecord /\ cli'.tx = cli.tx
    BY <1>38, <1>e, <2>1 DEF CliCreditMoney, CliGoto
  <2> QED BY <1>38, <2>1, <2>2, CreditMeterTyped DEF CliCreditMoney
<1>39. CASE CliCreditSettles
  <2>1. cli.tx \in Txids
    BY <1>39 DEF CliCreditSettles
  <2>2. \A t \in Txids : /\ Resolved(processed[t]) \in ProcessedRecord
                         /\ Resolved(processed[t]).misses <= MinMisses
    BY <1>a, ResolvedFields
  <2>3. \A t \in Txids : Closed(Resolved(reversed[t])) \in ReversedRecord
    BY <1>a, ReversalResolvedFields, ClosedFields
  <2>4. cli' \in CliRecord /\ cli'.at = "off"
    BY <1>39, NewRecords DEF CliCreditSettles, CliOff
  <2>5. CASE cli.where = "processed"
    BY <1>39, <2>1, <2>2, <2>4, <2>5 DEF CliCreditSettles
  <2>6. CASE cli.where # "processed"
    BY <1>39, <2>1, <2>3, <2>4, <2>6, SettledRecordTyped DEF CliCreditSettles
  <2> QED BY <2>5, <2>6
<1>40. CASE CliDismiss
  <2>1. \A t \in Txids : /\ Dismissed(processed[t]) \in ProcessedRecord
                         /\ Dismissed(processed[t]).misses <= MinMisses
                         /\ Dismissed(reversed[t]) \in ReversedRecord
    BY <1>a, DismissedFields, ReversalDismissedFields
  <2> QED BY <1>40, <2>1, NewRecords DEF CliDismiss, CliOff
<1>41. ASSUME NEW t \in Txids, ChainStep(t) PROVE TypeOK'
  BY <1>41 DEF ChainStep, Statuses
<1>42. ASSUME NEW t \in Txids, WindowPasses(t) PROVE TypeOK'
  <2>1. Late(reversed[t]) \in ReversedRecord
    BY <1>a, LateFields
  <2> QED BY <1>42, <2>1 DEF WindowPasses
<1>43. CASE DaemonCrash
  BY <1>43, ReleaseTyped DEF DaemonCrash
<1>44. CASE CliCrash
  BY <1>44, NewRecords DEF CliCrash, CliOff
<1>45. CASE UNCHANGED vars
  BY <1>45 DEF vars
<1> QED
  BY <1>1, <1>2, <1>3, <1>4, <1>5, <1>6, <1>7, <1>8, <1>9, <1>10, <1>11, <1>12,
     <1>13, <1>14, <1>15, <1>16, <1>17, <1>18, <1>19, <1>20, <1>21, <1>22, <1>23, <1>24,
     <1>25, <1>26, <1>27, <1>28, <1>29, <1>30, <1>31, <1>32, <1>33, <1>34, <1>35, <1>36,
     <1>37, <1>38, <1>39, <1>40, <1>41, <1>42, <1>43, <1>44, <1>45
  DEF TightNext, Next, CreditSteps, ReconcileSteps, RecheckSteps, CliSteps, Environment

\* The files, the memory of the daemon and the CLI hold what their types say.
THEOREM TypeCorrect == Spec => []TypeOK
<1>1. TypeOK /\ [Next]_vars => TypeOK'
  BY TypeNext DEF TightNext
<1> QED BY TypeInit, <1>1, PTL DEF Spec

-----------------------------------------------------------------------------
(* Safety: LedgerInv is inductive while the reversal budget holds, so no    *)
(* deposit is credited or debited twice, whatever reports, sweeps, restores, *)
(* verbs and deaths there are.                                              *)
(*                                                                          *)
(* A step works on one transaction.  The proof of each step shows that the  *)
(* others are as before (Others), that the one it works on stays sound      *)
(* (TxSound), and that what the daemon and the CLI know stays true; the     *)
(* frame lemmas put the parts together.                                     *)

TxSound(t) == MeterSound(t) /\ RecordSound(t) /\ LookSound(t) /\ ReversalSound(t)

\* The part of LedgerInv that is not about types.
Sound == (\A t \in Txids : TxSound(t)) /\ PointSound /\ CliSound

\* A step leaves a transaction alone.  Its look may be forgotten, and another
\* deposit may become its buyer's last one.
Same(t) ==
    /\ chain'[t] = chain[t] /\ processed'[t] = processed[t] /\ reversed'[t] = reversed[t]
    /\ meter'[t] = meter[t]
    /\ t \in creditedTxids' <=> t \in creditedTxids
    /\ look'[t] \in {look[t], "none"}
    /\ lastDeposit'[BuyerOf[t]] = t => lastDeposit[BuyerOf[t]] = t

Others(c) == \A t \in Txids \ {c} : Same(t)

\* The CLI credits this transaction, or has been asked to.
CliOn(t) == cli.tx = t /\ (CliHoldsLock \/ ~NotAsked(t))

\* LedgerInv in the form the proofs below work with.
LEMMA SoundIsLedgerInv == LedgerInv <=> TypeOK /\ Sound
BY DEF LedgerInv, Sound, TxSound

-----------------------------------------------------------------------------
(* Frames *)

\* A transaction that is left alone stays sound.
LEMMA SameIsSound == ASSUME NEW t \in Txids, TxSound(t), Same(t) PROVE TxSound(t)'
BY DEF TxSound, Same, MeterSound, RecordSound, LookSound, ReversalSound, Unsettled,
       Restorable, ReversedAnomaly

\* So it is enough to look at the one a step works on.
LEMMA OthersAreSound ==
    ASSUME Sound, NEW c \in Txids, Others(c), TxSound(c)'
    PROVE  (\A t \in Txids : TxSound(t))'
<1>1. ASSUME NEW t \in Txids PROVE TxSound(t)'
  BY SameIsSound DEF Sound, Others
<1> QED BY <1>1

\* A daemon step that does not touch the transaction of the CLI.
LEMMA CliFrame ==
    ASSUME TypeOK, Sound, NEW c \in Txids, Others(c), UNCHANGED cli, ~CliOn(c),
           CliHoldsLock => pc' = "idle"
    PROVE  CliSound'
<1>1. cli.at # "off" => cli.tx \in Txids
  BY DEF TypeOK
<1>2. cli.tx \in Txids \ {c} => Same(cli.tx)
  BY DEF Others
<1> QED BY <1>1, <1>2 DEF CliSound, Sound, CliOn, NotAsked, CliHoldsLock, Same, Unsettled,
           Restorable

\* A step that moves nothing but memory.
LEMMA QuietFrame ==
    ASSUME TypeOK, Sound, \A t \in Txids : Same(t), UNCHANGED cli,
           CliHoldsLock => pc' = "idle"
    PROVE  (\A t \in Txids : TxSound(t))' /\ CliSound'
<1>1. ASSUME NEW t \in Txids PROVE TxSound(t)'
  BY SameIsSound DEF Sound
<1>2. cli.at # "off" => cli.tx \in Txids
  BY DEF TypeOK
<1>3. CliSound'
  BY <1>2 DEF CliSound, Sound, CliHoldsLock, Same, Unsettled, Restorable
<1> QED BY <1>1, <1>3

\* Between the tasks' working points the daemon knows nothing.
Resting == {"idle", "verify", "sweep", "reconcile", "recheck"}
\* At a resting point PointSound has nothing to say.
LEMMA RestIsSound == pc' \in Resting => PointSound'
BY DEF PointSound, Resting

\* A released lock leaves the daemon at rest.
LEMMA ReleaseRests == Release => pc' \in Resting /\ \A t \in Txids : look'[t] = "none"
BY DEF Release, Resting

\* So does the end of one deposit.
LEMMA ReturnRests ==
    Return => /\ pc' \in {"idle", "sweep"}
              /\ \A t \in Txids : look'[t] \in {look[t], "none"}
BY DEF Return, Release

\* The meter of a credited transaction counts it once, the others stay.
LEMMA CreditedOnce ==
    ASSUME TypeOK, Sound, NEW c \in Txids, CreditMeter(c), meter[c] = 0
    PROVE  /\ meter'[c] = 1
           /\ \A t \in Txids \ {c} :
                 /\ meter'[t] = meter[t]
                 /\ lastDeposit'[BuyerOf[t]] = t => lastDeposit[BuyerOf[t]] = t
<1>1. lastDeposit[BuyerOf[c]] # c
  BY DEF Sound, TxSound, MeterSound
<1>2. meter \in [Txids -> Int] /\ lastDeposit \in [Buyers -> Txids \cup {NoTx}]
      /\ BuyerOf \in [Txids -> Buyers]
  BY BuyerAssumption DEF TypeOK
<1> QED BY <1>1, <1>2 DEF CreditMeter

\* The meter after a debit counts the transaction no more.
LEMMA DebitedOnce ==
    ASSUME TypeOK, Sound, NEW c \in Txids, DebitMeter(c), meter[c] = 1
    PROVE  /\ meter'[c] = 0 /\ lastDeposit'[BuyerOf[c]] # c
           /\ \A t \in Txids \ {c} :
                 /\ meter'[t] = meter[t]
                 /\ lastDeposit'[BuyerOf[t]] = t => lastDeposit[BuyerOf[t]] = t
<1>2. meter \in [Txids -> Int] /\ lastDeposit \in [Buyers -> Txids \cup {NoTx}]
      /\ BuyerOf \in [Txids -> Buyers]
  BY BuyerAssumption DEF TypeOK
<1> QED BY <1>2, NoTxAssumption DEF DebitMeter

-----------------------------------------------------------------------------
(* Crediting *)

\* Where a task works, and the CLI does not.
LEMMA AtWorkOnTx ==
    ASSUME TypeOK, Sound, pc # "idle"
    PROVE  ~CliHoldsLock /\ (pc \in AtWork => cur \in Txids)
BY DEF TypeOK, Sound, CliSound

\* What the record of a credit's intent says, new or continued.
LEMMA CreditingRecordFields ==
    /\ CreditingRecord.in /\ CreditingRecord.crediting
    /\ CreditingRecord.reversal = "none" /\ CreditingRecord.needsOperator = "none"
    /\ ~CreditingRecord.withheld
<1>1. NoRecord \in ProcessedRecord /\ NoRecord.reversal = "none"
      /\ NoRecord.needsOperator = "none" /\ ~NoRecord.withheld
  BY NewRecords DEF NoRecord
<1>2. /\ SettledRecord \in ProcessedRecord /\ SettledRecord.in
      /\ SettledRecord.reversal = "none" /\ SettledRecord.needsOperator = "none"
      /\ ~SettledRecord.withheld
  BY <1>1, FiledFields DEF SettledRecord
<1>3. PICK q : q = Crediting(SettledRecord)
  OBVIOUS
<1>4. /\ q \in ProcessedRecord /\ q.in /\ q.crediting /\ q.reversal = "none"
      /\ q.needsOperator = "none" /\ ~q.withheld
  BY <1>2, <1>3, CreditingFields
<1>5. PICK s : s = FromMempool(q)
  OBVIOUS
<1>6. /\ s.in /\ s.crediting /\ s.reversal = "none"
      /\ s.needsOperator = "none" /\ ~s.withheld
  BY <1>4, <1>5, FromMempoolFields
<1> QED BY <1>3, <1>4, <1>5, <1>6 DEF CreditingRecord

\* A txid that is not in the dedup ledger is not the CLI's.
LEMMA NotCliOn ==
    ASSUME TypeOK, Sound, NEW c \in Txids, c \notin creditedTxids PROVE ~CliOn(c)
BY DEF Sound, CliSound, CliOn, NotAsked

\* The intent: the record, the dedup entry, the settled reversal.
LEMMA RecordCreditIntentSound ==
    ASSUME TypeOK, Sound, RecordCreditIntent PROVE Sound'
<1>0. PICK c \in Txids : c = cur
  BY AtWorkOnTx DEF RecordCreditIntent, AtWork, DaemonPoints
<1>1. pc = "verify" /\ ~CliHoldsLock /\ c \notin creditedTxids
      /\ ~processed[c].in
  BY <1>0, AtWorkOnTx DEF RecordCreditIntent, HasCredited
<1>2. /\ processed' = [processed EXCEPT ![c] = CreditingRecord]
      /\ reversed' = SettleReversed(c) /\ creditedTxids' = creditedTxids \cup {c}
      /\ pc' = "credit" /\ UNCHANGED <<cur, chain, meters, look, cli>>
  BY <1>0 DEF RecordCreditIntent, Goto
<1>3. Others(c)
  BY <1>1, <1>2 DEF Others, Same, SettleReversed, TypeOK, meters
<1>4. processed'[c] = CreditingRecord
  BY <1>1, <1>2 DEF TypeOK
<1>5. meter[c] = 0 /\ lastDeposit[BuyerOf[c]] # c
  BY <1>1 DEF Sound, TxSound, MeterSound
<1>6. ~Unsettled(c)' /\ ~Restorable(c)' /\ ~ReversedAnomaly(c)'
      /\ (reversed'[c].in /\ reversed'[c].restored /\ reversed'[c].restoring
             => reversed'[c].resolved # "no")
  <2>1. TxSound(c)
    BY <1>1 DEF Sound
  <2>2. CASE Unsettled(c)
    <3>1. PICK q : q = Superseded(reversed[c])
      OBVIOUS
    <3>2. reversed'[c] = q
      BY <1>1, <1>2, <2>2, <3>1 DEF SettleReversed, Unsettled, TypeOK
    <3>3. ~reversed[c].restoring
      BY <1>1, <2>1, <2>2 DEF TxSound, ReversalSound, Restorable
    <3> QED BY <1>1, <3>1, <3>2, <3>3, SupersededFields
            DEF Unsettled, Restorable, ReversedAnomaly, TypeOK
  <2>3. CASE ~Unsettled(c)
    <3>1. reversed'[c] = reversed[c]
      BY <1>1, <1>2, <2>3 DEF SettleReversed, Unsettled
    <3> QED BY <2>1, <2>3, <3>1 DEF TxSound, ReversalSound, Unsettled, Restorable, ReversedAnomaly
  <2> QED BY <2>2, <2>3
<1>7. TxSound(c)'
  BY <1>1, <1>2, <1>4, <1>5, <1>6, CreditingRecordFields
     DEF Sound, TxSound, MeterSound, RecordSound, LookSound, ReversalSound, meters
<1>8. ~CliOn(c)
  BY <1>1, NotCliOn
<1>9. CliSound'
  BY <1>1, <1>2, <1>3, <1>8, CliFrame
<1>10. PointSound'
  <2>1. cur' = c /\ NotAsked(c)' /\ meter'[c] = 0
    BY <1>0, <1>2, <1>5, <1>8 DEF CliOn, NotAsked, meters
  <2> QED BY <1>2, <1>4, <1>6, <2>1, CreditingRecordFields DEF PointSound
<1> QED BY <1>1, <1>3, <1>7, <1>9, <1>10, OthersAreSound DEF Sound

\* The money: the intent has said that the meter lacks it.
LEMMA CreditMoneySound == ASSUME TypeOK, Sound, CreditMoney PROVE Sound'
<1>1. PICK c \in Txids : c = cur
  BY AtWorkOnTx DEF CreditMoney, AtWork, DaemonPoints
<1>2. /\ pc = "credit" /\ pc' = "finalize" /\ ~CliHoldsLock /\ CreditMeter(c)
      /\ UNCHANGED <<cur, chain, disk, look, cli>>
  BY <1>1, AtWorkOnTx DEF CreditMoney, Goto
<1>3. /\ processed[c].in /\ processed[c].crediting /\ processed[c].reversal = "none"
      /\ processed[c].needsOperator = "none" /\ ~Unsettled(c) /\ NotAsked(c) /\ meter[c] = 0
  BY <1>1, <1>2 DEF Sound, PointSound
<1>4. Others(c) /\ meter'[c] = 1
  BY <1>2, <1>3, CreditedOnce DEF Others, Same, disk
<1>5. TxSound(c)'
  BY <1>2, <1>3, <1>4 DEF Sound, TxSound, MeterSound, RecordSound, LookSound, ReversalSound,
     Unsettled, Restorable, ReversedAnomaly, disk
<1>6. CliSound'
  BY <1>2, <1>3, <1>4, CliFrame DEF CliOn
<1>7. PointSound'
  BY <1>1, <1>2, <1>3, <1>4 DEF PointSound, Unsettled, NotAsked, disk
<1> QED BY <1>4, <1>5, <1>6, <1>7, OthersAreSound DEF Sound

\* _finalizeCredit: the deposit is on the meter whether or not a save fails.
LEMMA FinalizeCreditSound == ASSUME TypeOK, Sound, FinalizeCredit PROVE Sound'
<1>1. PICK c \in Txids : c = cur
  BY AtWorkOnTx DEF FinalizeCredit, AtWork, DaemonPoints
<1>2. /\ pc = "finalize" /\ pc' \in {"idle", "sweep"} /\ ~CliHoldsLock
      /\ UNCHANGED <<chain, creditedTxids, reversed, meters, cli>>
      /\ \A t \in Txids : look'[t] \in {look[t], "none"}
  BY AtWorkOnTx, ReturnRests DEF FinalizeCredit
<1>3. PICK r \in {processed[c], Finalized(processed[c])} :
         \/ processed' = [processed EXCEPT ![c] = r]
         \/ processed' = [processed EXCEPT ![c] = NotifyOwed(r)]
  BY <1>1 DEF FinalizeCredit
<1>4. processed[c] \in ProcessedRecord
  BY DEF TypeOK
<1>5. PICK q : q = processed'[c]
  OBVIOUS
<1>6. /\ processed[c].in /\ processed[c].crediting /\ processed[c].reversal = "none"
      /\ processed[c].needsOperator = "none" /\ ~Unsettled(c) /\ NotAsked(c) /\ meter[c] = 1
  BY <1>1, <1>2 DEF Sound, PointSound
<1>7. /\ r \in ProcessedRecord /\ r.in /\ r.reversal = "none" /\ r.needsOperator = "none"
      /\ r.withheld = processed[c].withheld
  BY <1>3, <1>4, <1>6, FinalizedFields
<1>8. /\ q.in /\ q.reversal = "none" /\ q.needsOperator = "none"
      /\ q.withheld = processed[c].withheld
  <2>1. q \in {r, NotifyOwed(r)}
    BY <1>3, <1>5 DEF TypeOK
  <2> QED BY <1>7, <2>1, NotifyOwedFields
<1>9. Others(c)
  BY <1>2, <1>3 DEF Others, Same, meters, TypeOK
<1>10. TxSound(c)'
  BY <1>2, <1>5, <1>6, <1>8 DEF Sound, TxSound, MeterSound, RecordSound, LookSound,
     ReversalSound, Unsettled, Restorable, ReversedAnomaly, meters
<1>11. CliSound'
  BY <1>2, <1>6, <1>9, CliFrame DEF CliOn
<1> QED BY <1>2, <1>9, <1>10, <1>11, OthersAreSound, RestIsSound DEF Sound, Resting

\* Steps that read, wait or give up: no file changes but `pending'.
QuietStep ==
    \/ \E t \in Txids : ReportBegin(t) \/ SweepNext(t) \/ ReconcileSkips(t) \/ RecheckWaits(t)
    \/ SweepBegin \/ SweepEnd \/ VerifyFails \/ VerifyWaits \/ CreditMoneyFails
    \/ RecheckEnd \/ PassFails \/ DaemonCrash

\* They forget looks and change no more.
LEMMA QuietSound == ASSUME TypeOK, Sound, QuietStep PROVE Sound'
<1>1. pc' \in Resting /\ \A t \in Txids : look'[t] \in {look[t], "none"}
  BY ReleaseRests, ReturnRests DEF QuietStep, Resting, ReportBegin, SweepNext, Claim, ReconcileSkips,
     RecheckWaits, SweepBegin, SweepEnd, VerifyFails, VerifyWaits, CreditMoneyFails, RecheckEnd,
     PassFails, DaemonCrash, Judged, TypeOK
<1>2. UNCHANGED <<chain, processed, creditedTxids, reversed, meter, lastDeposit, cli>>
  BY DEF QuietStep, ReportBegin, SweepNext, ReconcileSkips,
     RecheckWaits, SweepBegin, SweepEnd, VerifyFails, VerifyWaits, CreditMoneyFails, RecheckEnd,
     PassFails, DaemonCrash, disk, meters
<1>3. CliHoldsLock => pc' = "idle"
  BY AtWorkOnTx DEF QuietStep, ReportBegin, SweepNext, ReconcileSkips,
     RecheckWaits, SweepBegin, SweepEnd, VerifyFails, VerifyWaits, CreditMoneyFails, RecheckEnd,
     PassFails, DaemonCrash, LockFree, Release
<1>4. \A t \in Txids : Same(t)
  BY <1>1, <1>2 DEF Same
<1> QED BY <1>1, <1>2, <1>3, <1>4, QuietFrame, RestIsSound DEF Sound

-----------------------------------------------------------------------------
(* Reconciling *)

\* Every record that is put back keeps its crediting mark; it is closed, or it
\* stays open with the stamp it had and no question it did not have.
LEMMA SavedSound ==
    ASSUME TypeOK, Sound, pc # "idle", NEW c \in Txids, NEW q \in ProcessedRecord,
           SaveAndNext(c, q), UNCHANGED <<chain, creditedTxids, reversed, meters, cli>>,
           processed[c].in, q.in, ~q.withheld, q.crediting = processed[c].crediting,
           \/ ~q.unconfirmed /\ q.reversal = "none"
           \/ /\ q.unconfirmed = processed[c].unconfirmed
              /\ q.reversal = processed[c].reversal /\ q.resolved = processed[c].resolved
              /\ q.needsOperator = processed[c].needsOperator \/ q.crediting
    PROVE  Sound'
<1>1. processed'[c] = q /\ pc' = "reconcile" /\ look'[c] = "none" /\ ~CliHoldsLock
  BY AtWorkOnTx DEF SaveAndNext, Judged, TypeOK
<1>2. Others(c)
  BY DEF Others, Same, meters, SaveAndNext, Judged, TypeOK
<1>3. TxSound(c)'
  BY <1>1 DEF Sound, TxSound, MeterSound, RecordSound, LookSound,
     ReversalSound, Unsettled, Restorable, ReversedAnomaly, meters
<1>4. CliSound'
  <2>1. CASE CliOn(c)
    BY <1>1, <2>1 DEF Sound, CliSound, CliOn, NotAsked, CliHoldsLock, meters
  <2>2. CASE ~CliOn(c)
    BY <1>1, <1>2, <2>2, CliFrame
  <2> QED BY <2>1, <2>2
<1> QED BY <1>1, <1>2, <1>3, <1>4, OthersAreSound, RestIsSound DEF Sound, Resting

\* The transaction is seen in a block: the record is closed.
LEMMA ReconcileConfirmsSound ==
    ASSUME TypeOK, Sound, NEW c \in Txids, ReconcileConfirms(c) PROVE Sound'
<1> DEFINE reason == IF processed[c].reversal = "none" THEN processed[c].needsOperator
                     ELSE "ambiguousReversal"
<1>1. reason \in Reasons /\ processed[c] \in ProcessedRecord
  BY DEF ProcessedRecord, Reasons, TypeOK
<1>2. PICK q : q = Confirmed(processed[c], reason)
  OBVIOUS
<1>3. SaveAndNext(c, q) /\ UNCHANGED <<chain, creditedTxids, reversed, meters, cli>>
      /\ pc = "reconcile" /\ processed[c].in
  BY <1>2 DEF ReconcileConfirms, Live
<1> HIDE DEF reason
<1>4. /\ q \in ProcessedRecord /\ q.in = processed[c].in /\ ~q.unconfirmed /\ ~q.withheld
      /\ q.reversal = "none" /\ q.crediting = processed[c].crediting
  BY <1>1, <1>2, ConfirmedFields
<1> QED BY <1>3, <1>4, SavedSound

\* The same after a re-credit; the meter has it again.
LEMMA RecreditConfirmsSound == ASSUME TypeOK, Sound, RecreditConfirms PROVE Sound'
<1>1. PICK c \in Txids : c = cur
  BY AtWorkOnTx DEF RecreditConfirms, AtWork, DaemonPoints
<1>2. processed[c] \in ProcessedRecord /\ processed[c].needsOperator \in Reasons
  BY DEF ProcessedRecord, TypeOK
<1>3. PICK q : q = Confirmed(processed[c], processed[c].needsOperator)
  OBVIOUS
<1>4. SaveAndNext(c, q) /\ UNCHANGED <<chain, creditedTxids, reversed, meters, cli>>
      /\ pc = "confirm" /\ processed[c].in
  BY <1>1, <1>3 DEF RecreditConfirms, Sound, PointSound
<1>5. /\ q \in ProcessedRecord /\ q.in = processed[c].in /\ ~q.unconfirmed /\ ~q.withheld
      /\ q.reversal = "none" /\ q.crediting = processed[c].crediting
  BY <1>2, <1>3, ConfirmedFields
<1> QED BY <1>4, <1>5, SavedSound

\* Still in the mempool: the misses start over.
LEMMA StillInMempoolSound ==
    ASSUME TypeOK, Sound, NEW c \in Txids, StillInMempool(c) PROVE Sound'
<1>1. processed[c] \in ProcessedRecord /\ ~processed[c].withheld
  BY DEF TypeOK, Sound, TxSound, RecordSound
<1>2. PICK q : q = SeenAgain(processed[c])
  OBVIOUS
<1> QED BY <1>1, <1>2, SeenAgainFields, SavedSound DEF StillInMempool, Live

\* A miss on a record whose credit is under way raises a flag only.
LEMMA MissedMidCreditSound ==
    ASSUME TypeOK, Sound, NEW c \in Txids, MissedMidCredit(c) PROVE Sound'
<1>1. processed[c] \in ProcessedRecord /\ ~processed[c].withheld
  BY DEF TypeOK, Sound, TxSound, RecordSound
<1>2. PICK q : q = Flagged(processed[c], "unprovenCredit")
  OBVIOUS
<1>3. /\ q \in ProcessedRecord /\ q.in = processed[c].in /\ q.unconfirmed = processed[c].unconfirmed
      /\ q.reversal = processed[c].reversal /\ q.resolved = processed[c].resolved
      /\ q.crediting = processed[c].crediting /\ q.withheld = processed[c].withheld
  BY <1>1, <1>2, FlaggedFields DEF Reasons
<1> QED BY <1>1, <1>2, <1>3, SavedSound DEF MissedMidCredit, Missed, Live

\* A miss before the evidence suffices counts one.
LEMMA MissedTooEarlySound ==
    ASSUME TypeOK, Sound, NEW c \in Txids, MissedTooEarly(c) PROVE Sound'
<1>1. processed[c] \in ProcessedRecord /\ ~processed[c].withheld
  BY DEF TypeOK, Sound, TxSound, RecordSound
<1>2. PICK q \in {processed[c], CountMiss(processed[c])} : SaveAndNext(c, q)
  BY DEF MissedTooEarly
<1>3. /\ q \in ProcessedRecord /\ q.in = processed[c].in /\ q.unconfirmed = processed[c].unconfirmed
      /\ q.reversal = processed[c].reversal /\ q.resolved = processed[c].resolved
      /\ q.crediting = processed[c].crediting /\ q.withheld = processed[c].withheld
      /\ q.needsOperator = processed[c].needsOperator
  BY <1>1, <1>2, CountMissFields
<1> QED BY <1>1, <1>2, <1>3, SavedSound DEF MissedTooEarly, Missed, Live

\* A lookup never says "gone" of a transaction that confirmed.
LEMMA ReconcileBeginSound == ASSUME TypeOK, Sound, ReconcileBegin PROVE Sound'
<1>1. /\ UNCHANGED <<chain, disk, meters, cli>> /\ pc' = "reconcile" /\ ~CliHoldsLock
      /\ \A t \in Txids : look'[t] \in (IF t \in Open THEN Answers(t) ELSE {"none"})
  BY DEF ReconcileBegin, LockFree
<1>2. ASSUME NEW t \in Txids PROVE TxSound(t)'
  <2>1. look'[t] = "strong" => chain[t] = "dropped"
    BY <1>1 DEF Answers, TypeOK, Statuses
  <2>2. look'[t] = "confirmed" => chain[t] = "confirmed"
    BY <1>1 DEF Answers, TypeOK, Statuses
  <2> QED BY <1>1, <2>1, <2>2 DEF Sound, TxSound, MeterSound, RecordSound, LookSound,
     ReversalSound, Unsettled, Restorable, ReversedAnomaly, disk, meters
<1>3. CliSound'
  BY <1>1 DEF Sound, CliSound, CliHoldsLock, disk, meters, Unsettled, Restorable
<1> QED BY <1>1, <1>2, <1>3, RestIsSound DEF Sound, Resting

\* A debited record confirms: its intent is to credit again.
LEMMA RecreditIntentSound ==
    ASSUME TypeOK, Sound, NEW c \in Txids, RecreditIntent(c) PROVE Sound'
<1>1. PICK q : q = Stamped(processed[c], "recredited")
  OBVIOUS
<1>2. processed[c] \in ProcessedRecord /\ processed[c].in /\ "recredited" \in Reversals
  BY DEF TypeOK, RecreditIntent, Live, Reversals
<1>3. /\ q.in /\ q.reversal = "recredited" /\ q.unconfirmed = processed[c].unconfirmed
      /\ q.crediting = processed[c].crediting /\ q.withheld = processed[c].withheld
      /\ q.needsOperator = processed[c].needsOperator /\ q.resolved = processed[c].resolved
  BY <1>1, <1>2, StampedFields
<1>4. /\ pc = "reconcile" /\ processed[c].in /\ processed[c].reversal = "debited"
      /\ processed[c].unconfirmed /\ ~processed[c].crediting /\ meter[c] = 0
      /\ look[c] = "confirmed" /\ chain[c] = "confirmed" /\ ~CliHoldsLock
  BY AtWorkOnTx DEF RecreditIntent, Live, Sound, TxSound, RecordSound, LookSound
<1>5. /\ processed' = [processed EXCEPT ![c] = q] /\ pc' = "recredit" /\ cur' = c
      /\ UNCHANGED <<chain, creditedTxids, reversed, meters, look, cli>>
  BY <1>1 DEF RecreditIntent
<1>6. processed'[c] = q /\ Others(c)
  BY <1>5 DEF Others, Same, meters, TypeOK
<1>7. TxSound(c)'
  BY <1>3, <1>4, <1>5, <1>6 DEF Sound, TxSound, MeterSound, RecordSound, LookSound,
     ReversalSound, Unsettled, Restorable, ReversedAnomaly, meters
<1>8. ~CliOn(c)
  BY <1>4 DEF Sound, CliSound, CliOn, NotAsked
<1>9. CliSound'
  BY <1>4, <1>5, <1>6, <1>8, CliFrame
<1>10. PointSound'
  BY <1>3, <1>4, <1>5, <1>6 DEF PointSound, meters
<1> QED BY <1>6, <1>7, <1>9, <1>10, OthersAreSound DEF Sound

\* The money of the re-credit; the stamp said it is off the meter.
LEMMA RecreditMoneySound == ASSUME TypeOK, Sound, RecreditMoney PROVE Sound'
<1>1. PICK c \in Txids : c = cur
  BY AtWorkOnTx DEF RecreditMoney, AtWork, DaemonPoints
<1>2. /\ pc = "recredit" /\ pc' = "confirm" /\ ~CliHoldsLock /\ CreditMeter(c)
      /\ UNCHANGED <<cur, chain, disk, look, cli>>
  BY <1>1, AtWorkOnTx DEF RecreditMoney, Goto
<1>3. /\ processed[c].in /\ processed[c].reversal = "recredited" /\ meter[c] = 0
      /\ processed[c].unconfirmed /\ ~processed[c].crediting
  BY <1>1, <1>2 DEF Sound, PointSound, TxSound, RecordSound
<1>4. Others(c) /\ meter'[c] = 1
  BY <1>2, <1>3, CreditedOnce DEF Others, Same, disk
<1>5. TxSound(c)'
  BY <1>2, <1>3, <1>4 DEF Sound, TxSound, MeterSound, RecordSound, LookSound,
     ReversalSound, Unsettled, Restorable, ReversedAnomaly, disk
<1>6. CliSound'
  BY <1>2, <1>3, <1>4, CliFrame DEF CliOn, NotAsked, Sound, CliSound
<1>7. PointSound'
  BY <1>1, <1>2, <1>3, <1>4 DEF PointSound, disk
<1> QED BY <1>4, <1>5, <1>6, <1>7, OthersAreSound DEF Sound

-----------------------------------------------------------------------------
(* Reversing *)

\* A transaction is gone: the debit is announced while the meter has it.
LEMMA ReversalIntentSound ==
    ASSUME TypeOK, Sound, NEW c \in Txids, ReversalIntent(c) PROVE Sound'
<1>1. PICK r : r = CountMiss(processed[c])
  OBVIOUS
<1>2. PICK q : q = Stamped(r, "debiting")
  OBVIOUS
<1>3. /\ pc = "reconcile" /\ look[c] = "strong" /\ processed[c].in /\ processed[c].unconfirmed
      /\ ~processed[c].crediting /\ processed[c].reversal \notin {"debiting", "debited"}
      /\ processed[c] \in ProcessedRecord /\ ~CliHoldsLock
  BY AtWorkOnTx DEF ReversalIntent, ReversalDue, Missed, Live, AlreadyDebited, TypeOK
<1>4. processed[c].reversal = "none" /\ meter[c] = 1
  BY <1>3 DEF ProcessedRecord, Reversals, Sound, TxSound, RecordSound, LookSound
<1>5. r \in ProcessedRecord /\ r.in /\ r.unconfirmed /\ ~r.crediting
      /\ r.withheld = processed[c].withheld /\ r.needsOperator = processed[c].needsOperator
      /\ r.resolved = processed[c].resolved
  BY <1>1, <1>3, CountMissFields
<1>6. q.in /\ q.unconfirmed /\ ~q.crediting /\ q.reversal = "debiting"
      /\ q.withheld = processed[c].withheld /\ q.needsOperator = processed[c].needsOperator
      /\ q.resolved = processed[c].resolved
  BY <1>2, <1>5, StampedFields DEF Reversals
<1>7. /\ processed' = [processed EXCEPT ![c] = q] /\ pc' = "debit" /\ cur' = c
      /\ UNCHANGED <<chain, creditedTxids, reversed, meters, look, cli>>
  BY <1>1, <1>2 DEF ReversalIntent
<1>8. processed'[c] = q /\ Others(c)
  BY <1>7 DEF Others, Same, meters, TypeOK
<1>9. TxSound(c)'
  BY <1>3, <1>4, <1>6, <1>7, <1>8 DEF Sound, TxSound, MeterSound, RecordSound, LookSound,
     ReversalSound, Unsettled, Restorable, ReversedAnomaly, meters
<1>10. ~CliOn(c)
  BY <1>3 DEF Sound, CliSound, CliOn, NotAsked
<1>11. CliSound'
  BY <1>3, <1>7, <1>8, <1>10, CliFrame
<1>12. PointSound'
  BY <1>4, <1>6, <1>7, <1>8 DEF PointSound, meters
<1> QED BY <1>8, <1>9, <1>11, <1>12, OthersAreSound DEF Sound

\* The debit: announced, so the meter still has the deposit.
LEMMA ReversalMoneySound == ASSUME TypeOK, Sound, ReversalMoney PROVE Sound'
<1>1. PICK c \in Txids : c = cur
  BY AtWorkOnTx DEF ReversalMoney, AtWork, DaemonPoints
<1>2. /\ pc = "debit" /\ pc' = "debited" /\ ~CliHoldsLock /\ DebitMeter(c)
      /\ UNCHANGED <<cur, chain, disk, look, cli>>
  BY <1>1, AtWorkOnTx DEF ReversalMoney, Goto
<1>3. /\ processed[c].in /\ processed[c].reversal = "debiting" /\ meter[c] = 1
      /\ processed[c].unconfirmed /\ ~processed[c].crediting
  BY <1>1, <1>2 DEF Sound, PointSound, TxSound, RecordSound
<1>4. Others(c) /\ meter'[c] = 0 /\ lastDeposit'[BuyerOf[c]] # c
  BY <1>2, <1>3, DebitedOnce DEF Others, Same, disk
<1>5. TxSound(c)'
  BY <1>2, <1>3, <1>4 DEF Sound, TxSound, MeterSound, RecordSound, LookSound,
     ReversalSound, Unsettled, Restorable, ReversedAnomaly, disk
<1>6. CliSound'
  BY <1>2, <1>3, <1>4, CliFrame DEF CliOn, NotAsked, Sound, CliSound
<1>7. PointSound'
  BY <1>1, <1>2, <1>3, <1>4 DEF PointSound, disk
<1> QED BY <1>4, <1>5, <1>6, <1>7, OthersAreSound DEF Sound

\* The debit is certain; the record says so.
LEMMA ReversalDebitedSound == ASSUME TypeOK, Sound, ReversalDebited PROVE Sound'
<1>1. PICK c \in Txids : c = cur
  BY AtWorkOnTx DEF ReversalDebited, AtWork, DaemonPoints
<1>2. PICK q : q = Stamped(processed[c], "debited")
  OBVIOUS
<1>3. /\ pc = "debited" /\ pc' = "remove" /\ ~CliHoldsLock
      /\ processed' = [processed EXCEPT ![c] = q]
      /\ UNCHANGED <<cur, chain, creditedTxids, reversed, meters, look, cli>>
  BY <1>1, <1>2, AtWorkOnTx DEF ReversalDebited, Goto
<1>4. /\ processed[c].in /\ processed[c].reversal = "debiting" /\ meter[c] = 0
      /\ processed[c].unconfirmed /\ ~processed[c].crediting
  BY <1>1, <1>3 DEF Sound, PointSound, TxSound, RecordSound
<1>5. q.in /\ q.unconfirmed /\ ~q.crediting /\ q.reversal = "debited"
      /\ q.withheld = processed[c].withheld /\ q.needsOperator = processed[c].needsOperator
      /\ q.resolved = processed[c].resolved
  BY <1>2, <1>4, StampedFields DEF Reversals, TypeOK
<1>6. processed'[c] = q /\ Others(c)
  BY <1>3 DEF Others, Same, meters, TypeOK
<1>7. TxSound(c)'
  BY <1>3, <1>4, <1>5, <1>6 DEF Sound, TxSound, MeterSound, RecordSound, LookSound,
     ReversalSound, Unsettled, Restorable, ReversedAnomaly, meters
<1>8. CliSound'
  BY <1>3, <1>4, <1>6, CliFrame DEF CliOn, NotAsked, Sound, CliSound
<1>9. PointSound'
  BY <1>1, <1>3, <1>5, <1>6 DEF PointSound
<1> QED BY <1>6, <1>7, <1>8, <1>9, OthersAreSound DEF Sound

\* The bookkeeping, with or without a certain debit.
LEMMA MoveToReversedSound ==
    ASSUME TypeOK, Sound, pc # "idle", NEW c \in Txids, NEW certain \in BOOLEAN,
           MoveToReversed(c, certain), processed[c].in, processed[c].unconfirmed,
           ~processed[c].crediting, certain => meter[c] = 0
    PROVE  Sound'
<1>1. /\ processed'[c] = NoRecord /\ reversed'[c] = NewReversal(certain)
      /\ creditedTxids' = IF certain THEN creditedTxids \ {c} ELSE creditedTxids
      /\ look'[c] = "none" /\ pc' = "reconcile" /\ UNCHANGED <<chain, meters, cli>>
      /\ ~CliHoldsLock
  BY AtWorkOnTx DEF MoveToReversed, SaveAndNext, Judged, TypeOK
<1>2. Others(c)
  BY DEF MoveToReversed, SaveAndNext, Judged, Others, Same, meters, TypeOK
<1>3. ~NoRecord.in /\ ~NoRecord.withheld
  BY DEF NoRecord
<1>4. LET r == NewReversal(certain) IN
      /\ r.in /\ ~r.restored /\ ~r.restoring /\ r.needsOperator = "none" /\ r.debited = certain
  BY DEF NewReversal
<1>5. c \in creditedTxids /\ (certain => lastDeposit[BuyerOf[c]] # c)
  BY DEF Sound, TxSound, MeterSound
<1>6. TxSound(c)'
  BY <1>1, <1>3, <1>4, <1>5 DEF Sound, TxSound, MeterSound, RecordSound, LookSound,
     ReversalSound, Unsettled, Restorable, ReversedAnomaly, meters
<1>7. CliSound'
  BY <1>1, <1>2, CliFrame DEF CliOn, NotAsked, Sound, CliSound
<1> QED BY <1>1, <1>2, <1>6, <1>7, OthersAreSound, RestIsSound DEF Sound, Resting

\* The bookkeeping of a certain debit frees the txid.
LEMMA ReversalRecordedSound == ASSUME TypeOK, Sound, ReversalRecorded PROVE Sound'
<1>1. PICK c \in Txids : c = cur
  BY AtWorkOnTx DEF ReversalRecorded, AtWork, DaemonPoints
<1>2. pc = "remove" /\ processed[c].in /\ processed[c].reversal = "debited"
  BY <1>1 DEF ReversalRecorded, Sound, PointSound
<1>3. processed[c].unconfirmed /\ ~processed[c].crediting /\ meter[c] = 0
  BY <1>2 DEF Sound, TxSound, RecordSound
<1>4. MoveToReversed(c, TRUE)
  BY <1>1 DEF ReversalRecorded
<1> QED BY <1>2, <1>3, <1>4, MoveToReversedSound

\* The bookkeeping after a crash does not, for the debit is not certain.
LEMMA ReversalForgivenSound ==
    ASSUME TypeOK, Sound, NEW c \in Txids, ReversalForgiven(c) PROVE Sound'
BY MoveToReversedSound DEF ReversalForgiven, Missed, Live

-----------------------------------------------------------------------------
(* Rechecking the reversals *)

\* A restore that a crash interrupted is flagged; it is unsettled, and not the
\* recheck's any more.
LEMMA EnterRecheckSound ==
    ASSUME TypeOK, Sound, ~CliHoldsLock, EnterRecheck,
           UNCHANGED <<chain, processed, creditedTxids, meters, cli>>
    PROVE  Sound'
<1>1. /\ pc' = "recheck" /\ \A t \in Txids : look'[t] = "none"
      /\ UNCHANGED <<meter, lastDeposit>>
  BY DEF EnterRecheck, meters
<1>2. ASSUME NEW t \in Txids PROVE TxSound(t)'
  <2>1. PICK q : q = reversed'[t]
    OBVIOUS
  <2>2. CASE reversed[t].in /\ reversed[t].restoring
    <3>1. q = Flagged(reversed[t], "restoreInterrupted")
      BY <2>1, <2>2 DEF EnterRecheck
    <3>2. /\ q.in = reversed[t].in /\ q.debited = reversed[t].debited
          /\ q.restoring = reversed[t].restoring /\ q.restored = reversed[t].restored
          /\ q.resolved = reversed[t].resolved
      BY <3>1, ReversalFlaggedFields DEF TypeOK, Reasons
    <3> QED BY <1>1, <2>1, <2>2, <3>2 DEF Sound, TxSound, MeterSound, RecordSound, LookSound,
     ReversalSound, Unsettled, Restorable, ReversedAnomaly
  <2>3. CASE ~(reversed[t].in /\ reversed[t].restoring)
    <3>1. q = reversed[t]
      BY <2>1, <2>3 DEF EnterRecheck
    <3> QED BY <1>1, <2>1, <3>1 DEF Sound, TxSound, MeterSound, RecordSound, LookSound,
     ReversalSound, Unsettled, Restorable, ReversedAnomaly
  <2> QED BY <2>2, <2>3
<1>3. CliSound'
  BY <1>1 DEF Sound, CliSound, CliHoldsLock
<1> QED BY <1>1, <1>2, <1>3, RestIsSound DEF Sound, Resting

\* The recheck asks the operator about an uncertain debit.
LEMMA RecheckFlagsSound ==
    ASSUME TypeOK, Sound, NEW c \in Txids, RecheckFlags(c) PROVE Sound'
<1>1. /\ pc = "recheck" /\ pc' = "recheck" /\ ~CliHoldsLock
      /\ UNCHANGED <<chain, processed, creditedTxids, meters, look, cli>>
      /\ ~reversed[c].debited
  BY AtWorkOnTx DEF RecheckFlags
<1>2. Others(c)
  BY DEF RecheckFlags, Others, Same, meters, TypeOK
<1>3. PICK q : q = reversed'[c]
  OBVIOUS
<1>4. /\ q.in = reversed[c].in /\ q.debited = reversed[c].debited
      /\ q.restoring = reversed[c].restoring /\ q.restored = reversed[c].restored
      /\ q.resolved = reversed[c].resolved
      /\ q.restored => q = reversed[c]
  <2>1. q = IF reversed[c].restored THEN reversed[c]
            ELSE Flagged(reversed[c], "confirmedUndebited")
    BY <1>3 DEF RecheckFlags, TypeOK
  <2>2. reversed[c] \in ReversedRecord /\ "confirmedUndebited" \in Reasons
    BY DEF TypeOK, Reasons
  <2> QED BY <2>1, <2>2, ReversalFlaggedFields
<1>5. TxSound(c)'
  BY <1>1, <1>3, <1>4 DEF Sound, TxSound, MeterSound, RecordSound, LookSound,
     ReversalSound, Unsettled, Restorable, ReversedAnomaly, meters
<1>6. CliSound'
  <2>1. CASE CliOn(c)
    BY <1>1, <2>1 DEF Sound, CliSound, CliOn, NotAsked, CliHoldsLock, meters
  <2>2. CASE ~CliOn(c)
    BY <1>1, <1>2, <2>2, CliFrame
  <2> QED BY <2>1, <2>2
<1> QED BY <1>1, <1>2, <1>5, <1>6, OthersAreSound, RestIsSound DEF Sound, Resting

\* The record a restore leaves is closed and unflagged.
LEMMA SettledRecordFields ==
    /\ SettledRecord.in /\ ~SettledRecord.crediting /\ ~SettledRecord.unconfirmed
    /\ SettledRecord.reversal = "none" /\ SettledRecord.needsOperator = "none"
    /\ ~SettledRecord.withheld
<1>1. NoRecord \in ProcessedRecord /\ NoRecord.reversal = "none" /\ ~NoRecord.crediting
      /\ ~NoRecord.unconfirmed /\ NoRecord.needsOperator = "none" /\ ~NoRecord.withheld
  BY NewRecords DEF NoRecord
<1> QED BY <1>1, FiledFields DEF SettledRecord

\* A reversed transaction confirms: intent and dedup entry come first.
LEMMA RestoreIntentSound ==
    ASSUME TypeOK, Sound, NEW c \in Txids, RestoreIntent(c) PROVE Sound'
<1>1. PICK q : q = Restoring(reversed[c])
  OBVIOUS
<1>2. /\ pc = "recheck" /\ Restorable(c) /\ c \notin creditedTxids /\ ~processed[c].in
      /\ ~ReversedAnomaly(c) /\ ~CliHoldsLock /\ reversed[c] \in ReversedRecord
      /\ meter[c] = 0 /\ lastDeposit[BuyerOf[c]] # c
  BY AtWorkOnTx DEF RestoreIntent, Sound, TxSound, ReversalSound, MeterSound, TypeOK
<1>3. /\ reversed' = [reversed EXCEPT ![c] = q]
      /\ processed' = [processed EXCEPT ![c] = SettledRecord]
      /\ creditedTxids' = creditedTxids \cup {c} /\ pc' = "restore" /\ cur' = c
      /\ UNCHANGED <<chain, meters, look, cli>>
  BY <1>1, <1>2 DEF RestoreIntent
<1>4. processed'[c] = SettledRecord /\ reversed'[c] = q /\ Others(c)
  BY <1>3 DEF Others, Same, meters, TypeOK
<1>5. /\ q.in /\ q.debited /\ q.restoring /\ ~q.restored
      /\ q.needsOperator = reversed[c].needsOperator /\ q.resolved = reversed[c].resolved
  BY <1>1, <1>2, RestoringFields DEF Restorable
<1>6. ~ReversedAnomaly(c)' /\ ~ProcessedAnomaly(c)'
  BY <1>2, <1>4, <1>5, SettledRecordFields DEF ReversedAnomaly, ProcessedAnomaly, Restorable
<1>7. TxSound(c)'
  BY <1>2, <1>3, <1>4, <1>5, <1>6, SettledRecordFields DEF Sound, TxSound, MeterSound,
     RecordSound, LookSound, ReversalSound, Unsettled, Restorable, meters
<1>8. ~CliOn(c)
  BY <1>2, NotCliOn
<1>9. CliSound'
  BY <1>2, <1>3, <1>4, <1>8, CliFrame
<1>10. PointSound'
  <2>1. NotAsked(c)' /\ meter'[c] = 0 /\ c \in creditedTxids'
    BY <1>2, <1>3, <1>8 DEF CliOn, NotAsked, meters
  <2> QED BY <1>3, <1>4, <1>5, <1>6, <2>1 DEF PointSound, Anomaly
<1> QED BY <1>4, <1>7, <1>9, <1>10, OthersAreSound DEF Sound

\* The money of the restore; the reversal took it off the meter.
LEMMA RestoreMoneySound == ASSUME TypeOK, Sound, RestoreMoney PROVE Sound'
<1>1. PICK c \in Txids : c = cur
  BY AtWorkOnTx DEF RestoreMoney, AtWork, DaemonPoints
<1>2. /\ pc = "restore" /\ pc' = "settle" /\ ~CliHoldsLock /\ CreditMeter(c)
      /\ UNCHANGED <<cur, chain, disk, look, cli>>
  BY <1>1, AtWorkOnTx DEF RestoreMoney, Goto
<1>3. /\ reversed[c].in /\ reversed[c].debited /\ reversed[c].restoring /\ ~reversed[c].restored
      /\ ~Anomaly(c) /\ NotAsked(c) /\ c \in creditedTxids /\ meter[c] = 0
  BY <1>1, <1>2 DEF Sound, PointSound
<1>4. Others(c) /\ meter'[c] = 1
  BY <1>2, <1>3, CreditedOnce DEF Others, Same, disk
<1>5. TxSound(c)'
  BY <1>2, <1>3, <1>4 DEF Sound, TxSound, MeterSound, RecordSound, LookSound,
     ReversalSound, Unsettled, Restorable, ReversedAnomaly, disk
<1>6. CliSound'
  BY <1>2, <1>3, <1>4, CliFrame DEF CliOn
<1>7. ~Anomaly(c)' /\ NotAsked(c)'
  BY <1>2, <1>3 DEF Anomaly, ProcessedAnomaly, ReversedAnomaly, InFlight, NotAsked, disk
<1>8. PointSound'
  BY <1>1, <1>2, <1>3, <1>4, <1>7 DEF PointSound, disk
<1> QED BY <1>4, <1>5, <1>6, <1>8, OthersAreSound DEF Sound

\* The reversal is closed.
LEMMA RestoreSettlesSound == ASSUME TypeOK, Sound, RestoreSettles PROVE Sound'
<1>1. PICK c \in Txids : c = cur
  BY AtWorkOnTx DEF RestoreSettles, AtWork, DaemonPoints
<1>2. PICK q : q = Restored(reversed[c])
  OBVIOUS
<1>3. /\ pc = "settle" /\ pc' = "recheck" /\ ~CliHoldsLock
      /\ reversed' = [reversed EXCEPT ![c] = q]
      /\ UNCHANGED <<chain, processed, creditedTxids, meters, look, cli>>
  BY <1>1, <1>2, AtWorkOnTx DEF RestoreSettles
<1>4. ~ReversedAnomaly(c) /\ NotAsked(c)
  BY <1>1, <1>3 DEF Sound, PointSound, Anomaly
<1>5. /\ q.in = reversed[c].in /\ ~q.restoring /\ q.restored
      /\ q.needsOperator = reversed[c].needsOperator /\ q.resolved = reversed[c].resolved
  BY <1>2, RestoredFields DEF TypeOK
<1>6. reversed'[c] = q /\ Others(c)
  BY <1>3 DEF Others, Same, meters, TypeOK
<1>7. TxSound(c)'
  BY <1>3, <1>4, <1>5, <1>6 DEF Sound, TxSound, MeterSound, RecordSound, LookSound,
     ReversalSound, Unsettled, Restorable, ReversedAnomaly, meters
<1>8. CliSound'
  BY <1>3, <1>4, <1>6, CliFrame DEF CliOn
<1> QED BY <1>3, <1>6, <1>7, <1>8, OthersAreSound, RestIsSound DEF Sound, Resting

-----------------------------------------------------------------------------
(* The CLI *)

\* The CLI works while the daemon holds no lock.
LEMMA CliBeginSound ==
    ASSUME TypeOK, Sound, NEW c \in Txids, NEW a \in {"credit", "dismiss"}, CliBegin(c, a)
    PROVE  Sound'
<1>1. /\ UNCHANGED <<chain, disk, meters, daemon>> /\ cli.at = "off" /\ Anomaly(c)
      /\ cli' = [at |-> "asked", tx |-> c, action |-> a, where |-> "none"]
      /\ a = "credit" => meter[c] = 0
  BY DEF CliBegin
<1>2. ASSUME NEW t \in Txids PROVE TxSound(t)'
  BY <1>1 DEF Sound, TxSound, MeterSound, RecordSound, LookSound,
     ReversalSound, Unsettled, Restorable, ReversedAnomaly, disk, meters, daemon
<1>3. a = "credit" => c \in creditedTxids
                      /\ (processed[c].in => processed[c].crediting \/ ~processed[c].unconfirmed)
  <2>1. CASE ReversedAnomaly(c)
    BY <2>1 DEF Sound, TxSound, ReversalSound, MeterSound, Unsettled
  <2>2. CASE ProcessedAnomaly(c)
    BY <2>2 DEF Sound, TxSound, MeterSound, RecordSound, ProcessedAnomaly
  <2> QED BY <1>1, <2>1, <2>2 DEF Anomaly
<1>4. CliSound'
  BY <1>1, <1>3 DEF CliSound, CliHoldsLock, disk, meters
<1>5. pc \in {"credit", "finalize", "restore", "settle"} => cur # c
  BY <1>1 DEF Sound, PointSound, TxSound, ReversalSound, Anomaly, ProcessedAnomaly, InFlight
<1>6. PointSound'
  BY <1>1, <1>5 DEF Sound, PointSound, NotAsked, Unsettled, Anomaly, ProcessedAnomaly,
     ReversedAnomaly, InFlight, disk, meters, daemon
<1> QED BY <1>2, <1>4, <1>6 DEF Sound

\* The CLI gives up, or dies.
LEMMA CliEndsSound ==
    ASSUME TypeOK, Sound, CliRefused \/ CliCrash PROVE Sound'
<1>1. /\ UNCHANGED <<chain, disk, meters, daemon>> /\ cli'.at = "off"
  BY DEF CliRefused, CliCrash, CliOff
<1>2. ASSUME NEW t \in Txids PROVE TxSound(t)'
  BY <1>1 DEF Sound, TxSound, MeterSound, RecordSound, LookSound,
     ReversalSound, Unsettled, Restorable, ReversedAnomaly, disk, meters, daemon
<1>3. CliSound'
  BY <1>1 DEF CliSound, CliHoldsLock
<1>4. PointSound'
  BY <1>1 DEF Sound, PointSound, NotAsked, Unsettled, Anomaly, ProcessedAnomaly,
     ReversedAnomaly, InFlight, disk, meters, daemon
<1> QED BY <1>2, <1>3, <1>4 DEF Sound

\* The CLI marks what it is about to credit.
LEMMA CliCreditIntentSound == ASSUME TypeOK, Sound, CliCreditIntent PROVE Sound'
<1>1. PICK c \in Txids : c = cli.tx
  BY DEF CliCreditIntent, TypeOK
<1>2. /\ pc = "idle" /\ ~CliHoldsLock /\ cli.at = "asked" /\ cli.action = "credit"
      /\ UNCHANGED <<chain, creditedTxids, meters, daemon>>
      /\ meter[c] = 0 /\ c \in creditedTxids
      /\ processed[c].in => processed[c].crediting \/ ~processed[c].unconfirmed
  BY <1>1 DEF CliCreditIntent, LockFree, Sound, CliSound
<1>3. CASE /\ ProcessedAnomaly(c)
           /\ processed' = [processed EXCEPT ![c] = Resolving(@)]
           /\ CliGoto("crediting", "processed") /\ UNCHANGED reversed
  <2>1. PICK q : q = Resolving(processed[c])
    OBVIOUS
  <2>2. /\ q.in = processed[c].in /\ q.crediting = processed[c].crediting
        /\ q.unconfirmed = processed[c].unconfirmed /\ q.reversal = processed[c].reversal
        /\ q.needsOperator = processed[c].needsOperator /\ q.withheld = processed[c].withheld
        /\ q.resolved = processed[c].resolved
    BY <2>1, ResolvingFields DEF TypeOK
  <2>3. processed'[c] = q /\ Others(c)
    BY <1>2, <1>3, <2>1 DEF Others, Same, meters, daemon, TypeOK
  <2>4. TxSound(c)'
    BY <1>2, <1>3, <2>2, <2>3 DEF Sound, TxSound, MeterSound, RecordSound, LookSound,
     ReversalSound, Unsettled, Restorable, ReversedAnomaly, meters, daemon
  <2>5. CliSound'
    BY <1>1, <1>2, <1>3, <2>2, <2>3 DEF CliSound, CliHoldsLock, CliGoto, ProcessedAnomaly,
       meters, daemon
  <2> QED BY <1>2, <2>3, <2>4, <2>5, OthersAreSound, RestIsSound DEF Sound, Resting, daemon
<1>4. CASE /\ ReversedAnomaly(c)
           /\ reversed' = [reversed EXCEPT ![c] = Resolving(@)]
           /\ CliGoto("crediting", "reversed") /\ UNCHANGED processed
  <2>1. PICK q : q = Resolving(reversed[c])
    OBVIOUS
  <2>2. /\ q.in = reversed[c].in /\ q.debited = reversed[c].debited
        /\ q.restoring = reversed[c].restoring /\ q.restored = reversed[c].restored
        /\ q.needsOperator = reversed[c].needsOperator /\ q.resolved = reversed[c].resolved
    BY <2>1, ReversalResolvingFields DEF TypeOK
  <2>3. reversed'[c] = q /\ Others(c)
    BY <1>2, <1>4, <2>1 DEF Others, Same, meters, daemon, TypeOK
  <2>4. TxSound(c)'
    BY <1>2, <1>4, <2>2, <2>3 DEF Sound, TxSound, MeterSound, RecordSound, LookSound,
     ReversalSound, Unsettled, Restorable, ReversedAnomaly, meters, daemon
  <2>5. Unsettled(c) /\ ~Restorable(c)
    BY <1>4 DEF Sound, TxSound, ReversalSound
  <2>6. CliSound'
    BY <1>1, <1>2, <1>4, <2>2, <2>3, <2>5 DEF CliSound, CliHoldsLock, CliGoto, Unsettled,
       Restorable, meters, daemon
  <2> QED BY <1>2, <2>3, <2>4, <2>6, OthersAreSound, RestIsSound DEF Sound, Resting, daemon
<1> QED BY <1>1, <1>3, <1>4 DEF CliCreditIntent

\* The money of the CLI: it was missing when the verb was given, and nobody
\* else could give it since.
LEMMA CliCreditMoneySound == ASSUME TypeOK, Sound, CliCreditMoney PROVE Sound'
<1>1. PICK c \in Txids : c = cli.tx
  BY DEF CliCreditMoney, TypeOK
<1>2. /\ CreditMeter(c) /\ CliGoto("settling", cli.where) /\ UNCHANGED <<chain, disk, daemon>>
      /\ CliHoldsLock /\ pc = "idle" /\ meter[c] = 0 /\ c \in creditedTxids
  BY <1>1 DEF CliCreditMoney, CliHoldsLock, Sound, CliSound
<1>3. /\ cli.where \in {"processed", "reversed"}
      /\ cli.where = "processed" =>
            processed[c].in /\ (processed[c].crediting \/ ~processed[c].unconfirmed)
      /\ cli.where = "reversed" => Unsettled(c) /\ ~Restorable(c)
  BY <1>1, <1>2 DEF Sound, CliSound
<1>4. Others(c) /\ meter'[c] = 1
  BY <1>2, CreditedOnce DEF Others, Same, disk, daemon
<1>5. processed[c].in => processed[c].reversal # "debited"
  BY <1>2, <1>3 DEF Sound, TxSound, RecordSound, ReversalSound
<1>6. TxSound(c)'
  BY <1>2, <1>4, <1>5 DEF Sound, TxSound, MeterSound, RecordSound, LookSound,
     ReversalSound, Unsettled, Restorable, ReversedAnomaly, disk, daemon
<1>7. CliSound'
  BY <1>1, <1>2, <1>3, <1>4 DEF CliSound, CliHoldsLock, CliGoto, Unsettled, Restorable, disk, daemon
<1> QED BY <1>2, <1>4, <1>6, <1>7, OthersAreSound, RestIsSound DEF Sound, Resting, daemon

\* The CLI settles the list it took the question from.
LEMMA CliCreditSettlesSound == ASSUME TypeOK, Sound, CliCreditSettles PROVE Sound'
<1>1. PICK c \in Txids : c = cli.tx
  BY DEF CliCreditSettles, TypeOK
<1>2. /\ CliHoldsLock /\ pc = "idle" /\ meter[c] = 1 /\ c \in creditedTxids
      /\ UNCHANGED <<chain, meters, daemon, creditedTxids>> /\ cli'.at = "off"
  BY <1>1 DEF CliCreditSettles, CliHoldsLock, Sound, CliSound, CliOff
<1>3. /\ cli.where = "processed" => processed[c].in
      /\ cli.where # "processed" => Unsettled(c) /\ ~Restorable(c)
  BY <1>1, <1>2 DEF Sound, CliSound
<1>4. CliSound'
  BY <1>2 DEF CliSound, CliHoldsLock
<1>5. CASE cli.where = "processed"
  <2>1. PICK q : q = Resolved(processed[c])
    OBVIOUS
  <2>2. /\ q.in = processed[c].in /\ q.crediting = processed[c].crediting
        /\ q.unconfirmed = processed[c].unconfirmed /\ q.reversal = processed[c].reversal
        /\ q.needsOperator = "none" /\ q.withheld = processed[c].withheld
    BY <2>1, ResolvedFields DEF TypeOK
  <2>3. processed' = [processed EXCEPT ![c] = q] /\ UNCHANGED reversed
    BY <1>1, <1>5, <2>1 DEF CliCreditSettles
  <2>4. processed'[c] = q /\ Others(c)
    BY <1>2, <2>3 DEF Others, Same, meters, daemon, TypeOK
  <2>5. TxSound(c)'
    BY <1>2, <2>2, <2>3, <2>4 DEF Sound, TxSound, MeterSound, RecordSound, LookSound,
     ReversalSound, Unsettled, Restorable, ReversedAnomaly, meters, daemon
  <2> QED BY <1>2, <1>4, <2>4, <2>5, OthersAreSound, RestIsSound DEF Sound, Resting, daemon
<1>6. CASE cli.where # "processed"
  <2>1. PICK r : r = Resolved(reversed[c])
    OBVIOUS
  <2>2. PICK q : q = Closed(r)
    OBVIOUS
  <2>3. r \in ReversedRecord /\ r.resolved = "operator"
    BY <2>1, ReversalResolvedFields DEF TypeOK
  <2>4. q.restored /\ q.resolved = "operator"
    BY <2>2, <2>3, ClosedFields
  <2>5. /\ reversed' = [reversed EXCEPT ![c] = q]
        /\ processed' = IF processed[c].in THEN processed
                        ELSE [processed EXCEPT ![c] = SettledRecord]
    BY <1>1, <1>6, <2>1, <2>2 DEF CliCreditSettles
  <2>6. reversed'[c] = q /\ Others(c)
        /\ processed'[c] = IF processed[c].in THEN processed[c] ELSE SettledRecord
    BY <1>2, <2>5 DEF Others, Same, meters, daemon, TypeOK
  <2>7. TxSound(c)'
    BY <1>2, <2>4, <2>6, SettledRecordFields DEF Sound, TxSound, MeterSound, RecordSound, LookSound,
     ReversalSound, Unsettled, Restorable, ReversedAnomaly, meters, daemon
  <2> QED BY <1>2, <1>4, <2>6, <2>7, OthersAreSound, RestIsSound DEF Sound, Resting, daemon
<1> QED BY <1>5, <1>6

\* A dismissed question changes no money.
LEMMA CliDismissSound == ASSUME TypeOK, Sound, CliDismiss PROVE Sound'
<1>1. PICK c \in Txids : c = cli.tx
  BY DEF CliDismiss, TypeOK
<1>2. /\ pc = "idle" /\ UNCHANGED <<chain, creditedTxids, meters, daemon>> /\ cli'.at = "off"
  BY DEF CliDismiss, LockFree, CliOff
<1>3. CliSound'
  BY <1>2 DEF CliSound, CliHoldsLock
<1>4. CASE processed' = [processed EXCEPT ![c] = Dismissed(@)] /\ UNCHANGED reversed
  <2>1. PICK q : q = Dismissed(processed[c])
    OBVIOUS
  <2>2. /\ q.in = processed[c].in /\ q.crediting = processed[c].crediting
        /\ q.unconfirmed = processed[c].unconfirmed /\ q.reversal = processed[c].reversal
        /\ q.needsOperator = "none" /\ q.withheld = processed[c].withheld
    BY <2>1, DismissedFields DEF TypeOK
  <2>3. processed'[c] = q /\ Others(c)
    BY <1>2, <1>4, <2>1 DEF Others, Same, meters, daemon, TypeOK
  <2>4. TxSound(c)'
    BY <1>2, <1>4, <2>2, <2>3 DEF Sound, TxSound, MeterSound, RecordSound, LookSound,
     ReversalSound, Unsettled, Restorable, ReversedAnomaly, meters, daemon
  <2> QED BY <1>2, <1>3, <2>3, <2>4, OthersAreSound, RestIsSound DEF Sound, Resting, daemon
<1>5. CASE reversed' = [reversed EXCEPT ![c] = Dismissed(@)] /\ UNCHANGED processed
  <2>1. PICK q : q = Dismissed(reversed[c])
    OBVIOUS
  <2>2. /\ q.in = reversed[c].in /\ q.debited = reversed[c].debited
        /\ q.restoring = reversed[c].restoring /\ q.restored = reversed[c].restored
        /\ q.resolved = "operator"
    BY <2>1, ReversalDismissedFields DEF TypeOK
  <2>3. reversed'[c] = q /\ Others(c)
    BY <1>2, <1>5, <2>1 DEF Others, Same, meters, daemon, TypeOK
  <2>4. TxSound(c)'
    BY <1>2, <1>5, <2>2, <2>3 DEF Sound, TxSound, MeterSound, RecordSound, LookSound,
     ReversalSound, Unsettled, Restorable, ReversedAnomaly, meters, daemon
  <2> QED BY <1>2, <1>3, <2>3, <2>4, OthersAreSound, RestIsSound DEF Sound, Resting, daemon
<1> QED BY <1>1, <1>4, <1>5 DEF CliDismiss

-----------------------------------------------------------------------------
(* The environment *)

\* Nothing depends on an unconfirmed transaction's place on the chain.
LEMMA ChainStepSound ==
    ASSUME TypeOK, Sound, NEW c \in Txids, ChainStep(c) PROVE Sound'
<1>1. /\ UNCHANGED <<disk, meters, daemon, cli>>
      /\ \A t \in Txids : chain[t] = "confirmed" => chain'[t] = "confirmed"
  BY DEF ChainStep, TypeOK
<1>2. ASSUME NEW t \in Txids PROVE TxSound(t)'
  BY <1>1 DEF Sound, TxSound, MeterSound, RecordSound, LookSound,
     ReversalSound, Unsettled, Restorable, ReversedAnomaly, disk, meters, daemon
<1>3. CliSound'
  BY <1>1 DEF Sound, CliSound, CliHoldsLock, Unsettled, Restorable, disk, meters, daemon
<1>4. PointSound'
  BY <1>1 DEF Sound, PointSound, NotAsked, Unsettled, Anomaly, ProcessedAnomaly,
     ReversedAnomaly, InFlight, disk, meters, daemon
<1> QED BY <1>2, <1>3, <1>4 DEF Sound

\* The invariant does not depend on a reversal's age.
LEMMA WindowPassesSound ==
    ASSUME TypeOK, Sound, NEW c \in Txids, WindowPasses(c) PROVE Sound'
<1>1. PICK q : q = Late(reversed[c])
  OBVIOUS
<1>2. /\ q.in = reversed[c].in /\ q.debited = reversed[c].debited
      /\ q.restoring = reversed[c].restoring /\ q.restored = reversed[c].restored
      /\ q.needsOperator = reversed[c].needsOperator /\ q.resolved = reversed[c].resolved
  BY <1>1, LateFields DEF TypeOK
<1>3. /\ pc = "idle" /\ reversed' = [reversed EXCEPT ![c] = q]
      /\ UNCHANGED <<chain, processed, creditedTxids, meters, daemon, cli>>
  BY <1>1 DEF WindowPasses
<1>4. reversed'[c] = q /\ Others(c)
  BY <1>3 DEF Others, Same, meters, daemon, TypeOK
<1>5. TxSound(c)'
  BY <1>2, <1>3, <1>4 DEF Sound, TxSound, MeterSound, RecordSound, LookSound,
     ReversalSound, Unsettled, Restorable, ReversedAnomaly, meters, daemon
<1>6. CliSound'
  <2>1. CASE cli.tx = c
    BY <1>2, <1>3, <1>4, <2>1 DEF Sound, CliSound, CliHoldsLock, Unsettled, Restorable,
       meters, daemon
  <2>2. CASE cli.tx # c
    BY <1>3, <1>4, <2>2, CliFrame DEF CliOn, daemon
  <2> QED BY <2>1, <2>2
<1> QED BY <1>3, <1>4, <1>5, <1>6, OthersAreSound, RestIsSound DEF Sound, Resting, daemon

-----------------------------------------------------------------------------
(* The invariant *)

\* Nothing is recorded yet.
LEMMA SoundInit == Init => Sound
<1> SUFFICES ASSUME Init PROVE Sound
  OBVIOUS
<1>1. ~NoRecord.in /\ ~NoRecord.withheld /\ ~NoReversal.in /\ CliOff.at = "off"
  BY DEF NoRecord, NoReversal, CliOff
<1>2. ASSUME NEW t \in Txids PROVE TxSound(t)
  BY <1>1, NoTxAssumption, BuyerAssumption DEF Init, TxSound, MeterSound, RecordSound, LookSound,
     ReversalSound, Unsettled, Restorable, ReversedAnomaly
<1> QED BY <1>1, <1>2 DEF Init, Sound, PointSound, CliSound, CliHoldsLock

\* One step per action, with the lemma of that action.
LEMMA SoundNext == ASSUME TypeOK, Sound, [Next]_vars PROVE Sound'
<1>1. CASE QuietStep
  BY <1>1, QuietSound
<1>2. CASE RecordCreditIntent \/ CreditMoney \/ FinalizeCredit
  BY <1>2, RecordCreditIntentSound, CreditMoneySound, FinalizeCreditSound
<1>3. CASE ReconcileIdle \/ ReconcileEnd
  BY <1>3, EnterRecheckSound, AtWorkOnTx DEF ReconcileIdle, ReconcileEnd, LockFree
<1>4. CASE ReconcileBegin
  BY <1>4, ReconcileBeginSound
<1>5. ASSUME NEW t \in Txids,
             \/ ReconcileConfirms(t) \/ RecreditIntent(t) \/ StillInMempool(t)
             \/ MissedMidCredit(t) \/ MissedTooEarly(t) \/ ReversalIntent(t)
             \/ ReversalForgiven(t)
      PROVE Sound'
  BY <1>5, ReconcileConfirmsSound, RecreditIntentSound, StillInMempoolSound,
     MissedMidCreditSound, MissedTooEarlySound, ReversalIntentSound, ReversalForgivenSound
<1>7. CASE RecreditMoney \/ RecreditConfirms
  BY <1>7, RecreditMoneySound, RecreditConfirmsSound
<1>8. CASE ReversalMoney \/ ReversalDebited \/ ReversalRecorded
  BY <1>8, ReversalMoneySound, ReversalDebitedSound, ReversalRecordedSound
<1>9. ASSUME NEW t \in Txids, RecheckFlags(t) \/ RestoreIntent(t) PROVE Sound'
  BY <1>9, RecheckFlagsSound, RestoreIntentSound
<1>10. CASE RestoreMoney \/ RestoreSettles
  BY <1>10, RestoreMoneySound, RestoreSettlesSound
<1>11. ASSUME NEW t \in Txids, NEW a \in {"credit", "dismiss"}, CliBegin(t, a) PROVE Sound'
  BY <1>11, CliBeginSound
<1>12. CASE CliRefused \/ CliCrash
  BY <1>12, CliEndsSound
<1>13. CASE CliCreditIntent \/ CliCreditMoney \/ CliCreditSettles \/ CliDismiss
  BY <1>13, CliCreditIntentSound, CliCreditMoneySound, CliCreditSettlesSound, CliDismissSound
<1>14. ASSUME NEW t \in Txids, ChainStep(t) \/ WindowPasses(t) PROVE Sound'
  BY <1>14, ChainStepSound, WindowPassesSound
<1>15. CASE UNCHANGED vars
  BY <1>15 DEF vars, disk, meters, daemon, Sound, TxSound, MeterSound, RecordSound, LookSound,
     ReversalSound, Unsettled, Restorable, ReversedAnomaly,
     PointSound, CliSound, CliHoldsLock, NotAsked, Anomaly, ProcessedAnomaly, InFlight
<1> QED
  BY <1>1, <1>2, <1>3, <1>4, <1>5, <1>7, <1>8, <1>9, <1>10, <1>11, <1>12, <1>13, <1>14, <1>15
  DEF Next, CreditSteps, ReconcileSteps, RecheckSteps, CliSteps, Environment, QuietStep

\* LedgerInv holds, for any number of deposits, buyers and deaths, while the
\* reversal budget is not exhausted.
THEOREM LedgerInvariant == Spec => []LedgerInv
<1>1. Init => TypeOK /\ Sound
  BY TypeInit, SoundInit
<1>2. TypeOK /\ Sound /\ [Next]_vars => (TypeOK /\ Sound)'
  BY TypeNext, SoundNext DEF TightNext
<1>3. TypeOK /\ Sound => LedgerInv
  BY SoundIsLedgerInv
<1> QED BY <1>1, <1>2, <1>3, PTL DEF Spec

\* No deposit is on the meter twice, whatever reports, sweeps, restores, verbs
\* and deaths there are.
THEOREM CreditedAtMostOnce == Spec => []NeverCreditedTwice
<1>1. LedgerInv => NeverCreditedTwice
  BY DEF LedgerInv, MeterSound, NeverCreditedTwice
<1> QED BY <1>1, LedgerInvariant, PTL

\* No buyer is debited for a deposit that is not on the meter.
THEOREM DebitedAtMostOnce == Spec => []NeverDebitedTwice
<1>1. LedgerInv => NeverDebitedTwice
  BY DEF LedgerInv, MeterSound, NeverDebitedTwice
<1> QED BY <1>1, LedgerInvariant, PTL

\* What is on the meter is in the dedup ledger, at every point a process may die.
THEOREM CreditsAreDeduped == Spec => []CreditIsDeduped
<1>1. LedgerInv => CreditIsDeduped
  BY DEF LedgerInv, MeterSound, CreditIsDeduped
<1> QED BY <1>1, LedgerInvariant, PTL

\* A reversal that may undo itself and a dedup entry exclude each other.
THEOREM OneWayBack == Spec => []RestorableIsReleased
<1>1. LedgerInv => RestorableIsReleased
  BY DEF LedgerInv, MeterSound, ReversalSound, RestorableIsReleased
<1> QED BY <1>1, LedgerInvariant, PTL

-----------------------------------------------------------------------------
(* What a step may never do: take a txid out of the dedup ledger while its  *)
(* credit is on the meter, or write a reversal over one that is still       *)
(* undecided.  Every step but the bookkeeping of a reversal is harmless by  *)
(* itself; that one is by LedgerInv.                                        *)

\* Only the last step of a reversal takes a txid out of the dedup ledger.
LEMMA OnlyReversalReleases ==
    ASSUME Next, ~(creditedTxids \subseteq creditedTxids') PROVE ReversalRecorded
<1>1. QuietStep => creditedTxids \subseteq creditedTxids'
  BY DEF QuietStep, ReportBegin, SweepNext, ReconcileSkips, RecheckWaits, SweepBegin, SweepEnd,
     VerifyFails, VerifyWaits, CreditMoneyFails, RecheckEnd, PassFails, DaemonCrash, disk
<1>2. RecordCreditIntent \/ CreditMoney \/ FinalizeCredit => creditedTxids \subseteq creditedTxids'
  BY DEF RecordCreditIntent, CreditMoney, FinalizeCredit, disk
<1>3. ReconcileIdle \/ ReconcileBegin \/ ReconcileEnd => creditedTxids \subseteq creditedTxids'
  BY DEF ReconcileIdle, ReconcileBegin, ReconcileEnd, disk
<1>4. ASSUME NEW t \in Txids,
             \/ ReconcileConfirms(t) \/ RecreditIntent(t) \/ StillInMempool(t)
             \/ MissedMidCredit(t) \/ MissedTooEarly(t) \/ ReversalIntent(t)
             \/ ReversalForgiven(t)
      PROVE creditedTxids \subseteq creditedTxids'
  BY <1>4 DEF ReconcileConfirms, RecreditIntent, StillInMempool, MissedMidCredit, MissedTooEarly,
     ReversalIntent, ReversalForgiven, MoveToReversed, disk
<1>5. RecreditMoney \/ RecreditConfirms \/ ReversalMoney \/ ReversalDebited
      => creditedTxids \subseteq creditedTxids'
  BY DEF RecreditMoney, RecreditConfirms, ReversalMoney, ReversalDebited, disk
<1>6. ASSUME NEW t \in Txids, RecheckFlags(t) \/ RestoreIntent(t)
      PROVE creditedTxids \subseteq creditedTxids'
  BY <1>6 DEF RecheckFlags, RestoreIntent, disk
<1>7. RestoreMoney \/ RestoreSettles => creditedTxids \subseteq creditedTxids'
  BY DEF RestoreMoney, RestoreSettles, disk
<1>8. ASSUME NEW t \in Txids, NEW a \in {"credit", "dismiss"}, CliBegin(t, a)
      PROVE creditedTxids \subseteq creditedTxids'
  BY <1>8 DEF CliBegin, disk
<1>9. CliRefused \/ CliCrash \/ CliCreditIntent \/ CliCreditMoney \/ CliCreditSettles \/ CliDismiss
      => creditedTxids \subseteq creditedTxids'
  BY DEF CliRefused, CliCrash, CliCreditIntent, CliCreditMoney, CliCreditSettles, CliDismiss, disk
<1>10. ASSUME NEW t \in Txids, ChainStep(t) \/ WindowPasses(t)
       PROVE creditedTxids \subseteq creditedTxids'
  BY <1>10 DEF ChainStep, WindowPasses, disk
<1> QED
  BY <1>1, <1>2, <1>3, <1>4, <1>5, <1>6, <1>7, <1>8, <1>9, <1>10
  DEF Next, CreditSteps, ReconcileSteps, RecheckSteps, CliSteps, Environment, QuietStep

\* A txid leaves the dedup ledger only with its credit gone from the meter.
THEOREM ReleasedWhenGone == Spec => ReleasedOnlyWhenGone
<1> DEFINE Released == \A t \in Txids : t \in creditedTxids /\ t \notin creditedTxids'
                                          => meter[t] = 0 /\ ~processed'[t].in
<1>1. TypeOK /\ Sound /\ ReversalRecorded => Released
  <2> SUFFICES ASSUME TypeOK, Sound, ReversalRecorded, NEW t \in Txids,
                      t \in creditedTxids, t \notin creditedTxids'
               PROVE  meter[t] = 0 /\ ~processed'[t].in
    OBVIOUS
  <2>1. pc = "remove" /\ t = cur /\ processed'[t] = NoRecord
    BY DEF ReversalRecorded, MoveToReversed, SaveAndNext, TypeOK
  <2>2. processed[t].in /\ processed[t].reversal = "debited"
    BY <2>1 DEF Sound, PointSound
  <2> QED BY <2>1, <2>2 DEF Sound, TxSound, RecordSound, NoRecord
<1>2. TypeOK /\ Sound /\ [Next]_vars => [Released]_vars
  BY <1>1, OnlyReversalReleases
<1>3. LedgerInv => TypeOK /\ Sound
  BY SoundIsLedgerInv
<1> QED BY <1>2, <1>3, LedgerInvariant, PTL DEF Spec, ReleasedOnlyWhenGone

\* Every edit of a reversal entry but the move to `reversed' keeps its debit mark.
KeepsDebits == \A t \in Txids : reversed'[t].debited = reversed[t].debited

\* The edits themselves keep it.
LEMMA EditsKeepDebits ==
    ASSUME TypeOK, NEW t \in Txids, NEW q,
           \/ q \in {reversed[t], Late(reversed[t]), Restoring(reversed[t]), Restored(reversed[t]),
                     Superseded(reversed[t]), Resolving(reversed[t]), Resolved(reversed[t]),
                     Dismissed(reversed[t]), Closed(Resolved(reversed[t]))}
           \/ \E reason \in Reasons : q = Flagged(reversed[t], reason)
    PROVE  q.debited = reversed[t].debited
<1>1. PICK r \in ReversedRecord : r = reversed[t]
  BY DEF TypeOK
<1>2. ASSUME q = Closed(Resolved(r)) PROVE q.debited = r.debited
  <2>1. PICK m : m = Resolved(r)
    OBVIOUS
  <2> QED BY <1>2, <2>1, ReversalResolvedFields, ClosedFields
<1> QED BY <1>1, <1>2, LateFields, RestoringFields, RestoredFields, SupersededFields,
           ReversalResolvingFields, ReversalResolvedFields, ReversalDismissedFields,
           ReversalFlaggedFields

\* Only the bookkeeping of a reversal writes an entry anew.
LEMMA OnlyReversalsWriteDebits ==
    ASSUME TypeOK, Next, ~KeepsDebits
    PROVE  ReversalRecorded \/ \E t \in Txids : ReversalForgiven(t)
<1> SUFFICES ASSUME ~ReversalRecorded, \A t \in Txids : ~ReversalForgiven(t), NEW t \in Txids
             PROVE  reversed'[t].debited = reversed[t].debited
  BY DEF KeepsDebits
<1>1. PICK q : q = reversed'[t]
  OBVIOUS
<1>2. UNCHANGED reversed => q = reversed[t]
  BY <1>1
<1>3. EnterRecheck => q = reversed[t] \/ \E reason \in Reasons : q = Flagged(reversed[t], reason)
  BY <1>1 DEF EnterRecheck, Reasons
<1>4. CASE QuietStep
  BY <1>1, <1>4, <1>2 DEF QuietStep, ReportBegin, SweepNext, ReconcileSkips, RecheckWaits,
     SweepBegin, SweepEnd, VerifyFails, VerifyWaits, CreditMoneyFails, RecheckEnd, PassFails,
     DaemonCrash, disk
<1>5. CASE RecordCreditIntent
  <2>1. q \in {reversed[t], Superseded(reversed[t])}
    BY <1>1, <1>5 DEF RecordCreditIntent, SettleReversed, TypeOK
  <2> QED BY <1>1, <2>1, EditsKeepDebits
<1>6. CASE CreditMoney \/ FinalizeCredit \/ ReconcileBegin \/ RecreditMoney
           \/ RecreditConfirms \/ ReversalMoney \/ ReversalDebited \/ RestoreMoney
  BY <1>6, <1>1, <1>2 DEF CreditMoney, FinalizeCredit, ReconcileBegin, RecreditMoney,
     RecreditConfirms, ReversalMoney, ReversalDebited, RestoreMoney, disk
<1>7. CASE ReconcileIdle \/ ReconcileEnd
  BY <1>1, <1>7, <1>3, EditsKeepDebits DEF ReconcileIdle, ReconcileEnd
<1>8. ASSUME NEW c \in Txids,
             \/ ReconcileConfirms(c) \/ RecreditIntent(c) \/ StillInMempool(c)
             \/ MissedMidCredit(c) \/ MissedTooEarly(c) \/ ReversalIntent(c)
      PROVE q = reversed[t]
  BY <1>8, <1>2 DEF ReconcileConfirms, RecreditIntent, StillInMempool, MissedMidCredit,
     MissedTooEarly, ReversalIntent, disk
<1>9. ASSUME NEW c \in Txids, RecheckFlags(c) PROVE reversed'[t].debited = reversed[t].debited
  <2>1. q = reversed[t] \/ q = Flagged(reversed[t], "confirmedUndebited")
    BY <1>1, <1>9 DEF RecheckFlags, TypeOK
  <2> QED BY <1>1, <2>1, EditsKeepDebits DEF Reasons
<1>10. ASSUME NEW c \in Txids, RestoreIntent(c) PROVE reversed'[t].debited = reversed[t].debited
  <2>1. q \in {reversed[t], Restoring(reversed[t])}
    BY <1>1, <1>10 DEF RestoreIntent, TypeOK
  <2> QED BY <1>1, <2>1, EditsKeepDebits
<1>11. CASE RestoreSettles
  <2>1. q \in {reversed[t], Restored(reversed[t])}
    BY <1>1, <1>11 DEF RestoreSettles, TypeOK
  <2> QED BY <1>1, <2>1, EditsKeepDebits
<1>12. CASE CliRefused \/ CliCrash \/ CliCreditMoney
            \/ \E c \in Txids, a \in {"credit", "dismiss"} : CliBegin(c, a)
  BY <1>12, <1>1, <1>2 DEF CliRefused, CliCrash, CliCreditMoney, CliBegin, disk
<1>13. CASE CliCreditIntent
  <2>1. q \in {reversed[t], Resolving(reversed[t])}
    BY <1>1, <1>13 DEF CliCreditIntent, TypeOK
  <2> QED BY <1>1, <2>1, EditsKeepDebits
<1>14. CASE CliCreditSettles
  <2>1. q \in {reversed[t], Superseded(reversed[t]), Closed(Resolved(reversed[t]))}
    BY <1>1, <1>14 DEF CliCreditSettles, SettleReversed, TypeOK
  <2> QED BY <1>1, <2>1, EditsKeepDebits
<1>15. CASE CliDismiss
  <2>1. q \in {reversed[t], Dismissed(reversed[t])}
    BY <1>1, <1>15 DEF CliDismiss, TypeOK
  <2> QED BY <1>1, <2>1, EditsKeepDebits
<1>16. ASSUME NEW c \in Txids, ChainStep(c) PROVE q = reversed[t]
  BY <1>16, <1>2 DEF ChainStep, disk
<1>17. ASSUME NEW c \in Txids, WindowPasses(c) PROVE reversed'[t].debited = reversed[t].debited
  <2>1. q \in {reversed[t], Late(reversed[t])}
    BY <1>1, <1>17 DEF WindowPasses, TypeOK
  <2> QED BY <1>1, <2>1, EditsKeepDebits
<1> QED
  BY <1>1, <1>4, <1>5, <1>6, <1>7, <1>8, <1>9, <1>10, <1>11, <1>12, <1>13, <1>14, <1>15, <1>16, <1>17
  DEF Next, CreditSteps, ReconcileSteps, RecheckSteps, CliSteps, Environment, QuietStep

\* A reversal is never written over one that is still undecided: a record that
\* can be reversed has no open reversal beside it.
THEOREM ReversalsAreKept == Spec => ReversalKept
<1> DEFINE Kept == \A t \in Txids :
                      (reversed[t].in /\ ~reversed'[t].restored /\ ~reversed[t].restored)
                         => reversed'[t].debited = reversed[t].debited
<1>1. ASSUME TypeOK, Sound, NEW c \in Txids, NEW certain \in BOOLEAN, MoveToReversed(c, certain),
             processed[c].in, processed[c].unconfirmed
      PROVE  Kept
  <2>1. ~Unsettled(c)
    BY <1>1 DEF Sound, TxSound, ReversalSound
  <2>2. \A t \in Txids \ {c} : reversed'[t] = reversed[t]
    BY <1>1 DEF MoveToReversed, TypeOK
  <2> QED BY <2>1, <2>2 DEF Unsettled
<1>2. ASSUME TypeOK, Sound, ReversalRecorded PROVE Kept
  <2>1. PICK c \in Txids : c = cur
    BY <1>2, AtWorkOnTx DEF ReversalRecorded, AtWork, DaemonPoints
  <2>2. processed[c].in /\ processed[c].unconfirmed
    BY <1>2, <2>1 DEF ReversalRecorded, Sound, PointSound, TxSound, RecordSound
  <2>3. MoveToReversed(c, TRUE)
    BY <1>2, <2>1 DEF ReversalRecorded
  <2> QED BY <1>1, <1>2, <2>2, <2>3
<1>3. ASSUME TypeOK, Sound, NEW c \in Txids, ReversalForgiven(c) PROVE Kept
  <2>1. processed[c].in /\ processed[c].unconfirmed /\ MoveToReversed(c, FALSE)
    BY <1>3 DEF ReversalForgiven, Missed, Live
  <2> QED BY <1>1, <1>3, <2>1
<1>4. KeepsDebits => Kept
  BY DEF KeepsDebits
<1>5. TypeOK /\ Sound /\ [Next]_vars => [Kept]_vars
  <2> HIDE DEF Kept
  <2> QED BY <1>2, <1>3, <1>4, OnlyReversalsWriteDebits
<1>6. LedgerInv => TypeOK /\ Sound
  BY SoundIsLedgerInv
<1> QED BY <1>5, <1>6, LedgerInvariant, PTL DEF Spec, ReversalKept

-----------------------------------------------------------------------------
(* No credit is lost silently *)

\* Why the credit of a transaction the agent took charge of may be missing: it
\* is being given, its record is the reconciler's or on the operator's list, a
\* reversal of it is uncertain or half undone, or the operator has decided.
Explained(t) ==
    \/ processed[t].in /\ (\/ processed[t].crediting \/ processed[t].unconfirmed
                           \/ processed[t].needsOperator # "none")
    \/ processed[t].resolved = "operator" \/ reversed[t].resolved = "operator"
    \/ reversed[t].in /\ (\/ reversed[t].restoring
                          \/ ~reversed[t].debited /\ ~reversed[t].restored)

Accounted(t) ==
    /\ processed[t].resolved # "automatic"
    /\ t \in creditedTxids /\ meter[t] = 0 => Explained(t)

\* The edit keeps what Explained looks at.
KeptRecord(q, p) ==
    /\ q.in = p.in /\ q.crediting = p.crediting /\ q.unconfirmed = p.unconfirmed
    /\ p.needsOperator # "none" => q.needsOperator # "none"
    /\ q.resolved = p.resolved
KeptEntry(q, r) ==
    /\ q.in = r.in /\ q.debited = r.debited /\ q.restored = r.restored
    /\ q.restoring = r.restoring /\ q.resolved = r.resolved

\* A transaction none of whose credits is taken away or newly recorded.
LEMMA KeptIsAccounted ==
    ASSUME NEW t \in Txids, Accounted(t),
           KeptRecord(processed'[t], processed[t]), KeptEntry(reversed'[t], reversed[t]),
           t \in creditedTxids' => t \in creditedTxids, meter'[t] = 0 => meter[t] = 0
    PROVE  Accounted(t)'
BY DEF Accounted, Explained, KeptRecord, KeptEntry

\* The edits of a record that keep it so.
LEMMA EditsKeepRecords ==
    ASSUME NEW p \in ProcessedRecord, NEW q,
           \/ q \in {p, SeenAgain(p), CountMiss(p), Resolving(p), NotifyOwed(p)}
           \/ \E v \in Reversals : q = Stamped(p, v) \/ q = Stamped(CountMiss(p), v)
           \/ \E reason \in Reasons : q = Flagged(p, reason)
    PROVE  KeptRecord(q, p)
<1>1. PICK m : m = CountMiss(p)
  OBVIOUS
<1>2. m \in ProcessedRecord /\ KeptRecord(m, p)
  BY <1>1, CountMissFields DEF KeptRecord
<1>3. ASSUME NEW v \in Reversals, q = Stamped(m, v) PROVE KeptRecord(q, p)
  BY <1>2, <1>3, StampedFields DEF KeptRecord
<1>4. ASSUME NEW v \in Reversals, q = Stamped(p, v) PROVE KeptRecord(q, p)
  BY <1>4, StampedFields DEF KeptRecord
<1>5. ASSUME NEW reason \in Reasons, q = Flagged(p, reason) PROVE KeptRecord(q, p)
  BY <1>5, FlaggedFields DEF KeptRecord
<1>6. CASE q \in {p, SeenAgain(p), Resolving(p), NotifyOwed(p)}
  BY <1>6, SeenAgainFields, ResolvingFields, NotifyOwedFields DEF KeptRecord
<1> QED BY <1>1, <1>2, <1>3, <1>4, <1>5, <1>6

\* And those of a reversal entry.
LEMMA EditsKeepEntries ==
    ASSUME NEW r \in ReversedRecord, NEW q,
           \/ q \in {r, Late(r), Resolving(r)}
           \/ \E reason \in Reasons : q = Flagged(r, reason)
    PROVE  KeptEntry(q, r)
BY LateFields, ReversalResolvingFields, ReversalFlaggedFields DEF KeptEntry

\* A new record is nobody's decision.
LEMMA NewRecordsUndecided ==
    /\ NoRecord.resolved = "no" /\ SettledRecord.resolved = "no"
    /\ CreditingRecord.resolved = "no" /\ CreditingRecord.in /\ CreditingRecord.crediting
<1>1. NoRecord \in ProcessedRecord /\ NoRecord.resolved = "no"
  BY NewRecords DEF NoRecord
<1>2. SettledRecord \in ProcessedRecord /\ SettledRecord.resolved = "no"
  BY <1>1, FiledFields DEF SettledRecord
<1>3. Crediting(SettledRecord) \in ProcessedRecord /\ Crediting(SettledRecord).resolved = "no"
  BY <1>2, CreditingFields
<1>4. CreditingRecord.resolved = "no"
  BY <1>3, FromMempoolFields DEF CreditingRecord
<1> QED BY <1>1, <1>2, <1>4, CreditingRecordFields

\* A credit takes nothing off the meter.
LEMMA CreditsAreKept ==
    ASSUME TypeOK, Sound, NEW c \in Txids, CreditMeter(c), NEW t \in Txids, meter'[t] = 0
    PROVE  meter[t] = 0
BY DEF CreditMeter, TypeOK, Sound, TxSound, MeterSound

\* Every step keeps the missing credits accounted for.
LEMMA AccountedNext ==
    ASSUME TypeOK, Sound, [Next]_vars, NEW t \in Txids, Accounted(t)
    PROVE  Accounted(t)'
<1> DEFINE Goal == Accounted(t)'
<1>p. processed[t] \in ProcessedRecord /\ reversed[t] \in ReversedRecord
  BY DEF TypeOK
<1>r. KeptRecord(processed[t], processed[t]) /\ KeptEntry(reversed[t], reversed[t])
  BY DEF KeptRecord, KeptEntry
<1>u. ASSUME UNCHANGED <<processed, reversed, creditedTxids>>, meter'[t] = 0 => meter[t] = 0
      PROVE  Goal
  BY <1>u, <1>r, KeptIsAccounted
\* An edit of the record of c, the only change.
<1>e. ASSUME NEW c \in Txids, NEW q, processed' = [processed EXCEPT ![c] = q],
             UNCHANGED <<reversed, creditedTxids, meter>>,
             c = t => KeptRecord(q, processed[t])
      PROVE  Goal
  <2>1. KeptRecord(processed'[t], processed[t])
    BY <1>e, <1>r DEF TypeOK
  <2> QED BY <1>e, <2>1, <1>r, KeptIsAccounted
<1>w. pc \in AtWork => cur \in Txids
  BY DEF TypeOK
<1>1. CASE QuietStep
  BY <1>1, <1>u DEF QuietStep, ReportBegin, SweepNext, ReconcileSkips,
     RecheckWaits, SweepBegin, SweepEnd, VerifyFails, VerifyWaits, CreditMoneyFails, RecheckEnd,
     PassFails, DaemonCrash, disk, meters
<1>2. CASE RecordCreditIntent
  <2>1. cur \in Txids /\ UNCHANGED meters
        /\ processed' = [processed EXCEPT ![cur] = CreditingRecord]
        /\ creditedTxids' = creditedTxids \cup {cur} /\ reversed' = SettleReversed(cur)
    BY <1>2, <1>w DEF RecordCreditIntent, AtWork, DaemonPoints
  <2>2. CASE t = cur
    <3>1. processed'[t] = CreditingRecord
      BY <2>1, <2>2 DEF TypeOK
    <3> QED BY <3>1, NewRecordsUndecided DEF Accounted, Explained
  <2>3. CASE t # cur
    <3>1. processed'[t] = processed[t] /\ reversed'[t] = reversed[t]
      BY <2>1, <2>3 DEF SettleReversed, TypeOK
    <3> QED BY <2>1, <2>3, <3>1, <1>r, KeptIsAccounted DEF meters
  <2> QED BY <2>2, <2>3
<1>3. CASE CreditMoney \/ RecreditMoney \/ RestoreMoney \/ CliCreditMoney
  <2>1. UNCHANGED disk /\ \E c \in Txids : CreditMeter(c)
    BY <1>3, <1>w DEF CreditMoney, RecreditMoney, RestoreMoney, CliCreditMoney, AtWork,
       DaemonPoints, TypeOK
  <2> QED BY <2>1, <1>u, CreditsAreKept DEF disk
<1>4. CASE FinalizeCredit
  <2>1. cur \in Txids /\ meter[cur] = 1 /\ UNCHANGED <<reversed, creditedTxids, meter>>
    BY <1>4, <1>w DEF FinalizeCredit, AtWork, DaemonPoints, Sound, PointSound, meters
  <2>2. CASE t # cur
    <3>1. PICK q : processed' = [processed EXCEPT ![cur] = q]
      BY <1>4 DEF FinalizeCredit
    <3> QED BY <2>1, <2>2, <3>1, <1>e
  <2>3. CASE t = cur
    <3>1. PICK record : /\ record \in {processed[t], Finalized(processed[t])}
                        /\ \/ processed' = [processed EXCEPT ![t] = record]
                           \/ processed' = [processed EXCEPT ![t] = NotifyOwed(record)]
      BY <1>4, <2>3 DEF FinalizeCredit
    <3>2. record \in ProcessedRecord /\ record.resolved = processed[t].resolved
      BY <3>1, <1>p, FinalizedFields
    <3>3. NotifyOwed(record).resolved = processed[t].resolved
      BY <3>2, NotifyOwedFields
    <3>4. processed'[t].resolved = processed[t].resolved
      BY <3>1, <3>2, <3>3 DEF TypeOK
    <3> QED BY <2>1, <2>3, <3>4 DEF Accounted
  <2> QED BY <2>2, <2>3
<1>5. CASE ReconcileIdle \/ ReconcileEnd
  <2>1. EnterRecheck /\ UNCHANGED <<processed, creditedTxids, meter>>
    BY <1>5 DEF ReconcileIdle, ReconcileEnd, meters
  <2>2. reversed'[t] = reversed[t] \/ reversed'[t] = Flagged(reversed[t], "restoreInterrupted")
    BY <2>1 DEF EnterRecheck
  <2>3. KeptEntry(reversed'[t], reversed[t])
    BY <2>2, <1>p, EditsKeepEntries DEF Reasons
  <2> QED BY <2>1, <2>3, <1>r, KeptIsAccounted
<1>6. CASE ReconcileBegin \/ CliRefused \/ CliCrash
           \/ \E c \in Txids, a \in {"credit", "dismiss"} : CliBegin(c, a)
  BY <1>6, <1>u DEF ReconcileBegin, CliRefused, CliCrash, CliBegin, disk, meters
<1>7. ASSUME NEW c \in Txids, ChainStep(c) PROVE Goal
  BY <1>7, <1>u DEF ChainStep, disk, meters
<1>8. ASSUME NEW c \in Txids, WindowPasses(c) PROVE Goal
  <2>1. reversed'[t] = reversed[t] \/ reversed'[t] = Late(reversed[t])
    BY <1>8 DEF WindowPasses, TypeOK
  <2>2. KeptEntry(reversed'[t], reversed[t])
    BY <2>1, <1>p, EditsKeepEntries
  <2> QED BY <1>8, <2>2, <1>r, KeptIsAccounted DEF WindowPasses, meters
\* Confirmed without a debit: a record with a stamp is put on the list, one
\* without has its credit.
<1>9. ASSUME NEW c \in Txids, ReconcileConfirms(c) PROVE Goal
  <2> DEFINE reason == IF processed[c].reversal = "none" THEN processed[c].needsOperator
                       ELSE "ambiguousReversal"
  <2>1. PICK q : q = Confirmed(processed[c], reason)
    OBVIOUS
  <2>2. processed' = [processed EXCEPT ![c] = q] /\ processed[c].in /\ processed[c].unconfirmed
        /\ UNCHANGED <<reversed, creditedTxids, meter>>
    BY <1>9, <2>1 DEF ReconcileConfirms, SaveAndNext, Live, meters
  <2>3. CASE c = t
    <3>1. reason \in Reasons /\ ~processed[c].withheld
      BY <1>p, <2>3 DEF ProcessedRecord, Reasons, Sound, TxSound, RecordSound
    <3>2. /\ q.in = processed[c].in /\ q.crediting = processed[c].crediting
          /\ q.needsOperator = reason /\ q.resolved = processed[c].resolved
      <4> HIDE DEF reason
      <4> QED BY <1>p, <2>1, <2>3, <3>1, ConfirmedFields
    <3>3. processed'[t] = q
      BY <2>2, <2>3 DEF TypeOK
    <3>4. q.crediting \/ q.needsOperator # "none" \/ meter[t] = 1
      <4>1. CASE processed[c].reversal # "none"
        BY <3>2, <4>1
      <4>2. CASE processed[c].reversal = "none" /\ ~processed[c].crediting
        <5>1. RecordSound(c)
          BY DEF Sound, TxSound
        <5> QED BY <2>2, <2>3, <4>2, <5>1 DEF RecordSound
      <4>3. CASE processed[c].crediting
        <5>1. processed[c].crediting = TRUE
          BY <1>p, <2>3, <4>3 DEF ProcessedRecord
        <5> QED BY <3>2, <5>1
      <4> QED BY <4>1, <4>2, <4>3
    <3>5. q.in
      <4>1. processed[c].in = TRUE
        BY <1>p, <2>2, <2>3 DEF ProcessedRecord
      <4> QED BY <3>2, <4>1
    <3>6. q.resolved # "automatic"
      BY <2>3, <3>2 DEF Accounted
    <3>7. Explained(t)' \/ meter'[t] = 1
      BY <2>2, <3>3, <3>4, <3>5 DEF Explained
    <3> QED BY <3>3, <3>6, <3>7 DEF Accounted
  <2>4. CASE c # t
    BY <2>2, <2>4, <1>e
  <2> QED BY <2>3, <2>4
<1>10. ASSUME NEW c \in Txids,
              \/ RecreditIntent(c) \/ StillInMempool(c) \/ MissedMidCredit(c)
              \/ MissedTooEarly(c) \/ ReversalIntent(c)
       PROVE Goal
  <2>1. UNCHANGED <<reversed, creditedTxids, meter>>
    BY <1>10 DEF RecreditIntent, StillInMempool, MissedMidCredit, MissedTooEarly, ReversalIntent,
       meters
  <2>2. PICK q : /\ processed' = [processed EXCEPT ![c] = q]
                 /\ q \in {processed[c], SeenAgain(processed[c]), CountMiss(processed[c]),
                           Stamped(processed[c], "recredited"),
                           Stamped(CountMiss(processed[c]), "debiting"),
                           Flagged(processed[c], "unprovenCredit")}
    BY <1>10 DEF RecreditIntent, StillInMempool, MissedMidCredit, MissedTooEarly, ReversalIntent,
       SaveAndNext
  <2>3. KeptRecord(q, processed[c])
    BY <2>2, EditsKeepRecords DEF TypeOK, Reversals, Reasons
  <2> QED BY <2>1, <2>2, <2>3, <1>e
<1>11. CASE RecreditConfirms
  <2>1. PICK c \in Txids : c = cur
    BY <1>11, <1>w DEF RecreditConfirms, AtWork, DaemonPoints
  <2>2. PICK q : q = Confirmed(processed[c], processed[c].needsOperator)
    OBVIOUS
  <2>3. processed' = [processed EXCEPT ![c] = q] /\ meter[c] = 1
        /\ UNCHANGED <<reversed, creditedTxids, meter>>
    BY <1>11, <2>1, <2>2 DEF RecreditConfirms, SaveAndNext, meters, Sound, PointSound
  <2>4. CASE c = t
    <3>1. processed[c].needsOperator \in Reasons /\ ~processed[c].withheld
      BY <1>p, <2>4 DEF ProcessedRecord, Sound, TxSound, RecordSound
    <3>2. q.resolved = processed[t].resolved /\ processed'[t] = q
      BY <1>p, <2>2, <2>3, <2>4, <3>1, ConfirmedFields DEF TypeOK
    <3> QED BY <2>3, <2>4, <3>2 DEF Accounted
  <2>5. CASE c # t
    BY <2>3, <2>5, <1>e
  <2> QED BY <2>4, <2>5
\* The debit: its record is unconfirmed.
<1>12. CASE ReversalMoney
  <2>1. PICK c \in Txids : c = cur
    BY <1>12, <1>w DEF ReversalMoney, AtWork, DaemonPoints
  <2>2. processed[c].in /\ processed[c].unconfirmed /\ DebitMeter(c) /\ UNCHANGED disk
    BY <1>12, <2>1 DEF ReversalMoney, Sound, PointSound, TxSound, RecordSound
  <2>3. CASE c = t
    BY <2>2, <2>3 DEF Accounted, Explained, disk
  <2>4. CASE c # t
    BY <2>2, <2>4, <1>u DEF DebitMeter, disk, TypeOK
  <2> QED BY <2>3, <2>4
<1>13. CASE ReversalDebited
  <2>1. PICK c \in Txids : c = cur
    BY <1>13, <1>w DEF ReversalDebited, AtWork, DaemonPoints
  <2>2. KeptRecord(Stamped(processed[c], "debited"), processed[c])
    BY EditsKeepRecords DEF TypeOK, Reversals
  <2> QED BY <1>13, <2>1, <2>2, <1>e DEF ReversalDebited, meters
\* A certain debit frees the txid, an uncertain one leaves an uncertain entry.
<1>14. ASSUME NEW c \in Txids, NEW certain \in BOOLEAN, MoveToReversed(c, certain) PROVE Goal
  <2>1. processed' = [processed EXCEPT ![c] = NoRecord]
        /\ reversed' = [reversed EXCEPT ![c] = NewReversal(certain)]
        /\ creditedTxids' = (IF certain THEN creditedTxids \ {c} ELSE creditedTxids)
        /\ UNCHANGED meter
    BY <1>14 DEF MoveToReversed, SaveAndNext, meters
  <2>2. CASE c = t
    <3>1. processed'[t] = NoRecord /\ reversed'[t] = NewReversal(certain)
      BY <2>1, <2>2 DEF TypeOK
    <3>2. NewReversal(certain).in /\ NewReversal(certain).debited = certain
          /\ ~NewReversal(certain).restored
      BY DEF NewReversal
    <3>3. certain => t \notin creditedTxids'
      BY <2>1, <2>2
    <3> QED BY <3>1, <3>2, <3>3, NewRecordsUndecided DEF Accounted, Explained
  <2>3. CASE c # t
    <3>1. processed'[t] = processed[t] /\ reversed'[t] = reversed[t]
      BY <2>1, <2>3 DEF TypeOK
    <3> QED BY <2>1, <3>1, <1>r, KeptIsAccounted
  <2> QED BY <2>2, <2>3
<1>15. CASE ReversalRecorded \/ \E c \in Txids : ReversalForgiven(c)
  BY <1>15, <1>14, <1>w DEF ReversalRecorded, ReversalForgiven, AtWork, DaemonPoints
<1>16. ASSUME NEW c \in Txids, RecheckFlags(c) PROVE Goal
  <2>1. reversed'[t] = reversed[t] \/ reversed'[t] = Flagged(reversed[t], "confirmedUndebited")
    BY <1>16 DEF RecheckFlags, TypeOK
  <2>2. KeptEntry(reversed'[t], reversed[t])
    BY <2>1, <1>p, EditsKeepEntries DEF Reasons
  <2> QED BY <1>16, <2>2, <1>r, KeptIsAccounted DEF RecheckFlags, meters
<1>17. ASSUME NEW c \in Txids, RestoreIntent(c) PROVE Goal
  <2>1. /\ reversed[c].in /\ reversed' = [reversed EXCEPT ![c] = Restoring(reversed[c])]
        /\ processed' = IF processed[c].in THEN processed
                        ELSE [processed EXCEPT ![c] = SettledRecord]
        /\ creditedTxids' = creditedTxids \cup {c} /\ UNCHANGED meter
    BY <1>17 DEF RestoreIntent, Restorable, meters
  <2>2. CASE c = t
    <3>1. reversed'[t] = Restoring(reversed[t]) /\ processed'[t] \in {processed[t], SettledRecord}
      BY <2>1, <2>2 DEF TypeOK
    <3>2. reversed'[t].in /\ reversed'[t].restoring
      BY <2>1, <2>2, <3>1, <1>p, RestoringFields
    <3> QED BY <3>1, <3>2, NewRecordsUndecided DEF Accounted, Explained
  <2>3. CASE c # t
    <3>1. processed'[t] = processed[t] /\ reversed'[t] = reversed[t]
      BY <2>1, <2>3 DEF TypeOK
    <3> QED BY <2>1, <2>3, <3>1, <1>r, KeptIsAccounted
  <2> QED BY <2>2, <2>3
<1>18. CASE RestoreSettles
  <2>1. PICK c \in Txids : c = cur
    BY <1>18, <1>w DEF RestoreSettles, AtWork, DaemonPoints
  <2>2. reversed' = [reversed EXCEPT ![c] = Restored(reversed[c])] /\ meter[c] = 1
        /\ UNCHANGED <<processed, creditedTxids, meter>>
    BY <1>18, <2>1 DEF RestoreSettles, meters, Sound, PointSound
  <2>3. CASE c = t
    BY <2>2, <2>3 DEF Accounted
  <2>4. CASE c # t
    BY <2>2, <2>4, <1>r, KeptIsAccounted DEF TypeOK
  <2> QED BY <2>3, <2>4
<1>19. CASE CliCreditIntent
  <2>1. processed'[t] \in {processed[t], Resolving(processed[t])}
        /\ reversed'[t] \in {reversed[t], Resolving(reversed[t])}
        /\ UNCHANGED <<creditedTxids, meter>>
    BY <1>19 DEF CliCreditIntent, TypeOK, meters
  <2>2. KeptRecord(processed'[t], processed[t]) /\ KeptEntry(reversed'[t], reversed[t])
    BY <2>1, <1>p, EditsKeepRecords, EditsKeepEntries
  <2> QED BY <2>1, <2>2, KeptIsAccounted
<1>20. CASE CliCreditSettles
  <2>1. PICK c \in Txids : c = cli.tx
    BY <1>20 DEF CliCreditSettles, TypeOK
  <2>2. meter[c] = 1 /\ UNCHANGED meter /\ creditedTxids' = creditedTxids \cup {c}
    BY <1>20, <2>1 DEF CliCreditSettles, CliHoldsLock, Sound, CliSound, meters
  <2>3. processed'[t] \in {processed[t], Resolved(processed[t]), SettledRecord}
        /\ (c # t => processed'[t] = processed[t] /\ reversed'[t] = reversed[t])
    BY <1>20, <2>1 DEF CliCreditSettles, TypeOK
  <2>4. CASE c = t
    <3>1. Resolved(processed[t]).resolved = "operator"
      BY <1>p, ResolvedFields
    <3> QED BY <2>2, <2>3, <2>4, <3>1, NewRecordsUndecided DEF Accounted
  <2>5. CASE c # t
    BY <2>2, <2>3, <2>5, <1>r, KeptIsAccounted
  <2> QED BY <2>4, <2>5
<1>21. CASE CliDismiss
  <2>1. /\ UNCHANGED <<creditedTxids, meter>>
        /\ processed'[t] \in {processed[t], Dismissed(processed[t])}
        /\ reversed'[t] \in {reversed[t], Dismissed(reversed[t])}
    BY <1>21 DEF CliDismiss, TypeOK, meters
  <2>2. Dismissed(processed[t]).resolved = "operator" /\ Dismissed(reversed[t]).resolved = "operator"
    BY <1>p, DismissedFields, ReversalDismissedFields
  <2>3. CASE processed'[t] = processed[t] /\ reversed'[t] = reversed[t]
    BY <2>1, <2>3, <1>r, KeptIsAccounted
  <2>4. CASE processed'[t] = Dismissed(processed[t])
    BY <2>2, <2>4 DEF Accounted, Explained
  <2>5. CASE processed'[t] = processed[t] /\ reversed'[t] = Dismissed(reversed[t])
    BY <2>2, <2>5 DEF Accounted, Explained
  <2> QED BY <2>1, <2>3, <2>4, <2>5
<1>22. CASE UNCHANGED vars
  BY <1>22, <1>u DEF vars, disk, meters
<1> QED
  BY <1>1, <1>2, <1>3, <1>4, <1>5, <1>6, <1>7, <1>8, <1>9, <1>10, <1>11, <1>12, <1>13, <1>15,
     <1>16, <1>17, <1>18, <1>19, <1>20, <1>21, <1>22
  DEF Next, CreditSteps, ReconcileSteps, RecheckSteps, CliSteps, Environment, QuietStep

\* A confirmed deposit the agent took charge of and whose credit is missing is
\* in the poller's hands, on the operator's list, or decided by the operator.
THEOREM NothingIsLost == Spec => []NothingLostSilently
<1> DEFINE AllAccounted == \A t \in Txids : Accounted(t)
<1>1. Init => AllAccounted
  BY DEF Init, NoRecord, Accounted
<1>2. LedgerInv /\ AllAccounted /\ [Next]_vars => AllAccounted'
  BY AccountedNext, SoundIsLedgerInv
<1>3. LedgerInv /\ AllAccounted => NothingLostSilently
  <2> SUFFICES ASSUME LedgerInv, AllAccounted, LockFree, NEW t \in creditedTxids,
                      meter[t] = 0, ~MissedTheWindow(t)
               PROVE  \/ InPollersHands(t) \/ Anomaly(t)
                      \/ processed[t].resolved = "operator" \/ reversed[t].resolved = "operator"
    BY DEF NothingLostSilently
  <2>1. t \in Txids /\ Explained(t) /\ processed[t].resolved \in {"no", "operator"}
    BY DEF LedgerInv, TypeOK, Accounted, ProcessedRecord, Resolutions
  <2> QED BY <2>1 DEF Explained, InPollersHands, Anomaly, ProcessedAnomaly, InFlight, LockFree,
              MissedTheWindow
<1> HIDE DEF AllAccounted
<1> QED BY <1>1, <1>2, <1>3, LedgerInvariant, PTL DEF Spec

-----------------------------------------------------------------------------
(* Notifications *)

\* A retry under way holds a copy of deposits.json.
Snapshot ==
    [on : {TRUE}, owed : SUBSET Txids, processed : [Txids -> ProcessedRecord],
     pending : SUBSET Txids, creditedTxids : SUBSET Txids,
     reversed : [Txids -> ReversedRecord]]

\* What the retry read was true, and what it has left to send is still so: a
\* deposit that was ever on the meter stays in `credited'.
SnapshotSound ==
    retry.on =>
       /\ retry \in Snapshot
       /\ \A t \in Txids : retry.processed[t].misses <= MinMisses
       /\ \A t \in Txids : retry.processed[t].notify => t \in credited
       /\ retry.owed \subseteq credited

\* A notification is owed for credited deposits only.  The meter recognises a
\* buyer's last deposit and does not add it twice, so the last write of a credit
\* finds it on the meter by either way.
MarkSound ==
    /\ \A t \in Txids : processed[t].notify => t \in credited
    /\ \A t \in Txids : lastDeposit[BuyerOf[t]] = t => t \in credited
    /\ pc = "finalize" => cur \in credited

\* The inductive invariant.
NotifyInv == TypeOK /\ SnapshotSound /\ MarkSound /\ ToldOnlyWhenCredited

\* Only the last write of a credit owes a notification.
LEMMA OwedByFinalize ==
    ASSUME TypeOK, [TightNext]_vars, NEW x \in Txids, processed'[x].notify
    PROVE  processed[x].notify \/ (pc = "finalize" /\ cur = x)
<1> USE NoTxAssumption, BuyerAssumption, MinMissesAssumption, MaxCrashesAssumption,
        NotifyingAssumption
    DEF TypeOK, disk, meters, daemon
<1>a. \A t \in Txids : processed[t] \in ProcessedRecord /\ reversed[t] \in ReversedRecord
  OBVIOUS
<1>w. pc \in {"verify", "credit", "finalize", "recredit", "confirm", "debit", "debited",
              "remove", "restore", "settle"} => cur \in Txids
  BY DEF AtWork, DaemonPoints
<1> DEFINE Goal == processed[x].notify \/ (pc = "finalize" /\ cur = x)
<1>n. ~NoRecord.notify
  BY DEF NoRecord
<1>s. ~SettledRecord.notify
  BY <1>n, NewRecords, FiledFields DEF SettledRecord
<1>1. CASE UNCHANGED processed
  BY <1>1
<1>7. CASE RecordCreditIntent
  <2>1. ~CreditingRecord.notify
    <3>1. Crediting(SettledRecord) \in ProcessedRecord /\ ~Crediting(SettledRecord).notify
      BY <1>s, SettledRecordTyped, CreditingFields
    <3> QED BY <3>1, FromMempoolFields DEF CreditingRecord
  <2> QED BY <1>7, <1>w, <2>1 DEF RecordCreditIntent
<1>10. CASE FinalizeCredit
  BY <1>10, <1>w DEF FinalizeCredit
<1>p. ASSUME NEW t \in Txids, NEW r, processed' = [processed EXCEPT ![t] = r],
             r.notify = processed[t].notify
      PROVE Goal
  BY <1>p
<1>15. ASSUME NEW t \in Txids, ReconcileConfirms(t) PROVE Goal
  <2> DEFINE reason == IF processed[t].reversal = "none" THEN processed[t].needsOperator
                       ELSE "ambiguousReversal"
  <2>1. reason \in Reasons
    BY <1>a DEF ProcessedRecord, Reasons
  <2>2. PICK q : q = Confirmed(processed[t], reason)
    OBVIOUS
  <2>3. q.notify = processed[t].notify
    <3> HIDE DEF reason
    <3> QED BY <1>a, <2>1, <2>2, ConfirmedFields
  <2>4. processed' = [processed EXCEPT ![t] = q]
    BY <1>15, <2>2 DEF ReconcileConfirms, SaveAndNext
  <2> QED BY <2>3, <2>4
<1>16. ASSUME NEW t \in Txids, RecreditIntent(t) PROVE Goal
  <2>1. Stamped(processed[t], "recredited").notify = processed[t].notify
    BY <1>a, StampedFields DEF Reversals
  <2> QED BY <1>16, <2>1 DEF RecreditIntent
<1>17. ASSUME NEW t \in Txids, StillInMempool(t) PROVE Goal
  <2>1. SeenAgain(processed[t]).notify = processed[t].notify
    BY <1>a, SeenAgainFields
  <2> QED BY <1>17, <2>1 DEF StillInMempool, SaveAndNext
<1>18. ASSUME NEW t \in Txids, MissedMidCredit(t) PROVE Goal
  <2>1. Flagged(processed[t], "unprovenCredit").notify = processed[t].notify
    BY <1>a, FlaggedFields DEF Reasons
  <2> QED BY <1>18, <2>1 DEF MissedMidCredit, SaveAndNext
<1>b. \A t \in Txids : CountMiss(processed[t]) \in ProcessedRecord
                       /\ CountMiss(processed[t]).notify = processed[t].notify
  BY <1>a, CountMissFields
<1>19. ASSUME NEW t \in Txids, MissedTooEarly(t) PROVE Goal
  BY <1>19, <1>b DEF MissedTooEarly, SaveAndNext
<1>20. ASSUME NEW t \in Txids, ReversalWithheld(t) PROVE Goal
  <2>1. Withheld(CountMiss(processed[t])).notify = processed[t].notify
    BY <1>b, WithheldFields
  <2> QED BY <1>20, <2>1 DEF ReversalWithheld, SaveAndNext
<1>21. ASSUME NEW t \in Txids, ReversalIntent(t) PROVE Goal
  <2>1. Stamped(CountMiss(processed[t]), "debiting").notify = processed[t].notify
    BY <1>b, StampedFields DEF Reversals
  <2> QED BY <1>21, <2>1 DEF ReversalIntent
<1>22. ASSUME NEW t \in Txids, NEW certain \in BOOLEAN, MoveToReversed(t, certain) PROVE Goal
  BY <1>22, <1>n DEF MoveToReversed, SaveAndNext
<1>24. CASE RecreditConfirms
  <2>1. PICK q : q = Confirmed(processed[cur], processed[cur].needsOperator)
    OBVIOUS
  <2>2. cur \in Txids /\ processed[cur].needsOperator \in Reasons
    BY <1>a, <1>w, <1>24 DEF RecreditConfirms, ProcessedRecord
  <2>3. q.notify = processed[cur].notify
    BY <1>a, <2>1, <2>2, ConfirmedFields
  <2> QED BY <1>24, <2>1, <2>2, <2>3 DEF RecreditConfirms, SaveAndNext
<1>26. CASE ReversalDebited
  <2>1. cur \in Txids => Stamped(processed[cur], "debited").notify = processed[cur].notify
    BY <1>a, StampedFields DEF Reversals
  <2> QED BY <1>26, <1>w, <2>1 DEF ReversalDebited
<1>31. ASSUME NEW t \in Txids, RestoreIntent(t) PROVE Goal
  BY <1>31, <1>s DEF RestoreIntent
<1>37. CASE CliCreditIntent
  <2>1. cli.tx \in Txids => Resolving(processed[cli.tx]).notify = processed[cli.tx].notify
    BY <1>a, ResolvingFields
  <2> QED BY <1>37, <2>1 DEF CliCreditIntent
<1>39. CASE CliCreditSettles
  <2>1. cli.tx \in Txids => Resolved(processed[cli.tx]).notify = processed[cli.tx].notify
    BY <1>a, ResolvedFields
  <2> QED BY <1>39, <1>s, <2>1 DEF CliCreditSettles
<1>40. CASE CliDismiss
  <2>1. cli.tx \in Txids => Dismissed(processed[cli.tx]).notify = processed[cli.tx].notify
    BY <1>a, DismissedFields
  <2> QED BY <1>40, <2>1 DEF CliDismiss
<1>u. \/ UNCHANGED processed
      \/ RecordCreditIntent \/ FinalizeCredit \/ RecreditConfirms \/ ReversalDebited
      \/ CliCreditIntent \/ CliCreditSettles \/ CliDismiss
      \/ \E t \in Txids : \/ ReconcileConfirms(t) \/ RecreditIntent(t) \/ StillInMempool(t)
                          \/ MissedMidCredit(t) \/ MissedTooEarly(t) \/ ReversalWithheld(t)
                          \/ ReversalIntent(t) \/ RestoreIntent(t)
                          \/ \E certain \in BOOLEAN : MoveToReversed(t, certain)
  <2>1. CASE CreditSteps
    BY <2>1 DEF CreditSteps, ReportBegin, SweepNext, SweepBegin, SweepEnd, VerifyFails,
       VerifyWaits, CreditMoney, CreditMoneyFails
  <2>2. CASE ReconcileSteps
    <3>1. ReversalRecorded => \E t \in Txids : MoveToReversed(t, TRUE)
      BY <1>w DEF ReversalRecorded
    <3>2. \A t \in Txids : ReversalForgiven(t) => MoveToReversed(t, FALSE)
      BY DEF ReversalForgiven
    <3> QED BY <2>2, <3>1, <3>2 DEF ReconcileSteps, ReconcileIdle, ReconcileBegin,
               ReconcileEnd, ReconcileSkips, RecreditMoney, ReversalMoney, PassFails
  <2>3. CASE RecheckSteps
    BY <2>3 DEF RecheckSteps, RecheckFlags, RecheckWaits, RestoreMoney, RestoreSettles, RecheckEnd
  <2>4. CASE CliSteps
    BY <2>4 DEF CliSteps, CliBegin, CliRefused, CliCreditMoney
  <2>5. CASE Environment
    BY <2>5 DEF Environment, ChainStep, WindowPasses, DaemonCrash, CliCrash
  <2> QED BY <2>1, <2>2, <2>3, <2>4, <2>5 DEF TightNext, Next, vars
<1> QED
  BY <1>u, <1>1, <1>7, <1>10, <1>15, <1>16, <1>17, <1>18, <1>19, <1>20, <1>21, <1>22, <1>24,
     <1>26, <1>31, <1>37, <1>39, <1>40

\* A step that is not a credit makes no transaction the last deposit of its
\* buyer, and does not reach the write after the money.
Uncredited ==
    /\ \A t \in Txids : lastDeposit'[BuyerOf[t]] = t => lastDeposit[BuyerOf[t]] = t
    /\ pc' # "finalize" \/ (pc = "finalize" /\ cur' = cur)

\* A step is a credit by the daemon, a credit by the CLI, or moves none.
LEMMA CreditOrNot ==
    ASSUME TypeOK, [TightNext]_vars
    PROVE  \/ Uncredited
           \/ cur \in Txids /\ CreditMeter(cur) /\ cur' = cur
           \/ cli.tx \in Txids /\ CreditMeter(cli.tx) /\ UNCHANGED <<pc, cur>>
<1> USE DEF disk, meters, daemon
<1>w. pc \in AtWork => cur \in Txids
  BY DEF TypeOK
<1>1. CreditMoney \/ RecreditMoney \/ RestoreMoney
         => cur \in Txids /\ CreditMeter(cur) /\ cur' = cur
  BY <1>w DEF CreditMoney, RecreditMoney, RestoreMoney, Goto, AtWork, DaemonPoints
<1>2. CliCreditMoney => cli.tx \in Txids /\ CreditMeter(cli.tx) /\ UNCHANGED <<pc, cur>>
  BY DEF CliCreditMoney, TypeOK
<1>3. ReversalMoney => Uncredited
  BY <1>w, NoTxAssumption, BuyerAssumption
  DEF ReversalMoney, DebitMeter, Goto, Uncredited, TypeOK, AtWork, DaemonPoints
<1>c. CASE CreditSteps
  BY <1>c, <1>1 DEF CreditSteps, ReportBegin, SweepNext, SweepBegin, SweepEnd, VerifyFails,
     VerifyWaits, RecordCreditIntent, CreditMoneyFails, FinalizeCredit, Return, Release,
     Goto, Claim, Uncredited
<1>r. CASE ReconcileSteps
  BY <1>r, <1>1, <1>3 DEF ReconcileSteps, ReconcileIdle, ReconcileBegin, ReconcileEnd,
     ReconcileSkips, ReconcileConfirms, RecreditIntent, StillInMempool, MissedMidCredit,
     MissedTooEarly, ReversalIntent, ReversalForgiven, MoveToReversed, RecreditConfirms,
     ReversalDebited, ReversalRecorded, PassFails, Release, Goto, SaveAndNext, EnterRecheck,
     Uncredited
<1>k. CASE RecheckSteps
  BY <1>k, <1>1 DEF RecheckSteps, RecheckFlags, RecheckWaits, RestoreIntent, RestoreSettles,
     RecheckEnd, Release, Uncredited
<1>i. CASE CliSteps
  BY <1>i, <1>2 DEF CliSteps, CliBegin, CliRefused, CliCreditIntent, CliCreditSettles,
     CliDismiss, Uncredited
<1>e. CASE Environment
  BY <1>e DEF Environment, ChainStep, WindowPasses, DaemonCrash, CliCrash, Release, Uncredited
<1>t. ASSUME NEW t \in Txids, ReversalWithheld(t) PROVE Uncredited
  BY <1>t DEF ReversalWithheld, SaveAndNext, Uncredited
<1>u. CASE UNCHANGED vars
  BY <1>u DEF vars, Uncredited
<1> QED BY <1>c, <1>r, <1>k, <1>i, <1>e, <1>t, <1>u DEF TightNext, Next

\* A credit leaves its transaction on the meter once more, or it was the
\* buyer's last deposit already.
LEMMA CreditIsSeen ==
    ASSUME TypeOK, MarkSound, NEW c \in Txids, CreditMeter(c),
           credited' = credited \cup {t \in Txids : meter'[t] > meter[t]}
    PROVE  /\ c \in credited'
           /\ \A t \in Txids : lastDeposit'[BuyerOf[t]] = t => t \in credited'
<1>1. BuyerOf[c] \in Buyers /\ \A t \in Txids : BuyerOf[t] \in Buyers
  BY BuyerAssumption
<1>2. c \in credited'
  <2>1. CASE lastDeposit[BuyerOf[c]] = c
    BY <2>1 DEF MarkSound
  <2>2. CASE lastDeposit[BuyerOf[c]] # c
    BY <2>2 DEF CreditMeter, TypeOK
  <2> QED BY <2>1, <2>2
<1>3. ASSUME NEW t \in Txids, lastDeposit'[BuyerOf[t]] = t PROVE t = c \/ lastDeposit[BuyerOf[t]] = t
  BY <1>1, <1>3 DEF CreditMeter, TypeOK
<1> QED BY <1>2, <1>3 DEF MarkSound

\* Nothing is credited, owed or told at the start.
LEMMA NotifyInitSound == NotifyInit => NotifyInv
<1> SUFFICES ASSUME NotifyInit PROVE NotifyInv
  OBVIOUS
<1>1. TypeOK
  BY TypeInit DEF NotifyInit
<1>2. SnapshotSound
  BY DEF NotifyInit, NoRetry, SnapshotSound
<1>3. MarkSound
  BY NoTxAssumption, BuyerAssumption DEF NotifyInit, Init, MarkSound, NoRecord
<1>4. ToldOnlyWhenCredited
  BY DEF NotifyInit, ToldOnlyWhenCredited
<1> QED BY <1>1, <1>2, <1>3, <1>4 DEF NotifyInv

\* Every step keeps the invariant.
LEMMA NotifyKept == NotifyInv /\ [NotifyNext]_allVars => NotifyInv'
<1> SUFFICES ASSUME NotifyInv, [NotifyNext]_allVars PROVE NotifyInv'
  OBVIOUS
<1> USE DEF NotifyInv
<1>1. CASE Ledger
  <2>1. TypeOK'
    BY <1>1, TypeNext DEF Ledger
  <2>2. credited \subseteq credited'
    BY <1>1 DEF Ledger
  <2>3. SnapshotSound'
    <3>1. retry' = retry \/ ~retry'.on
      BY <1>1 DEF Ledger, NoRetry
    <3> QED BY <2>2, <3>1 DEF SnapshotSound, Snapshot
  <2>4. ToldOnlyWhenCredited'
    BY <1>1, <2>2 DEF Ledger, ToldOnlyWhenCredited
  <2>5. \A t \in Txids : processed'[t].notify => t \in credited'
    BY <1>1, <2>2, OwedByFinalize DEF Ledger, MarkSound
  <2>6. /\ \A t \in Txids : lastDeposit'[BuyerOf[t]] = t => t \in credited'
        /\ pc' = "finalize" => cur' \in credited'
    <3>1. CASE Uncredited
      BY <3>1, <2>2 DEF Uncredited, MarkSound
    <3>2. CASE cur \in Txids /\ CreditMeter(cur) /\ cur' = cur
      BY <1>1, <3>2, CreditIsSeen DEF Ledger
    <3>3. CASE cli.tx \in Txids /\ CreditMeter(cli.tx) /\ UNCHANGED <<pc, cur>>
      BY <1>1, <2>2, <3>3, CreditIsSeen DEF Ledger, MarkSound
    <3> QED BY <1>1, <3>1, <3>2, <3>3, CreditOrNot DEF Ledger
  <2> QED BY <2>1, <2>3, <2>4, <2>5, <2>6 DEF MarkSound
<1>2. CASE RetryBegin
  <2>1. retry' \in Snapshot
    BY <1>2 DEF RetryBegin, Snapshot, Owed, TypeOK
  <2>2. Owed \subseteq credited
    BY DEF Owed, MarkSound
  <2>3. SnapshotSound'
    BY <1>2, <2>1, <2>2 DEF RetryBegin, SnapshotSound, MarkSound, TypeOK
  <2>4. UNCHANGED <<vars, told, credited>>
    BY <1>2 DEF RetryBegin
  <2> QED BY <2>3, <2>4 DEF TypeOK, MarkSound, ToldOnlyWhenCredited, vars, disk, meters, daemon
<1>3. ASSUME NEW t \in Txids, RetrySend(t) PROVE NotifyInv'
  <2>1. t \in credited /\ retry \in Snapshot /\ retry.on
    BY <1>3 DEF RetrySend, SnapshotSound
  <2>2. PICK b \in BOOLEAN :
           retry' = [retry EXCEPT !.owed = @ \ {t}, !.processed[t].notify = b]
    BY <1>3 DEF RetrySend
  <2>3. /\ retry'.on = retry.on /\ retry'.owed = retry.owed \ {t}
        /\ retry'.processed = [retry.processed EXCEPT ![t].notify = b]
        /\ retry'.pending = retry.pending /\ retry'.creditedTxids = retry.creditedTxids
        /\ retry'.reversed = retry.reversed
    BY <2>1, <2>2 DEF Snapshot
  <2>4. [retry.processed[t] EXCEPT !.notify = b] \in ProcessedRecord
        /\ [retry.processed[t] EXCEPT !.notify = b].misses = retry.processed[t].misses
        /\ [retry.processed[t] EXCEPT !.notify = b].notify = b
    BY <2>1 DEF Snapshot, ProcessedRecord, Reversals, Reasons, Resolutions
  <2>5. PICK q \in ProcessedRecord : /\ q.misses = retry.processed[t].misses
                                     /\ retry'.processed = [retry.processed EXCEPT ![t] = q]
    BY <2>3, <2>4
  <2>6. retry' \in Snapshot
    BY <2>1, <2>2, <2>5 DEF Snapshot
  <2>7. UNCHANGED <<vars, credited>> /\ told' \in {told, told \cup {t}}
    BY <1>3 DEF RetrySend
  <2>8. SnapshotSound'
    <3>1. retry.processed \in [Txids -> ProcessedRecord] /\ credited' = credited
      BY <2>1, <2>7 DEF Snapshot
    <3>2. /\ \A x \in Txids : retry.processed[x].misses <= MinMisses
          /\ \A x \in Txids : retry.processed[x].notify => x \in credited
          /\ retry.owed \subseteq credited
      BY <2>1 DEF SnapshotSound
    <3>3. \A x \in Txids : x # t => retry'.processed[x] = retry.processed[x]
      BY <2>5, <3>1
    <3>4. retry'.processed[t].misses = retry.processed[t].misses
      BY <2>5, <3>1
    <3>5. \A x \in Txids : retry'.processed[x].misses <= MinMisses
      BY <3>2, <3>3, <3>4
    <3>6. \A x \in Txids : retry'.processed[x].notify => x \in credited'
      BY <2>1, <3>1, <3>2, <3>3
    <3>7. retry'.owed \subseteq credited'
      BY <2>3, <3>1, <3>2
    <3> QED BY <2>6, <3>5, <3>6, <3>7 DEF SnapshotSound
  <2> QED
    BY <2>1, <2>7, <2>8 DEF TypeOK, MarkSound, ToldOnlyWhenCredited, vars, disk, meters, daemon
<1>4. CASE RetrySave
  <2>1. retry \in Snapshot /\ UNCHANGED <<chain, meters, daemon, cli, crashes, told, credited>>
    BY <1>4 DEF RetrySave, SnapshotSound
  <2>2. TypeOK'
    BY <1>4, <2>1 DEF RetrySave, SnapshotSound, Snapshot, TypeOK, meters, daemon
  <2>3. MarkSound'
    BY <1>4, <2>1 DEF RetrySave, SnapshotSound, MarkSound, meters, daemon
  <2> QED BY <1>4, <2>1, <2>2, <2>3 DEF RetrySave, NoRetry, SnapshotSound, ToldOnlyWhenCredited
<1>5. ASSUME NEW t \in Txids, NotifyAccepted(t) PROVE NotifyInv'
  <2>1. t \in credited
    BY <1>5 DEF NotifyAccepted, Owed, MarkSound
  <2>2. PICK q : q = [processed[t] EXCEPT !.notify = FALSE]
    OBVIOUS
  <2>3. q \in ProcessedRecord /\ q.misses = processed[t].misses /\ ~q.notify
    <3>1. processed[t] \in ProcessedRecord
      BY DEF TypeOK
    <3> QED BY <2>2, <3>1 DEF ProcessedRecord, Reversals, Reasons, Resolutions
  <2>4. processed' = [processed EXCEPT ![t] = q]
        /\ UNCHANGED <<chain, pending, creditedTxids, reversed, meters, daemon, cli,
                       crashes, retry, retries, credited>>
    BY <1>5, <2>2 DEF NotifyAccepted
  <2>5. TypeOK'
    BY <2>3, <2>4 DEF TypeOK, meters, daemon
  <2>6. MarkSound'
    BY <2>3, <2>4 DEF TypeOK, MarkSound, meters, daemon
  <2> QED BY <1>5, <2>1, <2>4, <2>5, <2>6
          DEF NotifyAccepted, SnapshotSound, ToldOnlyWhenCredited
<1>6. CASE UNCHANGED allVars
  BY <1>6 DEF allVars, notifyVars, vars, disk, meters, daemon, TypeOK, SnapshotSound,
     MarkSound, ToldOnlyWhenCredited
<1> QED BY <1>1, <1>2, <1>3, <1>4, <1>5, <1>6 DEF NotifyNext

\* The platform is never told of a deposit that did not reach the meter.
THEOREM ToldIsCredited == NotifySpec => []ToldOnlyWhenCredited
<1>1. NotifyInv => ToldOnlyWhenCredited
  BY DEF NotifyInv
<1> QED BY NotifyInitSound, NotifyKept, <1>1, PTL DEF NotifySpec
=============================================================================
