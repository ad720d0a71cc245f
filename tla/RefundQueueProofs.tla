------------------------- MODULE RefundQueueProofs -------------------------
(***************************************************************************)
(* Proofs about RefundQueue.  In any interleaving: no money leaves without *)
(* an approval, and two senders are never inside the send lock of one job. *)
(* When the actors take turns (Serial): no job is paid twice, a payment is *)
(* always on record, and no owed refund is lost.                           *)
(*                                                                         *)
(* Each invariant has one lemma saying that a step keeps it, with a step   *)
(* per action, and before them what the moves that actions share do to it. *)
(***************************************************************************)
EXTENDS RefundQueue, TLAPS

-----------------------------------------------------------------------------
(* Types *)

\* The moves of an actor keep the actors typed: it begins...
LEMMA BeginTyped ==
    ASSUME TypeOK, NEW a \in Actors, NEW p \in Points, NEW j \in Jobs \cup {NoJob},
           NEW left \in SUBSET Jobs, Begin(a, p, j, left)
    PROVE  /\ at' \in [Actors -> Points] /\ job' \in [Actors -> Jobs \cup {NoJob}]
           /\ snap' \in [Actors -> [Jobs -> Statuses]] /\ todo' \in [Actors -> SUBSET Jobs]
BY DEF Begin, TypeOK

\* ... it ends...
LEMMA FinishTyped ==
    ASSUME TypeOK, NEW a \in Actors, Finish(a)
    PROVE  /\ at' \in [Actors -> Points] /\ job' \in [Actors -> Jobs \cup {NoJob}]
           /\ snap' \in [Actors -> [Jobs -> Statuses]] /\ todo' \in [Actors -> SUBSET Jobs]
BY DEF Finish, TypeOK, Nothing, Statuses, Points

\* ... or it goes on to another point.
LEMMA GotoTyped ==
    ASSUME TypeOK, NEW a \in Actors, NEW p \in Points, Goto(a, p)
    PROVE  /\ at' \in [Actors -> Points] /\ job' \in [Actors -> Jobs \cup {NoJob}]
           /\ snap' \in [Actors -> [Jobs -> Statuses]] /\ todo' \in [Actors -> SUBSET Jobs]
BY DEF Goto, TypeOK

\* The ledger that is written from a copy is a ledger.
LEMMA SaveTyped ==
    ASSUME TypeOK, NEW a \in Actors, NEW j \in Jobs, NEW s \in Statuses, SaveSnapshot(a, j, s)
    PROVE  ledger' \in [Jobs -> Statuses] /\ snap' \in [Actors -> [Jobs -> Statuses]]
BY DEF SaveSnapshot, TypeOK

\* An actor past the start of a payment or of a command is about a job.
JobKnown == \A a \in Actors : at[a] \in {"attempt", "verify", "unblock"} \cup Locked => job[a] \in Jobs

\* The two ends of attemptPendingRefund keep the state typed.
LEMMA AttemptTyped ==
    ASSUME TypeOK, NEW a \in Senders, job[a] \in Jobs, Succeeded(a) \/ Failed(a)
    PROVE  /\ ledger' \in [Jobs -> Statuses]
           /\ at' \in [Actors -> Points] /\ job' \in [Actors -> Jobs \cup {NoJob}]
           /\ snap' \in [Actors -> [Jobs -> Statuses]] /\ todo' \in [Actors -> SUBSET Jobs]
<1> a \in Actors
  BY DEF Senders, Actors, Daemon
<1>1. CASE Succeeded(a) /\ a \in Drains
  BY <1>1, SaveTyped DEF Succeeded, TypeOK, Statuses, Points
<1>2. CASE Succeeded(a) /\ a \notin Drains
  BY <1>2, FinishTyped DEF Succeeded, TypeOK, Statuses
<1>3. CASE Failed(a) /\ a \in Drains
  BY <1>3 DEF Failed, TypeOK, Points
<1>4. CASE Failed(a) /\ a \notin Drains
  BY <1>4, FinishTyped DEF Failed, TypeOK
<1> QED BY <1>1, <1>2, <1>3, <1>4

\* Every step keeps the state typed.
LEMMA TypeNext == TypeOK /\ JobKnown /\ [Next]_vars => TypeOK'
<1> SUFFICES ASSUME TypeOK, JobKnown, [Next]_vars PROVE TypeOK'
  OBVIOUS
<1> USE BoundsAssumption DEF books, platform, actors
<1>a. Senders \subseteq Actors /\ Drains \subseteq Senders /\ Cli \in Senders
      /\ Sweep \in Actors /\ Boot \in Actors
  BY DEF Senders, Actors, Daemon
<1>1. ASSUME NEW d \in Drains, DrainBegin(d) PROVE TypeOK'
  <2>1. Sendable \in SUBSET Jobs
    BY DEF Sendable
  <2> QED BY <1>1, <1>a, <2>1, BeginTyped DEF DrainBegin, TypeOK, Points
<1>2. ASSUME NEW d \in Drains, DrainNext(d) PROVE TypeOK'
  BY <1>2, <1>a DEF DrainNext, TypeOK, Points
<1>3. ASSUME NEW d \in Drains, DrainEnd(d) PROVE TypeOK'
  BY <1>3, <1>a, FinishTyped DEF DrainEnd, TypeOK
<1>4. ASSUME NEW a \in Senders,
             LockTaken(a) \/ AlreadyRefunded(a) \/ NotStarted(a) \/ Blocked(a)
      PROVE TypeOK'
  <2>1. job[a] \in Jobs
    BY <1>4, <1>a DEF LockTaken, AlreadyRefunded, NotStarted, Blocked, JobKnown, Locked
  <2>2. CASE LockTaken(a)
    BY <2>1, <2>2, AttemptTyped DEF LockTaken, TypeOK
  <2>3. CASE AlreadyRefunded(a)
    BY <2>1, <2>3, AttemptTyped DEF AlreadyRefunded, TypeOK
  <2>4. CASE NotStarted(a)
    BY <2>1, <2>4, AttemptTyped DEF NotStarted, TypeOK, Release
  <2>5. CASE Blocked(a)
    BY <2>1, <2>5, AttemptTyped DEF Blocked, TypeOK, Release
  <2> QED BY <1>4, <2>2, <2>3, <2>4, <2>5
<1>5. ASSUME NEW a \in Senders, OpenSession(a) PROVE TypeOK'
  BY <1>5, <1>a, GotoTyped DEF OpenSession, TypeOK, Points
<1>6. ASSUME NEW a \in Senders, StartSend(a) PROVE TypeOK'
  BY <1>6, <1>a, GotoTyped DEF StartSend, TypeOK, Points, JobKnown, Locked
<1>7. ASSUME NEW a \in Senders, SendReturns(a) PROVE TypeOK'
  <2>1. job[a] \in Jobs
    BY <1>7, <1>a DEF SendReturns, JobKnown, Locked
  <2>2. sent' \in [Jobs -> 0..2]
    BY <1>7, <2>1 DEF SendReturns, Landed, TypeOK
  <2> QED BY <1>7, <1>a, <2>2, GotoTyped DEF SendReturns, TypeOK, Points
<1>8. ASSUME NEW a \in Senders, SendUnclear(a) PROVE TypeOK'
  <2>1. job[a] \in Jobs
    BY <1>8, <1>a DEF SendUnclear, JobKnown, Locked
  <2>2. sent' \in [Jobs -> 0..2]
    BY <1>8, <2>1 DEF SendUnclear, Landed, TypeOK
  <2> QED BY <1>8, <2>1, <2>2, AttemptTyped DEF SendUnclear, TypeOK, Release
<1>9. ASSUME NEW a \in Senders, SendUnfunded(a) PROVE TypeOK'
  <2>1. job[a] \in Jobs
    BY <1>9, <1>a DEF SendUnfunded, JobKnown, Locked
  <2> QED BY <1>9, <2>1, AttemptTyped DEF SendUnfunded, TypeOK, Release
<1>10. CASE ReadRefunded
  BY <1>10, <1>a DEF ReadRefunded, TypeOK, Points
<1>11. ASSUME NEW a \in Senders, MarkRefunded(a) PROVE TypeOK'
  BY <1>11, <1>a DEF MarkRefunded, TypeOK, Points, JobKnown, Locked
<1>12. ASSUME NEW a \in Senders, ClearMarker(a) PROVE TypeOK'
  <2>1. job[a] \in Jobs
    BY <1>12, <1>a DEF ClearMarker, JobKnown, Locked
  <2>2. counted' \in [Jobs -> 0..SendsAllowed]
    BY <1>12, <2>1 DEF ClearMarker, TypeOK
  <2> QED BY <1>12, <1>a, <2>2, GotoTyped DEF ClearMarker, TypeOK, Points
<1>13. ASSUME NEW a \in Senders, Settle(a) PROVE TypeOK'
  <2>1. job[a] \in Jobs
    BY <1>13, <1>a DEF Settle, JobKnown, Locked
  <2>2. dispute' \in [Jobs -> Disputes]
    BY <1>13 DEF Settle, TypeOK, Disputes
  <2> QED BY <1>13, <2>1, <2>2, AttemptTyped DEF Settle, TypeOK, Release
<1>14. CASE ApproveBegin
  BY <1>14, <1>a, BeginTyped DEF ApproveBegin, TypeOK, Points
<1>15. CASE ApproveStops
  BY <1>15, <1>a, FinishTyped DEF ApproveStops, TypeOK
<1>16. CASE ApproveRefused
  BY <1>16, <1>a, FinishTyped DEF ApproveRefused, TypeOK, Statuses
<1>17. CASE ApproveConfirmed
  <2>1. job[Cli] \in Jobs
    BY <1>17, <1>a DEF ApproveConfirmed, JobKnown
  <2> QED BY <1>17, <1>a, <2>1, SaveTyped DEF ApproveConfirmed, TypeOK, Statuses, Points
<1>18. CASE Reject
  BY <1>18 DEF Reject, TypeOK, Statuses
<1>19. CASE UnblockBegin
  BY <1>19, <1>a, BeginTyped DEF UnblockBegin, TypeOK, Points
<1>20. CASE Unblock
  BY <1>20, <1>a, FinishTyped DEF Unblock, TypeOK
<1>21. CASE SweepBegin
  <2>1. Refundable \in SUBSET Jobs
    BY DEF Refundable
  <2> QED BY <1>21, <1>a, <2>1, BeginTyped DEF SweepBegin, TypeOK, Points
<1>22. CASE SweepResponds
  <2>1. PICK j \in todo[Sweep] :
           /\ todo' = [todo EXCEPT ![Sweep] = @ \ {j}]
           /\ \/ /\ dispute' = [dispute EXCEPT ![j] = IF @ = "pending" THEN "refund" ELSE @]
                 /\ \E status \in {"pending_approval", "needs_review"} :
                       SaveSnapshot(Sweep, j, status)
              \/ dispute[j] = "pending" /\ UNCHANGED <<dispute, ledger, snap>>
    BY <1>22 DEF SweepResponds
  <2>2. j \in Jobs
    BY <1>a DEF TypeOK
  <2>3. ledger' \in [Jobs -> Statuses] /\ snap' \in [Actors -> [Jobs -> Statuses]]
    BY <1>a, <2>1, <2>2, SaveTyped DEF TypeOK, Statuses
  <2>4. dispute' \in [Jobs -> Disputes]
    BY <2>1, <2>2 DEF TypeOK, Disputes
  <2>5. todo' \in [Actors -> SUBSET Jobs]
    BY <1>a, <2>1 DEF TypeOK
  <2> QED BY <1>22, <2>3, <2>4, <2>5 DEF SweepResponds, TypeOK
<1>23. CASE SweepEnd
  BY <1>23, <1>a, FinishTyped DEF SweepEnd, TypeOK
<1>24. CASE BootBegin
  <2>1. Begin(Boot, "promote", NoJob, {})
    BY <1>24 DEF BootBegin
  <2>2. "promote" \in Points /\ NoJob \in Jobs \cup {NoJob} /\ {} \in SUBSET Jobs
    BY DEF Points
  <2> QED BY <1>24, <1>a, <2>1, <2>2, BeginTyped DEF BootBegin, TypeOK
<1>25. CASE BootPromotes
  <2>1. ledger' \in [Jobs -> Statuses]
    BY <1>25, <1>a DEF BootPromotes, TypeOK, Statuses
  <2> QED BY <1>25, <1>a, <2>1 DEF BootPromotes, TypeOK, Points
<1>26. CASE BootRecovers
  <2>1. todo[Boot] \subseteq Jobs
    BY <1>a DEF TypeOK
  <2>2. ledger' \in [Jobs -> Statuses] /\ active' \subseteq Jobs
    BY <1>26, <1>a, <2>1 DEF BootRecovers, TypeOK, Statuses
  <2> QED BY <1>26, <1>a, <2>2, FinishTyped DEF BootRecovers, TypeOK
<1>27. CASE AbandonJob
  BY <1>27 DEF AbandonJob, Unlist, TypeOK, Statuses
<1>28. CASE JobEnds \/ DisputeOpens \/ AllowlistLost
  BY <1>28 DEF JobEnds, DisputeOpens, AllowlistLost, Unlist, TypeOK, Disputes
<1>29. ASSUME NEW P \in SUBSET Actors, Dies(P), boot' \in {boot, "drain"} PROVE TypeOK'
  <2>1. sent' \in [Jobs -> 0..2]
    BY <1>29 DEF Dies, TypeOK
  <2>2. lock' \in [Jobs -> Senders \cup {Free, Dead}]
    BY <1>29 DEF Dies, TypeOK
  <2>3. /\ at' \in [Actors -> Points] /\ job' \in [Actors -> Jobs \cup {NoJob}]
        /\ snap' \in [Actors -> [Jobs -> Statuses]] /\ todo' \in [Actors -> SUBSET Jobs]
    BY <1>29 DEF Dies, TypeOK, Points, Nothing, Statuses
  <2> QED BY <1>29, <2>1, <2>2, <2>3 DEF Dies, TypeOK
<1>30. CASE DaemonDies \/ CliDies
  BY <1>29, <1>30 DEF DaemonDies, CliDies, Actors
<1>31. CASE UNCHANGED vars
  BY <1>31 DEF vars, TypeOK
<1> QED
  BY <1>1, <1>2, <1>3, <1>4, <1>5, <1>6, <1>7, <1>8, <1>9, <1>10, <1>11, <1>12, <1>13, <1>14,
     <1>15, <1>16, <1>17, <1>18, <1>19, <1>20, <1>21, <1>22, <1>23, <1>24, <1>25, <1>26, <1>27,
     <1>28, <1>30, <1>31
  DEF Next, DrainSteps, AttemptSteps, CliSteps, EnqueueSteps, Environment

\* Every step keeps JobKnown.
LEMMA KnownNext == TypeOK /\ JobKnown /\ [Next]_vars => JobKnown'
<1> SUFFICES ASSUME TypeOK, JobKnown, [Next]_vars, NEW b \in Actors,
                    at'[b] \in {"attempt", "verify", "unblock"} \cup Locked
             PROVE  job'[b] \in Jobs
  BY DEF JobKnown
<1> USE DEF books, platform, actors, Locked
<1>a. Senders \subseteq Actors /\ Drains \subseteq Senders /\ Cli \in Senders
      /\ Sweep \in Actors /\ Boot \in Actors
  BY DEF Senders, Actors, Daemon
<1>b. at[b] \in {"attempt", "verify", "unblock"} \cup Locked => job[b] \in Jobs
  BY DEF JobKnown
<1>c. ASSUME NEW a \in Actors, Finish(a) PROVE job'[b] \in Jobs
  BY <1>c, <1>b DEF Finish, TypeOK
<1>d. ASSUME NEW a \in Senders, Succeeded(a) \/ Failed(a) PROVE job'[b] \in Jobs
  BY <1>d, <1>a, <1>b, <1>c DEF Succeeded, Failed, TypeOK
<1>e. ASSUME NEW a \in Actors, NEW p \in Points, Goto(a, p), job[a] \in Jobs PROVE job'[b] \in Jobs
  BY <1>e, <1>b DEF Goto, TypeOK
<1>f. ASSUME NEW a \in Actors, NEW p, NEW j, NEW left, Begin(a, p, j, left),
             p \in {"drain", "respond", "promote"} \/ j \in Jobs
      PROVE job'[b] \in Jobs
  BY <1>f, <1>b DEF Begin, TypeOK
<1>1. ASSUME NEW d \in Drains, DrainBegin(d) \/ DrainNext(d) \/ DrainEnd(d) PROVE job'[b] \in Jobs
  BY <1>1, <1>a, <1>b, <1>c, <1>f DEF DrainBegin, DrainNext, DrainEnd, TypeOK
<1>2. ASSUME NEW a \in Senders,
             \/ LockTaken(a) \/ AlreadyRefunded(a) \/ NotStarted(a) \/ Blocked(a)
             \/ SendUnclear(a) \/ SendUnfunded(a) \/ Settle(a)
      PROVE job'[b] \in Jobs
  BY <1>2, <1>d DEF LockTaken, AlreadyRefunded, NotStarted, Blocked, SendUnclear, SendUnfunded, Settle
<1>3. ASSUME NEW a \in Senders, OpenSession(a) \/ StartSend(a) \/ SendReturns(a) \/ ClearMarker(a)
      PROVE job'[b] \in Jobs
  <2>1. job[a] \in Jobs
    BY <1>3, <1>a DEF OpenSession, StartSend, SendReturns, ClearMarker, JobKnown
  <2> QED BY <1>3, <1>a, <1>e, <2>1 DEF OpenSession, StartSend, SendReturns, ClearMarker, Points
<1>4. ASSUME NEW a \in Senders, MarkRefunded(a) PROVE job'[b] \in Jobs
  BY <1>4, <1>a, <1>b DEF MarkRefunded, TypeOK
<1>5. CASE ReadRefunded
  BY <1>5, <1>a, <1>b DEF ReadRefunded, TypeOK
<1>6. CASE ApproveBegin \/ UnblockBegin
  BY <1>6, <1>a, <1>f DEF ApproveBegin, UnblockBegin, TypeOK
<1>7. CASE ApproveStops \/ ApproveRefused \/ Unblock \/ SweepEnd \/ BootRecovers
  BY <1>7, <1>a, <1>c DEF ApproveStops, ApproveRefused, Unblock, SweepEnd, BootRecovers
<1>8. CASE ApproveConfirmed
  BY <1>8, <1>a, <1>b DEF ApproveConfirmed, TypeOK
<1>9. CASE Reject \/ AbandonJob \/ JobEnds \/ DisputeOpens \/ AllowlistLost
  BY <1>9, <1>b DEF Reject, AbandonJob, JobEnds, DisputeOpens, AllowlistLost
<1>10. CASE SweepBegin \/ BootBegin
  BY <1>10, <1>a, <1>f DEF SweepBegin, BootBegin
<1>11. CASE SweepResponds
  BY <1>11, <1>b DEF SweepResponds
<1>12. CASE BootPromotes
  BY <1>12, <1>a, <1>b DEF BootPromotes, TypeOK
<1>13. CASE DaemonDies \/ CliDies
  BY <1>13, <1>b DEF DaemonDies, CliDies, Dies
<1>14. CASE UNCHANGED vars
  BY <1>14, <1>b DEF vars
<1> QED
  BY <1>1, <1>2, <1>3, <1>4, <1>5, <1>6, <1>7, <1>8, <1>9, <1>10, <1>11, <1>12, <1>13, <1>14
  DEF Next, DrainSteps, AttemptSteps, CliSteps, EnqueueSteps, Environment

-----------------------------------------------------------------------------
(* Approval *)

\* Where an approval may wait to be used: the ledger, the copies of it, what a
\* drain has listed, and the jobs being paid.
Paying == {"attempt"} \cup Locked
ApprovalInv ==
    /\ \A j \in Jobs : ledger[j] = "approved" => j \in approvedOnce
    /\ \A a \in Actors, j \in Jobs : snap[a][j] = "approved" => j \in approvedOnce
    /\ \A d \in Drains : todo[d] \subseteq approvedOnce
    /\ \A a \in Actors : at[a] \in Paying => job[a] \in approvedOnce
    /\ SentWasApproved

\* No step makes an approval out of nothing: of a stale copy, a listing, or a
\* send whose outcome only the chain knows.
LEMMA ApprovalNext == TypeOK /\ JobKnown /\ ApprovalInv /\ [Next]_vars => ApprovalInv'
<1> SUFFICES ASSUME TypeOK, JobKnown, ApprovalInv, [Next]_vars PROVE ApprovalInv'
  OBVIOUS
<1> USE DEF books, platform, actors, Locked, Paying
<1>a. Senders \subseteq Actors /\ Drains \subseteq Senders /\ Cli \in Senders /\ Cli \notin Drains
      /\ Sweep \in Actors /\ Boot \in Actors /\ Sweep \notin Drains /\ Boot \notin Drains
  BY DistinctAssumption DEF Senders, Actors, Daemon
<1> DEFINE AtOk == \A b \in Actors : at'[b] \in Paying => job'[b] \in approvedOnce
           SnapOk == \A b \in Actors, j \in Jobs : snap'[b][j] = "approved" => j \in approvedOnce
           TodoOk == \A d \in Drains : todo'[d] \subseteq approvedOnce
           LedgerOk == \A j \in Jobs : ledger'[j] = "approved" => j \in approvedOnce
           SentOk == \A j \in Jobs : sent'[j] > 0 => j \in approvedOnce
<1>q. approvedOnce' = approvedOnce /\ AtOk /\ SnapOk /\ TodoOk /\ LedgerOk /\ SentOk => ApprovalInv'
  BY DEF ApprovalInv, SentWasApproved
<1>0. /\ (at' = at /\ job' = job => AtOk) /\ (snap' = snap => SnapOk)
      /\ (todo' = todo => TodoOk) /\ (ledger' = ledger => LedgerOk) /\ (sent' = sent => SentOk)
  BY DEF ApprovalInv, SentWasApproved
<1>c. ASSUME NEW a \in Actors, Finish(a) PROVE AtOk /\ SnapOk /\ TodoOk
  BY <1>c DEF Finish, ApprovalInv, TypeOK, Nothing
<1>d. ASSUME NEW a \in Actors, NEW p, Goto(a, p), job[a] \in approvedOnce PROVE AtOk /\ SnapOk /\ TodoOk
  BY <1>d DEF Goto, ApprovalInv, TypeOK
<1>e. ASSUME NEW a \in Actors, NEW p, NEW j, NEW left, Begin(a, p, j, left),
             p \notin Paying, a \notin Drains \/ left \subseteq approvedOnce
      PROVE AtOk /\ SnapOk /\ TodoOk
  BY <1>e DEF Begin, ApprovalInv, TypeOK
<1>f. ASSUME NEW a \in Actors, NEW j \in Jobs, NEW s, s # "approved", SaveSnapshot(a, j, s)
      PROVE SnapOk /\ LedgerOk
  BY <1>f DEF SaveSnapshot, ApprovalInv, TypeOK
<1>g. ASSUME NEW a \in Senders, job[a] \in Jobs, Succeeded(a) PROVE AtOk /\ SnapOk /\ TodoOk /\ LedgerOk
  <2>1. CASE a \in Drains
    <3>1. SaveSnapshot(a, job[a], "none") /\ todo' = todo
      BY <1>g, <2>1 DEF Succeeded
    <3>2. AtOk
      BY <1>g, <1>a, <2>1 DEF Succeeded, ApprovalInv, TypeOK
    <3> QED BY <1>a, <1>f, <1>0, <1>g, <3>1, <3>2
  <2>2. CASE a \notin Drains
    BY <1>a, <1>c, <1>g, <2>2 DEF Succeeded, ApprovalInv, TypeOK
  <2> QED BY <2>1, <2>2
<1>h. ASSUME NEW a \in Senders, Failed(a) PROVE AtOk /\ SnapOk /\ TodoOk /\ LedgerOk
  <2>1. CASE a \in Drains
    BY <1>a, <1>h, <1>0, <2>1 DEF Failed, ApprovalInv, TypeOK
  <2>2. CASE a \notin Drains
    BY <1>a, <1>h, <1>0, <1>c, <2>2 DEF Failed
  <2> QED BY <2>1, <2>2
<1>i. ASSUME NEW a \in Senders, at[a] \in Paying PROVE job[a] \in approvedOnce /\ job[a] \in Jobs
  BY <1>a, <1>i DEF ApprovalInv, JobKnown
<1>j. ASSUME NEW a \in Senders, at[a] \in Paying, Landed(job[a]) PROVE SentOk
  BY <1>i, <1>j DEF Landed, ApprovalInv, SentWasApproved, TypeOK
<1>1. ASSUME NEW d \in Drains, DrainBegin(d) PROVE ApprovalInv'
  <2>1. Sendable \subseteq approvedOnce
    BY DEF Sendable, ApprovalInv
  <2>2. Begin(d, "drain", NoJob, Sendable)
    BY <1>1 DEF DrainBegin
  <2>3. AtOk /\ SnapOk /\ TodoOk
    BY <1>a, <1>e, <2>1, <2>2
  <2> QED BY <1>q, <1>0, <1>1, <2>3 DEF DrainBegin
<1>2. ASSUME NEW d \in Drains, DrainNext(d) PROVE ApprovalInv'
  <2>1. AtOk /\ TodoOk
    BY <1>2, <1>a DEF DrainNext, ApprovalInv, TypeOK
  <2> QED BY <1>q, <1>0, <1>2, <2>1 DEF DrainNext
<1>3. ASSUME NEW d \in Drains, DrainEnd(d) PROVE ApprovalInv'
  BY <1>q, <1>0, <1>3, <1>a, <1>c DEF DrainEnd
<1>4. ASSUME NEW a \in Senders, LockTaken(a) \/ NotStarted(a) \/ SendUnfunded(a) PROVE ApprovalInv'
  BY <1>q, <1>0, <1>4, <1>h DEF LockTaken, NotStarted, SendUnfunded
<1>5. ASSUME NEW a \in Senders, AlreadyRefunded(a) \/ Blocked(a) \/ Settle(a) PROVE ApprovalInv'
  BY <1>q, <1>0, <1>5, <1>g, <1>i DEF AlreadyRefunded, Blocked, Settle
<1>6. ASSUME NEW a \in Senders, OpenSession(a) \/ StartSend(a) \/ ClearMarker(a) PROVE ApprovalInv'
  BY <1>q, <1>0, <1>6, <1>a, <1>d, <1>i DEF OpenSession, StartSend, ClearMarker
<1>7. ASSUME NEW a \in Senders, SendReturns(a) PROVE ApprovalInv'
  BY <1>q, <1>0, <1>7, <1>a, <1>d, <1>i, <1>j DEF SendReturns
<1>8. ASSUME NEW a \in Senders, SendUnclear(a) PROVE ApprovalInv'
  BY <1>q, <1>0, <1>8, <1>h, <1>j DEF SendUnclear
<1>9. CASE ReadRefunded
  <2>1. AtOk /\ TodoOk
    BY <1>9, <1>a DEF ReadRefunded, ApprovalInv, TypeOK
  <2> QED BY <1>q, <1>0, <1>9, <2>1 DEF ReadRefunded
<1>10. ASSUME NEW a \in Senders, MarkRefunded(a) PROVE ApprovalInv'
  <2>1. AtOk /\ TodoOk
    BY <1>10, <1>a DEF MarkRefunded, ApprovalInv, TypeOK
  <2> QED BY <1>q, <1>0, <1>10, <2>1 DEF MarkRefunded
<1>11. CASE ApproveBegin \/ UnblockBegin
  BY <1>q, <1>0, <1>11, <1>a, <1>e DEF ApproveBegin, UnblockBegin
<1>12. CASE ApproveStops \/ Unblock
  BY <1>q, <1>0, <1>12, <1>a, <1>c DEF ApproveStops, Unblock
<1>13. CASE ApproveRefused
  <2>1. LedgerOk
    BY <1>13, <1>a DEF ApproveRefused, ApprovalInv, TypeOK
  <2> QED BY <1>q, <1>0, <1>13, <1>a, <1>c, <2>1 DEF ApproveRefused
<1>14. CASE ApproveConfirmed
  <2>1. job[Cli] \in Jobs /\ approvedOnce' = approvedOnce \cup {job[Cli]}
    BY <1>14, <1>a DEF ApproveConfirmed, JobKnown
  <2>2. \A j \in Jobs : ledger'[j] = "approved" => j \in approvedOnce'
    BY <1>14, <1>a, <2>1 DEF ApproveConfirmed, SaveSnapshot, ApprovalInv, TypeOK
  <2>3. \A b \in Actors, j \in Jobs : snap'[b][j] = "approved" => j \in approvedOnce'
    BY <1>14, <1>a, <2>1 DEF ApproveConfirmed, SaveSnapshot, ApprovalInv, TypeOK
  <2>4. \A b \in Actors : at'[b] \in Paying => job'[b] \in approvedOnce'
    BY <1>14, <1>a, <2>1 DEF ApproveConfirmed, ApprovalInv, TypeOK
  <2>5. \A d \in Drains : todo'[d] \subseteq approvedOnce'
    BY <1>14, <2>1 DEF ApproveConfirmed, ApprovalInv
  <2> QED BY <1>14, <2>1, <2>2, <2>3, <2>4, <2>5
      DEF ApproveConfirmed, ApprovalInv, SentWasApproved
<1>15. CASE Reject
  <2>1. LedgerOk
    BY <1>15 DEF Reject, ApprovalInv, TypeOK
  <2> QED BY <1>q, <1>0, <1>15, <2>1 DEF Reject
<1>16. CASE SweepBegin \/ BootBegin
  BY <1>q, <1>0, <1>16, <1>a, <1>e DEF SweepBegin, BootBegin
<1>17. CASE SweepResponds
  <2>1. PICK j \in todo[Sweep] :
           /\ todo' = [todo EXCEPT ![Sweep] = @ \ {j}]
           /\ \/ \E status \in {"pending_approval", "needs_review"} : SaveSnapshot(Sweep, j, status)
              \/ UNCHANGED <<ledger, snap>>
    BY <1>17 DEF SweepResponds
  <2>2. SnapOk /\ LedgerOk
    BY <1>a, <1>f, <1>0, <2>1 DEF TypeOK
  <2>3. TodoOk
    BY <1>a, <2>1 DEF ApprovalInv, TypeOK
  <2> QED BY <1>q, <1>0, <1>17, <2>2, <2>3 DEF SweepResponds
<1>18. CASE SweepEnd
  BY <1>q, <1>0, <1>18, <1>a, <1>c DEF SweepEnd
<1>19. CASE BootPromotes
  <2>1. LedgerOk
    BY <1>19, <1>a DEF BootPromotes, ApprovalInv, TypeOK
  <2>2. SnapOk /\ TodoOk /\ AtOk
    BY <1>19, <1>a, <2>1 DEF BootPromotes, ApprovalInv, TypeOK
  <2> QED BY <1>q, <1>0, <1>19, <2>1, <2>2 DEF BootPromotes
<1>20. CASE BootRecovers
  <2>1. LedgerOk
    BY <1>20, <1>a DEF BootRecovers, ApprovalInv, TypeOK
  <2> QED BY <1>q, <1>0, <1>20, <1>a, <1>c, <2>1 DEF BootRecovers
<1>21. CASE AbandonJob
  <2>1. LedgerOk
    BY <1>21 DEF AbandonJob, ApprovalInv, TypeOK
  <2> QED BY <1>q, <1>0, <1>21, <2>1 DEF AbandonJob
<1>22. CASE JobEnds \/ DisputeOpens \/ AllowlistLost
  BY <1>q, <1>0, <1>22 DEF JobEnds, DisputeOpens, AllowlistLost
<1>23. ASSUME NEW P \in SUBSET Actors, Dies(P) PROVE ApprovalInv'
  <2>1. AtOk /\ SnapOk /\ TodoOk
    BY <1>23, <1>a DEF Dies, ApprovalInv, TypeOK, Nothing
  <2>2. SentOk
    BY <1>23 DEF Dies, ApprovalInv, TypeOK, SentWasApproved
  <2> QED BY <1>q, <1>0, <1>23, <2>1, <2>2 DEF Dies
<1>24. CASE DaemonDies \/ CliDies
  BY <1>23, <1>24 DEF DaemonDies, CliDies, Actors
<1>25. CASE UNCHANGED vars
  BY <1>q, <1>0, <1>25 DEF vars
<1> QED
  BY <1>1, <1>2, <1>3, <1>4, <1>5, <1>6, <1>7, <1>8, <1>9, <1>10, <1>11, <1>12, <1>13, <1>14,
     <1>15, <1>16, <1>17, <1>18, <1>19, <1>20, <1>21, <1>22, <1>24, <1>25
  DEF Next, DrainSteps, AttemptSteps, CliSteps, EnqueueSteps, Environment

-----------------------------------------------------------------------------
(* The send lock *)

\* An actor between acquireSendLock and its finally holds the lock of its job.
LockInv == \A a \in Actors : at[a] \in Locked => lock[job[a]] = a

\* Nobody takes a lock that is held, and deaths leave the locks of the living.
LEMMA LockNext == TypeOK /\ JobKnown /\ LockInv /\ [Next]_vars => LockInv'
<1> SUFFICES ASSUME TypeOK, JobKnown, LockInv, [Next]_vars, NEW b \in Actors, at'[b] \in Locked
             PROVE  lock'[job'[b]] = b
  BY DEF LockInv
<1> USE DEF books, platform, actors, Locked
<1>a. Senders \subseteq Actors /\ Drains \subseteq Senders /\ Cli \in Senders
      /\ Sweep \in Actors /\ Boot \in Actors /\ Free \notin Actors /\ Dead \notin Actors
  BY DistinctAssumption DEF Senders, Actors, Daemon
<1>b. at[b] \in Locked => lock[job[b]] = b /\ job[b] \in Jobs
  BY DEF LockInv, JobKnown
<1>c. ASSUME NEW a \in Actors, Finish(a) PROVE b # a /\ at[b] \in Locked /\ job'[b] = job[b]
  BY <1>c DEF Finish, TypeOK
<1>d. ASSUME NEW a \in Senders, Succeeded(a) \/ Failed(a)
      PROVE  b # a /\ at[b] \in Locked /\ job'[b] = job[b]
  BY <1>a, <1>c, <1>d DEF Succeeded, Failed, TypeOK
<1>e. ASSUME NEW a \in Actors, NEW j \in Jobs, Release(a, j), b # a, at[b] \in Locked, job'[b] = job[b]
      PROVE  lock'[job'[b]] = b
  BY <1>b, <1>e DEF Release, TypeOK
<1>f. ASSUME NEW a \in Actors, NEW p, NEW j, NEW left, Begin(a, p, j, left), p \notin Locked
      PROVE  at[b] \in Locked /\ job'[b] = job[b]
  BY <1>f DEF Begin, TypeOK
<1>1. ASSUME NEW d \in Drains, DrainBegin(d) \/ DrainNext(d) \/ DrainEnd(d) PROVE lock'[job'[b]] = b
  BY <1>1, <1>a, <1>b, <1>c, <1>f DEF DrainBegin, DrainNext, DrainEnd, TypeOK
<1>2. ASSUME NEW a \in Senders, LockTaken(a) PROVE lock'[job'[b]] = b
  BY <1>2, <1>b, <1>d DEF LockTaken
<1>3. ASSUME NEW a \in Senders, AlreadyRefunded(a) PROVE lock'[job'[b]] = b
  BY <1>3, <1>a, <1>b, <1>d DEF AlreadyRefunded, Lockable, TypeOK
<1>4. ASSUME NEW a \in Senders,
             NotStarted(a) \/ Blocked(a) \/ SendUnclear(a) \/ SendUnfunded(a) \/ Settle(a)
      PROVE  lock'[job'[b]] = b
  <2>1. job[a] \in Jobs
    BY <1>4, <1>a DEF NotStarted, Blocked, SendUnclear, SendUnfunded, Settle, JobKnown
  <2> QED BY <1>4, <1>a, <1>d, <1>e, <2>1 DEF NotStarted, Blocked, SendUnclear, SendUnfunded, Settle
<1>5. ASSUME NEW a \in Senders, OpenSession(a) PROVE lock'[job'[b]] = b
  <2>1. job[a] \in Jobs /\ lock' = [lock EXCEPT ![job[a]] = a] /\ job' = job
    BY <1>5, <1>a DEF OpenSession, JobKnown, Goto
  <2>2. CASE b = a
    BY <2>1, <2>2 DEF TypeOK
  <2>3. CASE b # a
    BY <1>5, <1>a, <1>b, <2>1, <2>3 DEF OpenSession, Goto, Lockable, TypeOK
  <2> QED BY <2>2, <2>3
<1>6. ASSUME NEW a \in Senders, StartSend(a) \/ SendReturns(a) \/ ClearMarker(a)
      PROVE lock'[job'[b]] = b
  BY <1>6, <1>a, <1>b DEF StartSend, SendReturns, ClearMarker, Goto, TypeOK
<1>7. CASE ReadRefunded \/ (\E a \in Senders : MarkRefunded(a))
  BY <1>7, <1>a, <1>b DEF ReadRefunded, MarkRefunded, TypeOK
<1>8. CASE ApproveBegin \/ UnblockBegin \/ SweepBegin \/ BootBegin
  BY <1>8, <1>a, <1>b, <1>f DEF ApproveBegin, UnblockBegin, SweepBegin, BootBegin
<1>9. CASE ApproveStops \/ ApproveRefused \/ SweepEnd \/ BootRecovers
  BY <1>9, <1>a, <1>b, <1>c DEF ApproveStops, ApproveRefused, SweepEnd, BootRecovers
<1>10. CASE Unblock
  BY <1>10, <1>a, <1>b, <1>c DEF Unblock, Lockable, TypeOK
<1>11. CASE ApproveConfirmed
  BY <1>11, <1>a, <1>b DEF ApproveConfirmed, TypeOK
<1>12. CASE Reject \/ AbandonJob \/ JobEnds \/ DisputeOpens \/ AllowlistLost \/ SweepResponds
  BY <1>12, <1>b DEF Reject, AbandonJob, JobEnds, DisputeOpens, AllowlistLost, SweepResponds
<1>13. CASE BootPromotes
  BY <1>13, <1>a, <1>b DEF BootPromotes, TypeOK
<1>14. CASE DaemonDies \/ CliDies
  BY <1>14, <1>b DEF DaemonDies, CliDies, Dies
<1>15. CASE UNCHANGED vars
  BY <1>15, <1>b DEF vars
<1> QED
  BY <1>1, <1>2, <1>3, <1>4, <1>5, <1>6, <1>7, <1>8, <1>9, <1>10, <1>11, <1>12, <1>13, <1>14, <1>15
  DEF Next, DrainSteps, AttemptSteps, CliSteps, EnqueueSteps, Environment

-----------------------------------------------------------------------------
(* Taking turns *)

\* Nobody else is on the way, and so the copy of the ledger an
\* actor works on is the ledger.
Alone == \A a, b \in Actors : at[a] # "idle" /\ at[b] # "idle" => a = b
Current == \A a \in Actors : at[a] # "idle" => snap[a] = ledger

\* When the actors take turns every step keeps these two.
LEMMA CurrentNext ==
    ASSUME Serial = TRUE, TypeOK, JobKnown, Alone, Current, [Next]_vars PROVE Alone' /\ Current'
<1> USE DEF books, platform, actors
<1>a. Senders \subseteq Actors /\ Drains \subseteq Senders /\ Cli \in Senders /\ Cli \notin Drains
      /\ Sweep \in Actors /\ Boot \in Actors
  BY DistinctAssumption DEF Senders, Actors, Daemon
<1>c. ASSUME NEW a \in Actors, Finish(a), at[a] # "idle" PROVE \A x \in Actors : at'[x] = "idle"
  BY <1>c DEF Finish, TypeOK, Alone
<1>d. ASSUME \A x \in Actors : at'[x] = "idle" PROVE Alone' /\ Current'
  BY <1>d DEF Alone, Current
<1>e. ASSUME NEW a \in Actors, at[a] # "idle", \A x \in Actors \ {a} : at'[x] = at[x], snap'[a] = ledger'
      PROVE Alone' /\ Current'
  BY <1>e DEF Alone, Current
<1>f. ASSUME NEW a \in Actors, NEW p, NEW j, NEW left, Begin(a, p, j, left), ledger' = ledger
      PROVE Alone' /\ Current'
  BY <1>f DEF Begin, MayBegin, TypeOK, Alone, Current
<1>g. ASSUME at' = at, snap' = snap, ledger' = ledger PROVE Alone' /\ Current'
  BY <1>g DEF Alone, Current
<1>h. ASSUME at' = at, \A x \in Actors : at[x] = "idle" PROVE Alone' /\ Current'
  BY <1>h DEF Alone, Current
<1>i. ASSUME NEW a \in Senders, at[a] # "idle", Succeeded(a) PROVE Alone' /\ Current'
  <2>1. CASE a \in Drains
    BY <1>a, <1>e, <1>i, <2>1 DEF Succeeded, SaveSnapshot, TypeOK
  <2>2. CASE a \notin Drains
    BY <1>a, <1>c, <1>d, <1>i, <2>2 DEF Succeeded
  <2> QED BY <2>1, <2>2
<1>j. ASSUME NEW a \in Senders, at[a] # "idle", Failed(a) PROVE Alone' /\ Current'
  <2>1. CASE a \in Drains
    BY <1>a, <1>e, <1>j, <2>1 DEF Failed, TypeOK, Current
  <2>2. CASE a \notin Drains
    BY <1>a, <1>c, <1>d, <1>j, <2>2 DEF Failed
  <2> QED BY <2>1, <2>2
<1>k. ASSUME NEW a \in Actors, at[a] # "idle", NEW p, at' = [at EXCEPT ![a] = p], snap' = snap, ledger' = ledger
      PROVE Alone' /\ Current'
  BY <1>e, <1>k DEF Current, TypeOK
<1>1. ASSUME NEW d \in Drains, DrainBegin(d) \/ DrainNext(d) \/ DrainEnd(d) PROVE Alone' /\ Current'
  BY <1>1, <1>a, <1>c, <1>d, <1>f, <1>k DEF DrainBegin, DrainNext, DrainEnd
<1>2. ASSUME NEW a \in Senders, LockTaken(a) \/ NotStarted(a) \/ SendUnfunded(a) \/ SendUnclear(a)
      PROVE Alone' /\ Current'
  BY <1>2, <1>j DEF LockTaken, NotStarted, SendUnfunded, SendUnclear
<1>3. ASSUME NEW a \in Senders, AlreadyRefunded(a) \/ Blocked(a) \/ Settle(a) PROVE Alone' /\ Current'
  BY <1>3, <1>i DEF AlreadyRefunded, Blocked, Settle
<1>4. ASSUME NEW a \in Senders, OpenSession(a) \/ StartSend(a) \/ SendReturns(a) \/ ClearMarker(a)
      PROVE Alone' /\ Current'
  BY <1>4, <1>a, <1>k DEF OpenSession, StartSend, SendReturns, ClearMarker, Goto
<1>5. ASSUME NEW a \in Senders, MarkRefunded(a) PROVE Alone' /\ Current'
  BY <1>5, <1>a, <1>k DEF MarkRefunded
<1>6. CASE ReadRefunded
  BY <1>6, <1>a, <1>k DEF ReadRefunded
<1>7. CASE ApproveBegin \/ UnblockBegin \/ SweepBegin \/ BootBegin
  BY <1>7, <1>a, <1>f DEF ApproveBegin, UnblockBegin, SweepBegin, BootBegin
<1>8. CASE ApproveStops \/ ApproveRefused \/ Unblock \/ SweepEnd \/ BootRecovers
  BY <1>8, <1>a, <1>c, <1>d DEF ApproveStops, ApproveRefused, Unblock, SweepEnd, BootRecovers
<1>9. CASE ApproveConfirmed
  BY <1>9, <1>a, <1>e DEF ApproveConfirmed, SaveSnapshot, TypeOK
<1>10. CASE Reject \/ AbandonJob
  BY <1>10, <1>h DEF Reject, MayBegin, AbandonJob
<1>11. CASE JobEnds \/ DisputeOpens \/ AllowlistLost
  BY <1>11, <1>g DEF JobEnds, DisputeOpens, AllowlistLost
<1>12. CASE SweepResponds
  BY <1>12, <1>a, <1>e, <1>g DEF SweepResponds, SaveSnapshot, TypeOK
<1>13. CASE BootPromotes
  BY <1>13, <1>a, <1>e DEF BootPromotes, TypeOK
<1>14. CASE DaemonDies \/ CliDies
  BY <1>14 DEF DaemonDies, CliDies, Dies, Alone, Current
<1>15. CASE UNCHANGED vars
  BY <1>15, <1>g DEF vars
<1> QED
  BY <1>1, <1>2, <1>3, <1>4, <1>5, <1>6, <1>7, <1>8, <1>9, <1>10, <1>11, <1>12, <1>13, <1>14, <1>15
  DEF Next, DrainSteps, AttemptSteps, CliSteps, EnqueueSteps, Environment

\* What has been done about a job at each point of its payment.
\* What a drain has listed has no marker, and is not the job it works on.
Listed(a) == todo[a] \cap marker = {} /\ job[a] \notin todo[a]
PointInv(a) ==
    /\ a \in Drains /\ at[a] # "idle" => Listed(a)
    /\ at[a] \in {"verify", "attempt", "session"} => job[a] \notin marker
    /\ at[a] \in {"session", "sending"} => job[a] \notin refunded
    /\ at[a] \in {"sending", "unblock"} => sent[job[a]] = 0
    /\ at[a] \in {"sending", "marking", "marking2"} => job[a] \in marker
    /\ at[a] = "marking2" => todo[a] = refunded
    /\ at[a] \in {"marked", "settling"} => job[a] \in refunded
Books == NeverPaidTwice /\ SentIsRecorded
PaidInv == (\A a \in Actors : PointInv(a)) /\ Books

\* When the actors take turns every step keeps the books in order.
LEMMA PaidNext ==
    ASSUME Serial = TRUE, TypeOK, JobKnown, Alone, PaidInv, [Next]_vars PROVE PaidInv'
<1> USE DEF books, platform, actors, Locked
<1>a. Senders \subseteq Actors /\ Drains \subseteq Senders /\ Cli \in Senders /\ Cli \notin Drains
      /\ Sweep \in Actors /\ Boot \in Actors /\ Sweep \notin Drains /\ Boot \notin Drains
  BY DistinctAssumption DEF Senders, Actors, Daemon
<1>b. \A a \in Actors : at[a] \in {"attempt", "verify", "unblock"} \cup Locked => job[a] \in Jobs
  BY DEF JobKnown
<1>c. ASSUME NEW a \in Actors, at[a] # "idle", Finish(a), Books' PROVE PaidInv'
  BY <1>c DEF Finish, TypeOK, Alone, PaidInv, PointInv
<1>d. ASSUME NEW a \in Actors, at[a] # "idle", \A x \in Actors \ {a} : at'[x] = at[x],
             PointInv(a)', Books'
      PROVE PaidInv'
  BY <1>d DEF Alone, PaidInv, PointInv
<1>e. ASSUME NEW a \in Actors, NEW p, NEW j, NEW left, Begin(a, p, j, left),
             PointInv(a)', Books'
      PROVE PaidInv'
  BY <1>e DEF Begin, MayBegin, TypeOK, PaidInv, PointInv
<1>f. ASSUME UNCHANGED <<marker, refunded, sent, at, job, todo>> PROVE PaidInv'
  BY <1>f DEF PaidInv, PointInv, Listed, Books, NeverPaidTwice, SentIsRecorded
<1>g. ASSUME UNCHANGED <<marker, refunded, sent>> PROVE Books'
  BY <1>g DEF PaidInv, Books, NeverPaidTwice, SentIsRecorded
<1>h. ASSUME NEW a \in Senders, at[a] # "idle", Succeeded(a) \/ Failed(a), Books',
             a \in Drains => todo[a] \cap marker' = {}
      PROVE PaidInv'
  <2>1. CASE a \in Drains
    <3>1. at'[a] = "drain" /\ job'[a] = NoJob /\ todo' = todo
          /\ \A x \in Actors \ {a} : at'[x] = at[x]
      BY <1>a, <1>h, <2>1 DEF Succeeded, Failed, TypeOK
    <3>2. PointInv(a)'
      BY <1>a, <1>h, <2>1, <3>1, NoJobAssumption DEF PointInv, Listed, TypeOK
    <3> QED BY <1>a, <1>d, <1>h, <3>1, <3>2
  <2>2. CASE a \notin Drains
    BY <1>a, <1>c, <1>h, <2>2 DEF Succeeded, Failed
  <2> QED BY <2>1, <2>2
<1>i. ASSUME NEW a \in Actors PROVE PointInv(a)
  BY DEF PaidInv
<1>1. ASSUME NEW d \in Drains, DrainBegin(d) PROVE PaidInv'
  <2>1. PointInv(d)'
    BY <1>1, <1>a, NoJobAssumption DEF DrainBegin, Begin, Sendable, PointInv, Listed, TypeOK
  <2> QED BY <1>1, <1>a, <1>e, <1>g, <2>1 DEF DrainBegin
<1>2. ASSUME NEW d \in Drains, DrainNext(d) PROVE PaidInv'
  <2>1. PointInv(d)'
    BY <1>2, <1>a, <1>i DEF DrainNext, PointInv, Listed, TypeOK
  <2> QED BY <1>2, <1>a, <1>d, <1>g, <2>1 DEF DrainNext, TypeOK
<1>3. ASSUME NEW d \in Drains, DrainEnd(d) PROVE PaidInv'
  BY <1>3, <1>a, <1>c, <1>g DEF DrainEnd
<1>4. ASSUME NEW a \in Senders,
             LockTaken(a) \/ AlreadyRefunded(a) \/ NotStarted(a) \/ Blocked(a) \/ Settle(a)
      PROVE PaidInv'
  BY <1>4, <1>a, <1>g, <1>h, <1>i
     DEF LockTaken, AlreadyRefunded, NotStarted, Blocked, Settle, PointInv, Listed
<1>5. ASSUME NEW a \in Senders, OpenSession(a) PROVE PaidInv'
  <2>1. PointInv(a)'
    BY <1>5, <1>a, <1>i DEF OpenSession, Goto, PointInv, Listed, TypeOK
  <2> QED BY <1>5, <1>a, <1>d, <1>g, <2>1 DEF OpenSession, Goto, TypeOK
<1>6. ASSUME NEW a \in Senders, StartSend(a) PROVE PaidInv'
  <2>1. job[a] \in Jobs /\ sent[job[a]] = 0
    BY <1>6, <1>a, <1>b, <1>i DEF StartSend, PointInv, PaidInv, Books, SentIsRecorded, TypeOK
  <2>2. PointInv(a)'
    BY <1>6, <1>a, <1>i, <2>1 DEF StartSend, Goto, PointInv, Listed, TypeOK
  <2>3. Books'
    BY <1>6 DEF StartSend, PaidInv, Books, NeverPaidTwice, SentIsRecorded
  <2> QED BY <1>6, <1>a, <1>d, <2>2, <2>3 DEF StartSend, Goto, TypeOK
<1>7. ASSUME NEW a \in Senders, at[a] = "sending", Landed(job[a]), marker' = marker,
             refunded' = refunded
      PROVE Books'
  <2>1. job[a] \in Jobs /\ sent[job[a]] = 0 /\ job[a] \in marker
    BY <1>7, <1>a, <1>b, <1>i DEF PointInv
  <2> QED BY <1>7, <2>1 DEF Landed, PaidInv, Books, NeverPaidTwice, SentIsRecorded, TypeOK
<1>8. ASSUME NEW a \in Senders, SendReturns(a) PROVE PaidInv'
  <2>1. PointInv(a)'
    BY <1>8, <1>a, <1>i DEF SendReturns, Goto, PointInv, Listed, TypeOK
  <2>2. Books'
    BY <1>7, <1>8 DEF SendReturns
  <2> QED BY <1>8, <1>a, <1>d, <2>1, <2>2 DEF SendReturns, Goto, TypeOK
<1>9. ASSUME NEW a \in Senders, SendUnclear(a) PROVE PaidInv'
  BY <1>7, <1>9, <1>a, <1>g, <1>h, <1>i DEF SendUnclear, PointInv, Listed
<1>10. ASSUME NEW a \in Senders, SendUnfunded(a) PROVE PaidInv'
  <2>1. job[a] \in Jobs /\ sent[job[a]] = 0
    BY <1>10, <1>a, <1>b, <1>i DEF SendUnfunded, PointInv
  <2>2. Books'
    BY <1>10, <2>1 DEF SendUnfunded, PaidInv, Books, NeverPaidTwice, SentIsRecorded
  <2> QED BY <1>10, <1>a, <1>h, <1>i, <2>2 DEF SendUnfunded, PointInv, Listed
<1>11. CASE ReadRefunded
  <2>1. PointInv(Cli)'
    BY <1>11, <1>a, <1>i DEF ReadRefunded, PointInv, TypeOK
  <2> QED BY <1>11, <1>a, <1>d, <1>g, <2>1 DEF ReadRefunded, TypeOK
<1>12. ASSUME NEW a \in Senders, MarkRefunded(a) PROVE PaidInv'
  <2>1. refunded' = refunded \cup {job[a]}
    BY <1>12, <1>a, <1>i DEF MarkRefunded, PointInv
  <2>2. PointInv(a)'
    BY <1>12, <1>a, <1>i, <2>1 DEF MarkRefunded, PointInv, Listed, TypeOK
  <2>3. Books'
    BY <1>12, <2>1 DEF MarkRefunded, PaidInv, Books, NeverPaidTwice, SentIsRecorded
  <2> QED BY <1>12, <1>a, <1>d, <2>2, <2>3 DEF MarkRefunded, TypeOK
<1>13. ASSUME NEW a \in Senders, ClearMarker(a) PROVE PaidInv'
  <2>1. job[a] \in refunded
    BY <1>13, <1>a, <1>i DEF ClearMarker, PointInv
  <2>2. PointInv(a)'
    BY <1>13, <1>a, <1>i DEF ClearMarker, Goto, PointInv, Listed, TypeOK
  <2>3. Books'
    BY <1>13, <2>1 DEF ClearMarker, PaidInv, Books, NeverPaidTwice, SentIsRecorded
  <2> QED BY <1>13, <1>a, <1>d, <2>2, <2>3 DEF ClearMarker, Goto, TypeOK
<1>14. CASE ApproveBegin \/ UnblockBegin
  <2>1. PointInv(Cli)'
    BY <1>14, <1>a DEF ApproveBegin, UnblockBegin, Begin, PointInv, TypeOK
  <2> QED BY <1>14, <1>a, <1>e, <1>g, <2>1 DEF ApproveBegin, UnblockBegin
<1>15. CASE ApproveStops \/ ApproveRefused \/ SweepEnd \/ BootRecovers
  BY <1>15, <1>a, <1>c, <1>g DEF ApproveStops, ApproveRefused, SweepEnd, BootRecovers
<1>16. CASE ApproveConfirmed
  <2>1. PointInv(Cli)'
    BY <1>16, <1>a, <1>i DEF ApproveConfirmed, PointInv, TypeOK
  <2> QED BY <1>16, <1>a, <1>d, <1>g, <2>1 DEF ApproveConfirmed, TypeOK
<1>17. CASE Unblock
  <2>1. job[Cli] \in Jobs /\ sent[job[Cli]] = 0
    BY <1>17, <1>a, <1>b, <1>i DEF Unblock, PointInv
  <2>2. Books'
    BY <1>17, <2>1 DEF Unblock, PaidInv, Books, NeverPaidTwice, SentIsRecorded
  <2> QED BY <1>17, <1>a, <1>c, <2>2 DEF Unblock
<1>18. CASE Reject \/ AbandonJob \/ JobEnds \/ DisputeOpens \/ AllowlistLost
  BY <1>18, <1>f DEF Reject, AbandonJob, JobEnds, DisputeOpens, AllowlistLost
<1>19. CASE SweepBegin \/ BootBegin
  <2>1. ASSUME NEW a \in {Sweep, Boot}, NEW p \in {"respond", "promote"}, NEW left,
               Begin(a, p, NoJob, left)
        PROVE PointInv(a)'
    BY <2>1, <1>a DEF Begin, PointInv, TypeOK
  <2> QED BY <1>19, <1>a, <1>e, <1>g, <2>1 DEF SweepBegin, BootBegin
<1>20. CASE SweepResponds
  <2>1. PointInv(Sweep)'
    BY <1>20, <1>a DEF SweepResponds, PointInv
  <2> QED BY <1>20, <1>a, <1>d, <1>g, <2>1 DEF SweepResponds
<1>21. CASE BootPromotes
  <2>1. PointInv(Boot)'
    BY <1>21, <1>a DEF BootPromotes, PointInv, TypeOK
  <2> QED BY <1>21, <1>a, <1>d, <1>g, <2>1 DEF BootPromotes, TypeOK
<1>22. ASSUME NEW P \in SUBSET Actors, Dies(P) PROVE PaidInv'
  <2>1. Books'
    <3>1. \A j \in Jobs : sent'[j] # sent[j]
             => sent[j] = 0 /\ sent'[j] = 1 /\ j \in marker
      BY <1>22, <1>i DEF Dies, PointInv, TypeOK
    <3> QED BY <1>22, <3>1 DEF Dies, PaidInv, Books, NeverPaidTwice, SentIsRecorded, TypeOK
  <2>2. ASSUME NEW x \in Actors PROVE PointInv(x)'
    <3>1. CASE x \in P \/ at[x] = "idle"
      BY <1>22, <3>1 DEF Dies, PointInv
    <3>2. CASE x \notin P /\ at[x] # "idle"
      <4>1. \A y \in P : at[y] # "sending"
        BY <3>2 DEF Alone
      <4>2. \A j \in Jobs : sent'[j] = sent[j]
        BY <1>22, <4>1 DEF Dies
      <4> QED BY <1>22, <1>b, <1>i, <3>2, <4>2 DEF Dies, PointInv, Listed
    <3> QED BY <3>1, <3>2
  <2> QED BY <2>1, <2>2 DEF PaidInv
<1>23. CASE DaemonDies \/ CliDies
  BY <1>22, <1>23 DEF DaemonDies, CliDies, Actors
<1>24. CASE UNCHANGED vars
  BY <1>24, <1>f DEF vars
<1> QED
  BY <1>1, <1>2, <1>3, <1>4, <1>5, <1>6, <1>8, <1>9, <1>10, <1>11, <1>12, <1>13, <1>14,
     <1>15, <1>16, <1>17, <1>18, <1>19, <1>20, <1>21, <1>23, <1>24
  DEF Next, DrainSteps, AttemptSteps, CliSteps, EnqueueSteps, Environment

\* A step that takes an owed refund out of the ledger is the end of a payment,
\* or of an attempt with an address that is not allowed.
LEMMA OwedStep ==
    ASSUME TypeOK, JobKnown, Current, PaidInv, Next, NEW j \in Jobs,
           ledger[j] \in {"pending_approval", "needs_review", "approved"}, ledger'[j] = "none"
    PROVE  j \in refunded \/ j \notin listed
<1> USE DEF books, platform, actors, Locked
<1>a. Senders \subseteq Actors /\ Drains \subseteq Senders /\ Cli \in Senders
      /\ Sweep \in Actors /\ Boot \in Actors
  BY DEF Senders, Actors, Daemon
<1>b. ledger'[j] # ledger[j]
  OBVIOUS
<1>c. ASSUME NEW a \in Senders, Succeeded(a), at[a] # "idle" PROVE job[a] = j
  <2>1. CASE a \in Drains
    BY <1>a, <1>b, <1>c, <2>1 DEF Succeeded, SaveSnapshot, Current, TypeOK
  <2>2. CASE a \notin Drains
    BY <1>a, <1>b, <1>c, <2>2 DEF Succeeded, TypeOK
  <2> QED BY <2>1, <2>2
<1>d. ASSUME NEW a \in Senders, Failed(a) PROVE FALSE
  BY <1>b, <1>d DEF Failed
<1>1. ASSUME NEW d \in Drains, DrainBegin(d) \/ DrainNext(d) \/ DrainEnd(d) PROVE FALSE
  BY <1>1, <1>b DEF DrainBegin, DrainNext, DrainEnd
<1>2. ASSUME NEW a \in Senders, LockTaken(a) \/ NotStarted(a) \/ SendUnfunded(a) \/ SendUnclear(a)
      PROVE FALSE
  BY <1>2, <1>d DEF LockTaken, NotStarted, SendUnfunded, SendUnclear
<1>3. ASSUME NEW a \in Senders, AlreadyRefunded(a) \/ Blocked(a) \/ Settle(a)
      PROVE j \in refunded \/ j \notin listed
  <2>1. job[a] = j
    BY <1>3, <1>c DEF AlreadyRefunded, Blocked, Settle
  <2> QED BY <1>3, <1>a, <2>1 DEF AlreadyRefunded, Blocked, Settle, PaidInv, PointInv
<1>4. ASSUME NEW a \in Senders, OpenSession(a) \/ StartSend(a) \/ SendReturns(a) \/ ClearMarker(a)
                                \/ MarkRefunded(a)
      PROVE FALSE
  BY <1>4, <1>b DEF OpenSession, StartSend, SendReturns, ClearMarker, MarkRefunded
<1>5. CASE ReadRefunded \/ ApproveBegin \/ UnblockBegin \/ ApproveStops \/ Unblock
  BY <1>5, <1>b DEF ReadRefunded, ApproveBegin, UnblockBegin, ApproveStops, Unblock
<1>6. CASE ApproveRefused \/ ApproveConfirmed
  BY <1>6, <1>a, <1>b DEF ApproveRefused, ApproveConfirmed, SaveSnapshot, Current, TypeOK
<1>7. CASE Reject \/ AbandonJob
  BY <1>7, <1>b DEF Reject, AbandonJob, TypeOK
<1>8. CASE SweepBegin \/ SweepEnd \/ BootBegin
  BY <1>8, <1>b DEF SweepBegin, SweepEnd, BootBegin
<1>9. CASE SweepResponds
  <2>1. PICK k \in todo[Sweep] :
           \/ \E status \in {"pending_approval", "needs_review"} : SaveSnapshot(Sweep, k, status)
           \/ ledger' = ledger
    BY <1>9 DEF SweepResponds
  <2> QED BY <1>9, <1>a, <1>b, <2>1 DEF SweepResponds, SaveSnapshot, Current, TypeOK
<1>10. CASE BootPromotes \/ BootRecovers
  BY <1>10, <1>a, <1>b DEF BootPromotes, BootRecovers, Current, TypeOK
<1>11. CASE JobEnds \/ DisputeOpens \/ AllowlistLost \/ DaemonDies \/ CliDies
  BY <1>11, <1>b DEF JobEnds, DisputeOpens, AllowlistLost, DaemonDies, CliDies, Dies
<1> QED
  BY <1>1, <1>2, <1>3, <1>4, <1>5, <1>6, <1>7, <1>8, <1>9, <1>10, <1>11
  DEF Next, DrainSteps, AttemptSteps, CliSteps, EnqueueSteps, Environment

-----------------------------------------------------------------------------
(* Theorems *)

\* Two senders are never between the lock and its release for one job.
OnePerJob == \A a, b \in Actors : at[a] \in Locked /\ at[b] \in Locked /\ job[a] = job[b] => a = b

\* A fresh queue satisfies every invariant.
LEMMA InitOk == Init => TypeOK /\ JobKnown /\ ApprovalInv /\ LockInv /\ Alone /\ Current /\ PaidInv
<1> SUFFICES ASSUME Init PROVE TypeOK /\ JobKnown /\ ApprovalInv /\ LockInv /\ Alone /\ Current /\ PaidInv
  OBVIOUS
<1> USE DEF Init, Nothing
<1>1. TypeOK
  BY BoundsAssumption, DistinctAssumption DEF TypeOK, Statuses, Disputes, Points
<1>2. \A a \in Actors : at[a] = "idle"
  OBVIOUS
<1>3. JobKnown /\ LockInv /\ Alone /\ Current
  BY <1>2 DEF JobKnown, LockInv, Alone, Current, Locked
<1>4. ApprovalInv
  BY <1>2 DEF ApprovalInv, Paying, Locked, SentWasApproved, Senders, Actors, Daemon
<1>5. PaidInv
  BY <1>2 DEF PaidInv, PointInv, Books, NeverPaidTwice, SentIsRecorded
<1> QED BY <1>1, <1>3, <1>4, <1>5

\* The files and the actors' memories hold what their types say.
THEOREM TypeCorrect == Spec => []TypeOK
<1>1. Init => TypeOK /\ JobKnown
  BY InitOk
<1>2. TypeOK /\ JobKnown /\ [Next]_vars => (TypeOK /\ JobKnown)'
  BY TypeNext, KnownNext
<1> QED BY <1>1, <1>2, PTL DEF Spec

\* No money leaves without the operator's approval of that job, however the
\* actors interleave, whatever copies of the ledger they write back, whenever
\* they die.
THEOREM PaidOnlyWhenApproved == Spec => []SentWasApproved
<1>1. Init => TypeOK /\ JobKnown /\ ApprovalInv
  BY InitOk
<1>2. TypeOK /\ JobKnown /\ ApprovalInv /\ [Next]_vars => (TypeOK /\ JobKnown /\ ApprovalInv)'
  BY TypeNext, KnownNext, ApprovalNext
<1>3. ApprovalInv => SentWasApproved
  BY DEF ApprovalInv
<1> QED BY <1>1, <1>2, <1>3, PTL DEF Spec

\* Never do two senders hold the send lock of one job, however they interleave
\* and die.
THEOREM OneSenderPerJob == Spec => []OnePerJob
<1>1. Init => TypeOK /\ JobKnown /\ LockInv
  BY InitOk
<1>2. TypeOK /\ JobKnown /\ LockInv /\ [Next]_vars => (TypeOK /\ JobKnown /\ LockInv)'
  BY TypeNext, KnownNext, LockNext
<1>3. LockInv => OnePerJob
  BY DEF LockInv, OnePerJob
<1> QED BY <1>1, <1>2, <1>3, PTL DEF Spec

\* What holds when the actors take turns.
SerialInv == TypeOK /\ JobKnown /\ Alone /\ Current /\ PaidInv

\* It does.
LEMMA SerialInvariant == ASSUME Serial = TRUE PROVE Spec => []SerialInv
<1>1. Init => SerialInv
  BY InitOk DEF SerialInv
<1>2. SerialInv /\ [Next]_vars => SerialInv'
  BY TypeNext, KnownNext, CurrentNext, PaidNext DEF SerialInv
<1> QED BY <1>1, <1>2, PTL DEF Spec

\* No job is refunded twice when the actors take turns, for any number of jobs,
\* drains and deaths.
THEOREM PaidOnce == ASSUME Serial = TRUE PROVE Spec => []NeverPaidTwice
<1>1. SerialInv => NeverPaidTwice
  BY DEF SerialInv, PaidInv, Books
<1> QED BY <1>1, SerialInvariant, PTL

\* A refund that reached the chain has a marker or is in refunded-jobs.json at
\* every moment, when the actors take turns.
THEOREM PaidIsOnRecord == ASSUME Serial = TRUE PROVE Spec => []SentIsRecorded
<1>1. SerialInv => SentIsRecorded
  BY DEF SerialInv, PaidInv, Books
<1> QED BY <1>1, SerialInvariant, PTL

\* An owed refund leaves the ledger only paid, or with an address that is not
\* allowed, when the actors take turns.
THEOREM OwedIsKept == ASSUME Serial = TRUE PROVE Spec => OwedIsNotLost
<1> DEFINE Kept == \A j \in Jobs :
          ledger[j] \in {"pending_approval", "needs_review", "approved"} /\ ledger'[j] = "none"
             => j \in refunded \/ j \notin listed
<1>1. SerialInv /\ [Next]_vars => [Kept]_ledger
  BY OwedStep DEF SerialInv, vars
<1> QED BY <1>1, SerialInvariant, PTL DEF Spec, OwedIsNotLost
=============================================================================
