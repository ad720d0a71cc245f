---------------------------- MODULE RefundQueue ----------------------------
(***************************************************************************)
(* The refund approval queue: pending-refunds.json, refunded-jobs.json,    *)
(* the in-flight markers and the per-job send locks, and everything that   *)
(* reads and rewrites them (src/cli.js, src/refund.js,                     *)
(* src/dispute-sweep.js, src/refund-target.js).                            *)
(*                                                                         *)
(* The actors are asynchronous tasks.  The daemon runs the drains (started *)
(* by a plain setInterval, so that a slow one overlaps the next), the      *)
(* dispute sweep and, once per boot, the crash recovery; the operator's    *)
(* `refunds` command is a process of its own.  An actor that rewrites the  *)
(* ledger writes the WHOLE object it loaded earlier (snap), minus or plus  *)
(* its own entry, and may have awaited the network in between.             *)
(*                                                                         *)
(* Abstractions.  An entry is its status.  Amounts are equal: SendsAllowed *)
(* recorded sends of one job stay under the value ceiling of the spend     *)
(* policy (1 for a full refund, 2 for one of half the price); its other    *)
(* refusals are free.  A load-and-save with no await inside is one step,   *)
(* except markJobRefunded, which every sender runs on the same file.  The  *)
(* lock is the one SendLock models: held, or free for the taking when its  *)
(* owner is dead.  The operator is right about what arrived on chain.      *)
(***************************************************************************)
EXTENDS Naturals, FiniteSets

CONSTANTS
    Jobs,           \* paid jobs
    Drains,         \* overlapping runs of drainPendingRefunds
    Cli,            \* the operator's `refunds` process
    Sweep,          \* sweepDisputesForRefund
    Boot,           \* handleCrashRecovery
    Free, Dead,     \* a send lock nobody holds; one whose holder died
    NoJob,          \* "no job"
    Verbs,          \* the verbs the operator uses
    Serial,         \* the actors take turns: the case without interleaving
    SendsAllowed,   \* recorded sends per job that the value ceiling lets pass
    MaxCrashes      \* bound on deaths of the daemon and of the CLI

Daemon == Drains \cup {Sweep, Boot}
Actors == Daemon \cup {Cli}
Senders == Drains \cup {Cli}

ASSUME DistinctAssumption ==
    /\ Sweep # Boot /\ Free # Dead
    /\ Drains \cap {Sweep, Boot} = {} /\ Cli \notin Daemon
    /\ Actors \cap {Free, Dead} = {}
ASSUME NoJobAssumption == NoJob \notin Jobs
ASSUME VerbsAssumption == Verbs \subseteq {"approve", "reject", "unblock"}
ASSUME BoundsAssumption ==
    Serial \in BOOLEAN /\ SendsAllowed \in Nat \ {0} /\ MaxCrashes \in Nat

VARIABLES
    ledger,         \* pending-refunds.json: status of each job's entry, or "none"
    refunded,       \* refunded-jobs.json
    marker,         \* jobs with an in-flight marker
    lock,           \* per job: who holds the send lock
    listed,         \* jobs whose refund address is in the financial allowlist:
                    \* those accepted and not ended, and those approved
    counted,        \* per job: sends in send-history.json
    sent,           \* per job: refunds that reached the chain
    approvedOnce,   \* jobs the operator ever approved (history)
    dispute,        \* per job: the dispute on the platform
    active,         \* active-jobs.json: jobs a crash would orphan
    boot,           \* where the daemon's start is: startup drain, recovery, up
    at, job, snap, todo,   \* each actor: its point, its job, its ledger, what is left to do
                           \* (of the operator: refunded-jobs.json as it read it)
    crashes

books == <<refunded, marker, listed, counted, sent, approvedOnce>>
platform == <<dispute, active>>
actors == <<at, job, snap, todo>>
vars == <<ledger, books, lock, platform, boot, actors, crashes>>

Statuses == {"none", "pending_approval", "needs_review", "approved", "rejected", "refunded"}
Disputes == {"none", "pending", "refund", "paid"}
Points == {"idle", "drain", "attempt", "session", "sending", "marking", "marking2", "marked",
           "settling", "verify", "unblock", "respond", "promote", "recover"}
\* Points between acquireSendLock and the finally of attemptPendingRefund.
Locked == {"session", "sending", "marking", "marking2", "marked", "settling"}
Nothing == [j \in Jobs |-> "none"]

Init ==
    /\ ledger = Nothing
    /\ refunded = {} /\ marker = {} /\ listed = Jobs /\ approvedOnce = {}
    /\ lock = [j \in Jobs |-> Free]
    /\ counted = [j \in Jobs |-> 0] /\ sent = [j \in Jobs |-> 0]
    /\ dispute = Nothing
    /\ active = Jobs
    /\ boot = "up"
    /\ at = [a \in Actors |-> "idle"]
    /\ job = [a \in Actors |-> NoJob]
    /\ snap = [a \in Actors |-> Nothing]
    /\ todo = [a \in Actors |-> {}]
    /\ crashes = 0

-----------------------------------------------------------------------------
(* The steps an actor takes *)

MayBegin(a) ==
    /\ at[a] = "idle"
    /\ Serial => \A b \in Actors : at[b] = "idle"

\* Points the code passes without an await: nobody else runs meanwhile.
Synchronous == {"drain", "attempt", "marking", "marked"}
Turn(a) == \A b \in Senders \ {a} : at[b] \notin Synchronous

Begin(a, point, j, left) ==
    /\ MayBegin(a)
    /\ at' = [at EXCEPT ![a] = point]
    /\ job' = [job EXCEPT ![a] = j]
    /\ snap' = [snap EXCEPT ![a] = ledger]
    /\ todo' = [todo EXCEPT ![a] = left]

Goto(a, point) == at' = [at EXCEPT ![a] = point] /\ UNCHANGED <<job, snap, todo>>

Finish(a) ==
    /\ at' = [at EXCEPT ![a] = "idle"]
    /\ job' = [job EXCEPT ![a] = NoJob]
    /\ snap' = [snap EXCEPT ![a] = Nothing]
    /\ todo' = [todo EXCEPT ![a] = {}]

\* The whole ledger is written from this actor's snapshot, with one entry set.
SaveSnapshot(a, j, status) ==
    /\ ledger' = [snap[a] EXCEPT ![j] = status]
    /\ snap' = [snap EXCEPT ![a] = [snap[a] EXCEPT ![j] = status]]

Release(a, j) == lock' = [lock EXCEPT ![j] = IF @ = a THEN Free ELSE @]

-----------------------------------------------------------------------------
(* drainPendingRefunds *)

\* Mutant: the marker of an unclear send is not looked at.
SendableUnmarked == {j \in Jobs : ledger[j] = "approved"}

\* Mutant: entries that wait for the owner are drained too.
SendableUnapproved == {j \in Jobs : ledger[j] \in {"pending_approval", "approved"} /\ j \notin marker}

Sendable == {j \in Jobs : ledger[j] = "approved" /\ j \notin marker}

DrainBegin(d) ==
    /\ boot # "recover"
    /\ Begin(d, "drain", NoJob, Sendable)
    /\ UNCHANGED <<ledger, books, lock, platform, boot, crashes>>

DrainNext(d) ==
    /\ at[d] = "drain"
    /\ \E j \in todo[d] :
          /\ job' = [job EXCEPT ![d] = j]
          /\ todo' = [todo EXCEPT ![d] = @ \ {j}]
    /\ at' = [at EXCEPT ![d] = "attempt"]
    /\ UNCHANGED <<ledger, books, lock, platform, boot, snap, crashes>>

DrainEnd(d) ==
    /\ at[d] = "drain" /\ todo[d] = {}
    /\ Finish(d)
    /\ boot' = IF boot = "drain" THEN "recover" ELSE boot
    /\ UNCHANGED <<ledger, books, lock, platform, crashes>>

-----------------------------------------------------------------------------
(* attemptPendingRefund, shared by the drain and by the operator *)

\* It returned true: the drain deletes the entry from its own copy of the
\* ledger and saves that; the operator's command re-reads and marks it.
Succeeded(a) ==
    IF a \in Drains
    THEN /\ SaveSnapshot(a, job[a], "none")
         /\ at' = [at EXCEPT ![a] = "drain"]
         /\ job' = [job EXCEPT ![a] = NoJob]
         /\ UNCHANGED todo
    ELSE /\ ledger' = [ledger EXCEPT ![job[a]] = IF @ = "none" THEN @ ELSE "refunded"]
         /\ Finish(a)

\* It returned false: the entry stays for a later attempt.
Failed(a) ==
    IF a \in Drains
    THEN /\ at' = [at EXCEPT ![a] = "drain"]
         /\ job' = [job EXCEPT ![a] = NoJob]
         /\ UNCHANGED <<ledger, snap, todo>>
    ELSE Finish(a) /\ UNCHANGED ledger

\* Mutant: the lock of a dead holder is never taken over.
LockableFree(j) == lock[j] = Free

Lockable(j) == lock[j] \in {Free, Dead}

LockTaken(a) ==
    /\ at[a] = "attempt" /\ ~Lockable(job[a])
    /\ Failed(a)
    /\ UNCHANGED <<books, lock, platform, boot, crashes>>

AlreadyRefunded(a) ==
    /\ at[a] = "attempt" /\ Lockable(job[a]) /\ job[a] \in refunded
    /\ lock' = [lock EXCEPT ![job[a]] = Free]
    /\ Succeeded(a)
    /\ UNCHANGED <<books, platform, boot, crashes>>

OpenSession(a) ==
    /\ at[a] = "attempt" /\ Lockable(job[a]) /\ job[a] \notin refunded
    /\ lock' = [lock EXCEPT ![job[a]] = a]
    /\ Goto(a, "session")
    /\ UNCHANGED <<ledger, books, platform, boot, crashes>>

\* No session, or the spend policy refuses: cooldown, hourly cap, outage,
\* per-job cap, value ceiling.  Nothing left the host.
NotStarted(a) ==
    /\ at[a] = "session"
    /\ Release(a, job[a])
    /\ Failed(a)
    /\ UNCHANGED <<books, platform, boot, crashes>>

\* An address that is not in the allowlist drops the entry.
Blocked(a) ==
    /\ at[a] = "session" /\ job[a] \notin listed
    /\ Release(a, job[a])
    /\ Succeeded(a)
    /\ UNCHANGED <<books, platform, boot, crashes>>

\* gateExternalSend lets it pass; the marker is written before the broadcast.
StartSend(a) ==
    /\ at[a] = "session" /\ job[a] \in listed
    /\ counted[job[a]] < SendsAllowed
    /\ marker' = marker \cup {job[a]}
    /\ Goto(a, "sending")
    /\ UNCHANGED <<ledger, refunded, listed, counted, sent, approvedOnce,
                   lock, platform, boot, crashes>>

Landed(j) == sent' = [sent EXCEPT ![j] = IF @ < 2 THEN @ + 1 ELSE @]

SendReturns(a) ==
    /\ at[a] = "sending"
    /\ Landed(job[a])
    /\ Goto(a, "marking")
    /\ UNCHANGED <<ledger, refunded, marker, listed, counted, approvedOnce,
                   lock, platform, boot, crashes>>

\* Mutant: every failed broadcast counts as one that never left.
SendUnclearCleared(a) ==
    /\ at[a] = "sending"
    /\ Landed(job[a]) \/ UNCHANGED sent
    /\ marker' = marker \ {job[a]}
    /\ Release(a, job[a])
    /\ Failed(a)
    /\ UNCHANGED <<refunded, listed, counted, approvedOnce, platform, boot, crashes>>

\* A timeout or a dropped connection: the refund is on the chain, or not.
SendUnclear(a) ==
    /\ at[a] = "sending"
    /\ Landed(job[a]) \/ UNCHANGED sent
    /\ Release(a, job[a])
    /\ Failed(a)
    /\ UNCHANGED <<refunded, marker, listed, counted, approvedOnce, platform, boot, crashes>>

\* isFundingFailure: nothing was broadcast, the marker is taken back.
SendUnfunded(a) ==
    /\ at[a] = "sending"
    /\ marker' = marker \ {job[a]}
    /\ Release(a, job[a])
    /\ Failed(a)
    /\ UNCHANGED <<refunded, listed, counted, sent, approvedOnce, platform, boot, crashes>>

\* markJobRefunded reads the set and replaces the file.  Inside the daemon
\* nothing comes between the two; the operator's process and the daemon can.
ReadRefunded ==
    /\ at[Cli] = "marking"
    /\ at' = [at EXCEPT ![Cli] = "marking2"]
    /\ todo' = [todo EXCEPT ![Cli] = refunded]
    /\ UNCHANGED <<job, snap, ledger, books, lock, platform, boot, crashes>>

MarkRefunded(a) ==
    /\ \/ at[a] = "marking" /\ a # Cli /\ refunded' = refunded \cup {job[a]}
       \/ at[a] = "marking2" /\ refunded' = todo[a] \cup {job[a]}
    /\ at' = [at EXCEPT ![a] = "marked"]
    /\ todo' = IF a = Cli THEN [todo EXCEPT ![a] = {}] ELSE todo
    /\ UNCHANGED <<job, snap, ledger, marker, listed, counted, sent, approvedOnce,
                   lock, platform, boot, crashes>>

\* The send is on record: the marker goes, the limiter counts it.
ClearMarker(a) ==
    /\ at[a] = "marked"
    /\ marker' = marker \ {job[a]}
    /\ counted' = [counted EXCEPT ![job[a]] = IF @ < SendsAllowed THEN @ + 1 ELSE @]
    /\ Goto(a, "settling")
    /\ UNCHANGED <<ledger, refunded, listed, sent, approvedOnce,
                   lock, platform, boot, crashes>>

\* submitRefundTxid, which may fail, the chat message, then the finally.
Settle(a) ==
    /\ at[a] = "settling"
    /\ \/ /\ dispute[job[a]] = "refund"
          /\ dispute' = [dispute EXCEPT ![job[a]] = "paid"]
       \/ UNCHANGED dispute
    /\ Release(a, job[a])
    /\ Succeeded(a)
    /\ UNCHANGED <<books, active, boot, crashes>>

-----------------------------------------------------------------------------
(* The operator's commands *)

ApproveBegin ==
    /\ "approve" \in Verbs
    /\ \E j \in Jobs \ marker :
          /\ ledger[j] \in {"pending_approval", "approved"}
          /\ Begin(Cli, "verify", j, {})
    /\ UNCHANGED <<ledger, books, lock, platform, boot, crashes>>

\* The session, the job or the dispute cannot be read, or the operator says no.
ApproveStops ==
    /\ at[Cli] = "verify"
    /\ Finish(Cli)
    /\ UNCHANGED <<ledger, books, lock, platform, boot, crashes>>

\* The address does not verify any more.
ApproveRefused ==
    /\ at[Cli] = "verify"
    /\ ledger' = [snap[Cli] EXCEPT ![job[Cli]] = "needs_review"]
    /\ Finish(Cli)
    /\ UNCHANGED <<books, lock, platform, boot, crashes>>

ApproveConfirmed ==
    /\ at[Cli] = "verify"
    /\ listed' = listed \cup {job[Cli]}
    /\ approvedOnce' = approvedOnce \cup {job[Cli]}
    /\ SaveSnapshot(Cli, job[Cli], "approved")
    /\ at' = [at EXCEPT ![Cli] = "attempt"]
    /\ UNCHANGED <<refunded, marker, counted, sent, lock, platform, boot, job, todo, crashes>>

Reject ==
    /\ "reject" \in Verbs
    /\ MayBegin(Cli)
    /\ \E j \in Jobs : ledger[j] # "none" /\ ledger' = [ledger EXCEPT ![j] = "rejected"]
    /\ UNCHANGED <<books, lock, platform, boot, actors, crashes>>

\* `refunds unblock': the operator has looked, the refund did not arrive.
UnblockBegin ==
    /\ "unblock" \in Verbs
    /\ \E j \in marker : sent[j] = 0 /\ Begin(Cli, "unblock", j, {})
    /\ UNCHANGED <<ledger, books, lock, platform, boot, crashes>>

Unblock ==
    /\ at[Cli] = "unblock"
    /\ marker' = IF Lockable(job[Cli]) THEN marker \ {job[Cli]} ELSE marker
    /\ lock' = IF Lockable(job[Cli]) THEN [lock EXCEPT ![job[Cli]] = Free] ELSE lock
    /\ Finish(Cli)
    /\ UNCHANGED <<ledger, refunded, listed, counted, sent, approvedOnce, platform, boot, crashes>>

-----------------------------------------------------------------------------
(* Who puts entries into the queue *)

\* selectRefundableDisputes: the seller agreed, or nobody answered and the
\* buyer got nothing; no refund txid.  The ledger is loaded once per agent.
Refundable == {j \in Jobs : /\ dispute[j] \in {"pending", "refund"}
                            /\ ledger[j] = "none" /\ j \notin refunded}

SweepBegin ==
    /\ Refundable # {}
    /\ Begin(Sweep, "respond", NoJob, Refundable)
    /\ UNCHANGED <<ledger, books, lock, platform, boot, crashes>>

\* respondToDispute, unless the seller has answered; a failure skips the job.
SweepResponds ==
    /\ at[Sweep] = "respond"
    /\ \E j \in todo[Sweep] :
          /\ todo' = [todo EXCEPT ![Sweep] = @ \ {j}]
          /\ \/ /\ dispute' = [dispute EXCEPT ![j] = IF @ = "pending" THEN "refund" ELSE @]
                /\ \E status \in {"pending_approval", "needs_review"} :
                      SaveSnapshot(Sweep, j, status)
             \/ dispute[j] = "pending" /\ UNCHANGED <<dispute, ledger, snap>>
    /\ UNCHANGED <<books, lock, active, boot, at, job, crashes>>

SweepEnd ==
    /\ at[Sweep] = "respond" /\ todo[Sweep] = {}
    /\ Finish(Sweep)
    /\ UNCHANGED <<ledger, books, lock, platform, boot, crashes>>

\* promoteCrashRefunds, first thing in handleCrashRecovery.
BootBegin ==
    /\ boot = "recover"
    /\ Begin(Boot, "promote", NoJob, {})
    /\ UNCHANGED <<ledger, books, lock, platform, boot, crashes>>

\* The awaits of the promotion are over; the recovery loads its own copies.
BootPromotes ==
    /\ at[Boot] = "promote"
    /\ \E found \in SUBSET {j \in Jobs : snap[Boot][j] = "needs_review"} :
          ledger' = IF found = {} THEN ledger
                    ELSE [j \in Jobs |-> IF j \in found THEN "pending_approval" ELSE snap[Boot][j]]
    /\ snap' = [snap EXCEPT ![Boot] = ledger']
    /\ todo' = [todo EXCEPT ![Boot] = {j \in active : ledger'[j] = "none" /\ j \notin refunded}]
    /\ at' = [at EXCEPT ![Boot] = "recover"]
    /\ UNCHANGED <<books, lock, platform, boot, job, crashes>>

\* Mutant: the recovery overwrites the ledger instead of merging into it.
BootRecoversOverwrite ==
    /\ at[Boot] = "recover"
    /\ \E file \in [todo[Boot] -> {"pending_approval", "needs_review", "keep", "clear"}] :
          LET filed == {j \in todo[Boot] : file[j] \in {"pending_approval", "needs_review"}}
          IN  /\ ledger' = IF filed = {} THEN ledger
                           ELSE [j \in Jobs |-> IF j \in filed THEN file[j] ELSE "none"]
              /\ active' = {j \in todo[Boot] : file[j] = "keep"}
    /\ Finish(Boot)
    /\ boot' = "up"
    /\ UNCHANGED <<books, lock, dispute, crashes>>

\* classifyCrashOrphan: file an entry, keep the row, or let it go (finished).
BootRecovers ==
    /\ at[Boot] = "recover"
    /\ \E file \in [todo[Boot] -> {"pending_approval", "needs_review", "keep", "clear"}] :
          LET filed == {j \in todo[Boot] : file[j] \in {"pending_approval", "needs_review"}}
          IN  /\ ledger' = IF filed = {} THEN ledger
                           ELSE [j \in Jobs |-> IF j \in filed THEN file[j] ELSE snap[Boot][j]]
              /\ active' = {j \in todo[Boot] : file[j] = "keep"}
    /\ Finish(Boot)
    /\ boot' = "up"
    /\ UNCHANGED <<books, lock, dispute, crashes>>

\* removeActiveJobFromAllowlist: what an approval has listed stays.
Unlist(j) == listed' = IF j \in approvedOnce THEN listed ELSE listed \ {j}

\* refundAbandonedJob: cleanup gives a job up after its launch retries.
AbandonJob ==
    /\ boot = "up" /\ (Serial => \A a \in Actors : at[a] = "idle")
    /\ \E j \in active :
          /\ active' = active \ {j}
          /\ ledger' = IF ledger[j] = "none" /\ j \notin refunded
                       THEN [ledger EXCEPT ![j] = "pending_approval"] ELSE ledger
          /\ Unlist(j)
    /\ UNCHANGED <<refunded, marker, counted, sent, approvedOnce,
                   lock, dispute, boot, actors, crashes>>

-----------------------------------------------------------------------------
(* The environment *)

JobEnds ==
    /\ boot = "up"
    /\ \E j \in active : active' = active \ {j} /\ Unlist(j)
    /\ UNCHANGED <<ledger, refunded, marker, counted, sent, approvedOnce,
                   lock, dispute, boot, actors, crashes>>

\* The platform opens a dispute, or the seller agrees to refund one.
DisputeOpens ==
    /\ \E j \in Jobs \ active, d \in {"pending", "refund"} :
          dispute[j] = "none" /\ dispute' = [dispute EXCEPT ![j] = d]
    /\ UNCHANGED <<ledger, books, lock, active, boot, actors, crashes>>

\* financial-allowlist.json is unreadable once: it counts as empty, and the
\* next writer saves it that way.
AllowlistLost ==
    /\ crashes < MaxCrashes /\ crashes' = crashes + 1
    /\ listed # {} /\ listed' = {}
    /\ UNCHANGED <<ledger, refunded, marker, counted, sent, approvedOnce,
                   lock, platform, boot, actors>>

\* A process dies: its tasks are gone, its locks are stale, and a broadcast
\* under way reached the chain or did not.
Dies(process) ==
    /\ crashes < MaxCrashes /\ crashes' = crashes + 1
    /\ \E landed \in SUBSET {a \in process : at[a] = "sending"} :
          sent' = [j \in Jobs |-> IF sent[j] < 2 /\ \E a \in landed : job[a] = j
                                  THEN sent[j] + 1 ELSE sent[j]]
    /\ lock' = [j \in Jobs |-> IF lock[j] \in process THEN Dead ELSE lock[j]]
    /\ at' = [a \in Actors |-> IF a \in process THEN "idle" ELSE at[a]]
    /\ job' = [a \in Actors |-> IF a \in process THEN NoJob ELSE job[a]]
    /\ snap' = [a \in Actors |-> IF a \in process THEN Nothing ELSE snap[a]]
    /\ todo' = [a \in Actors |-> IF a \in process THEN {} ELSE todo[a]]
    /\ UNCHANGED <<ledger, refunded, marker, listed, counted, approvedOnce, platform>>

DaemonDies == Dies(Daemon) /\ boot' = "drain"
CliDies == at[Cli] # "idle" /\ Dies({Cli}) /\ UNCHANGED boot

-----------------------------------------------------------------------------
DrainSteps == \E d \in Drains : Turn(d) /\ (DrainBegin(d) \/ DrainNext(d) \/ DrainEnd(d))
AttemptSteps ==
    \E a \in Senders : Turn(a) /\
        \/ LockTaken(a) \/ AlreadyRefunded(a) \/ OpenSession(a)
        \/ NotStarted(a) \/ Blocked(a) \/ StartSend(a)
        \/ SendReturns(a) \/ SendUnclear(a) \/ SendUnfunded(a)
        \/ MarkRefunded(a) \/ ClearMarker(a) \/ Settle(a)
CliSteps == Turn(Cli) /\
    \/ ApproveBegin \/ ApproveStops \/ ApproveRefused \/ ApproveConfirmed
    \/ ReadRefunded \/ Reject \/ UnblockBegin \/ Unblock
EnqueueSteps ==
    \/ Turn(Sweep) /\ (SweepBegin \/ SweepResponds \/ SweepEnd)
    \/ Turn(Boot) /\ (BootBegin \/ BootPromotes \/ BootRecovers \/ AbandonJob)
Environment == JobEnds \/ DisputeOpens \/ AllowlistLost \/ DaemonDies \/ CliDies

Next == DrainSteps \/ AttemptSteps \/ CliSteps \/ EnqueueSteps \/ Environment

Spec == Init /\ [][Next]_vars

\* The drain timer fires, its awaits end, and a boot comes to its end.  The
\* policy's deferrals pass (they are windows of time and an outage), and a
\* wallet that stays empty is filled: of the attempts that come again and
\* again one is let through, and one of the broadcasts is not refused.
Fairness ==
    /\ WF_vars(Turn(Boot) /\ (BootBegin \/ BootPromotes \/ BootRecovers))
    /\ \A a \in Senders :
          /\ WF_vars(Turn(a) /\ (LockTaken(a) \/ AlreadyRefunded(a) \/ OpenSession(a)))
          /\ WF_vars(Turn(a) /\ (NotStarted(a) \/ Blocked(a) \/ StartSend(a)))
          /\ WF_vars(Turn(a) /\ (SendReturns(a) \/ SendUnclear(a) \/ SendUnfunded(a)))
          /\ WF_vars(Turn(a) /\ (MarkRefunded(a) \/ ClearMarker(a) \/ Settle(a)))
          /\ SF_vars(Turn(a) /\ (StartSend(a) \/ Blocked(a)))
          /\ SF_vars(Turn(a) /\ (SendReturns(a) \/ SendUnclear(a)))
    /\ WF_vars(Turn(Cli) /\ ReadRefunded)
    /\ \A d \in Drains : WF_vars(Turn(d) /\ (DrainBegin(d) \/ DrainNext(d) \/ DrainEnd(d)))

FairSpec == Spec /\ Fairness

-----------------------------------------------------------------------------
(* Properties *)

\* The shape of the files and of the actors' snapshots; no job's sends are
\* counted beyond the value ceiling.
TypeOK ==
    /\ ledger \in [Jobs -> Statuses]
    /\ refunded \subseteq Jobs /\ marker \subseteq Jobs /\ listed \subseteq Jobs
    /\ approvedOnce \subseteq Jobs /\ active \subseteq Jobs
    /\ lock \in [Jobs -> Senders \cup {Free, Dead}]
    /\ counted \in [Jobs -> 0..SendsAllowed] /\ sent \in [Jobs -> 0..2]
    /\ dispute \in [Jobs -> Disputes]
    /\ boot \in {"drain", "recover", "up"}
    /\ at \in [Actors -> Points]
    /\ job \in [Actors -> Jobs \cup {NoJob}]
    /\ snap \in [Actors -> [Jobs -> Statuses]]
    /\ todo \in [Actors -> SUBSET Jobs]
    /\ crashes \in 0..MaxCrashes

\* No job is refunded twice on chain.
NeverPaidTwice == \A j \in Jobs : sent[j] < 2

\* A refund that reached the chain is on record at every moment, whatever dies
\* when: by the marker until the job is in refunded-jobs.json, by that after.
SentIsRecorded == \A j \in Jobs : sent[j] > 0 => j \in marker \cup refunded

\* No money leaves without the operator's approval of that job.
SentWasApproved == \A j \in Jobs : sent[j] > 0 => j \in approvedOnce

\* An owed refund leaves the ledger only when it is paid, or when its address
\* is not in the allowlist.
OwedIsNotLost ==
    [][\A j \in Jobs :
          ledger[j] \in {"pending_approval", "needs_review", "approved"} /\ ledger'[j] = "none"
             => j \in refunded \/ j \notin listed]_ledger

\* An approved refund does not stay approved for ever: it is sent, or its
\* outcome is unclear and it waits behind a marker, or the entry is gone,
\* rejected or back in review.
ApprovedIsSettled ==
    \A j \in Jobs :
        ledger[j] = "approved" ~> (j \in refunded \cup marker \/ ledger[j] # "approved")
=============================================================================
