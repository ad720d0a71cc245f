----------------------------- MODULE RentalLease -----------------------------
(***************************************************************************)
(* The hire of the seller's own graphics card (rental-worker.js,           *)
(* rental-job.js, compute-supply.js, providers/home-gpu.js and their       *)
(* callers in cli.js).                                                     *)
(*                                                                         *)
(* A hire takes the card's lock file, records a lease, makes a container   *)
(* (the box), seals its credentials for the buyer and is delivered.  From  *)
(* then on four parties act on the one lease record, all in one process    *)
(* but with awaits in between: the reconcile tick (probe, expiry, retried  *)
(* releases), the cleanup pass (job closed, lease over), the poll and the  *)
(* webhook (extensions paid by the buyer), and a crash with the restart    *)
(* that follows.  The lease's id is the provider's name, so every hire of  *)
(* the card uses the same entry of the lease table.                        *)
(*                                                                         *)
(* A hire is a number, a rental period one unit of the clock.  The answer  *)
(* of docker inspect is read when the tick judges it; a release removes    *)
(* the container when it begins and unlocks and records when it ends.      *)
(* Left out: credentials, the outbound tunnel, prices and the ceiling      *)
(* (nothing is paid for an own card), rented cloud boxes.                  *)
(***************************************************************************)
EXTENDS Integers, FiniteSets

CONSTANTS
    Jobs,           \* paid rental jobs of this card
    Extending,      \* the jobs whose buyer may ask for more time
    None,           \* no lease
    MaxHires,       \* bound on hires
    MaxNow,         \* bound on the clock
    MaxCrashes,     \* bound on crashes
    MaxFaults,      \* bound on docker and platform failures
    Overlap         \* hires of the card may overlap: see Calm

ASSUME RentalAssumption ==
    /\ {MaxHires, MaxNow, MaxCrashes, MaxFaults} \subseteq Nat
    /\ Overlap \in BOOLEAN /\ Extending \subseteq Jobs

VARIABLES
    status,     \* platform: "paid", "delivered", or "closed" for good
    ext,        \* platform: the one extension each job may ask for
    now,        \* the clock, in rental periods
    lease,      \* the table's entry for the card
    known,      \* hires whose container id the lease's meta holds
    active,     \* state.active, and with it active-jobs.json
    hire,       \* startRentalJob, by hire
    tick,       \* reconcileTick: where it is, and its copy of the lease
    up,         \* the dispatcher runs
    disk,       \* leases.json (with or without the container id)
    card,       \* the card's lock file exists
    box,        \* docker's containers, by hire
    handed,     \* history: hires whose box the buyer was given
    crashes, faults

memory == <<lease, known, active, hire, tick, up>>
platform == <<status, ext>>
bounds == <<crashes, faults>>
vars == <<platform, now, memory, disk, card, box, handed, bounds>>

Hires == 1 .. MaxHires

Off == [pc |-> "off", job |-> None, begun |-> 0]
Idle == [pc |-> "idle", copy |-> None]

States == {"pending", "ready", "degraded", "release-pending", "released"}
\* A lease that ends at the bound may still end: see Clock.
Times == 0 .. MaxNow + Cardinality(Jobs) + MaxHires + 2
Leases == [n : Hires, job : Jobs, st : States, begun : Times, exp : Times,
           applied : SUBSET Jobs]

TypeOK ==
    /\ status \in [Jobs -> {"paid", "delivered", "closed"}]
    /\ ext \in [Jobs -> {"none", "pending", "approved", "rejected", "paid"}]
    /\ now \in Times
    /\ lease \in Leases \cup {None}
    /\ known \subseteq Hires
    /\ active \in [Jobs -> {"no", "on", "stopping"}]
    /\ hire \in [Hires -> [pc : {"off", "starting", "made", "up", "ready", "sent",
                                 "refused", "failing", "done"},
                      job : Jobs \cup {None}, begun : Times]]
    /\ tick \in [pc : {"idle", "probe", "release"}, copy : Leases \cup {None}]
    /\ up \in BOOLEAN /\ card \in BOOLEAN
    /\ disk \in [lease : Leases \cup {None}, known : BOOLEAN]
    /\ box \in [Hires -> {"none", "created", "up", "dead", "gone"}]
    /\ handed \subseteq Hires
    /\ crashes \in 0 .. MaxCrashes /\ faults \in 0 .. MaxFaults

Init ==
    /\ status = [j \in Jobs |-> "paid"] /\ ext = [j \in Jobs |-> "none"]
    /\ now = 0 /\ lease = None /\ known = {}
    /\ active = [j \in Jobs |-> "no"]
    /\ hire = [n \in Hires |-> Off] /\ tick = Idle
    /\ up = TRUE /\ disk = [lease |-> None, known |-> FALSE]
    /\ card = FALSE /\ box = [n \in Hires |-> "none"]
    /\ handed = {} /\ crashes = 0 /\ faults = 0

-----------------------------------------------------------------------------
(* The lease table. *)

\* Stored(l, ids): what persistLeases writes.  The meta object is shared by all
\* copies of a lease, so the file gets the container id once it is known.
Stored(l, ids) == [lease |-> l, known |-> l # None /\ l.n \in ids]

\* The table entry becomes l and is persisted.
Save(l) == lease' = l /\ disk' = Stored(l, known')

Marked(l, st) == IF l = None THEN None ELSE [l EXCEPT !.st = st]

Ended(l) == l.st \in {"released", "release-pending"}

\* decideRentalExtension, extendLease: the lease can still be given time.
Extendable(l) == l # None /\ ~Ended(l) /\ l.exp > now

\* rentalLeaseGoneOrExpired; expiresAt is null until the box is ready.
GoneOrExpired(l) ==
    l # None => (l.st = "released" \/ (l.exp # 0 /\ l.exp <= now))

Fault == faults < MaxFaults /\ faults' = faults + 1
NoFault == UNCHANGED faults

-----------------------------------------------------------------------------
(* Releasing: provider.release inside tryRelease.  Removing a container takes
   an await; without a container id there is nothing to wait for.  The marks go
   on whatever lease the table then holds under the card's id. *)

Remove(n) == box' = [box EXCEPT ![n] = IF @ = "none" THEN @ ELSE "gone"]

\* The container is being removed; what follows happens in ReleaseEnds.
ReleaseBegins(n) ==
    n \in known /\ Remove(n) /\ NoFault /\ UNCHANGED <<lease, disk, card>>

ReleaseEnds ==
    /\ Save(Marked(lease, "released")) /\ card' = FALSE
    /\ UNCHANGED <<box, faults>>

\* No container id: unlocked and marked at once.
ReleaseAtOnce(n) == n \notin known /\ ReleaseEnds

\* (A mutant of ReleaseFails: the refusal is taken for a release.)
RefusalIsRelease(n) ==
    /\ n \in known /\ Fault
    /\ Save(Marked(lease, "released"))
    /\ UNCHANGED <<box, card>>

\* Docker refuses: the tick tries again later.
ReleaseFails(n) ==
    /\ n \in known /\ Fault
    /\ Save(Marked(lease, "release-pending"))
    /\ UNCHANGED <<box, card>>

ReleaseDone(n) == ReleaseAtOnce(n) \/ ReleaseFails(n)

-----------------------------------------------------------------------------
(* A hire: startRentalJob with acquireRentalLease and deliverSealed. *)

\* A finished call has forgotten when it began.
At(h, pc) == [pc |-> pc, job |-> h.job, begun |-> IF pc = "done" THEN 0 ELSE h.begun]

HirePc(n, pc) == hire' = [hire EXCEPT ![n] = At(@, pc)]

\* Nothing of an earlier hire is still going on.
Calm ==
    /\ \A n \in Hires : hire[n].pc \in {"off", "done"}
    /\ \A j \in Jobs : active[j] = "no"
    /\ tick = Idle
    /\ lease # None => lease.st \in {"released", "pending"}

NextHire == CHOOSE n \in Hires : hire[n] = Off /\ \A m \in Hires : m < n => hire[m] # Off

CanHire(j) ==
    /\ up /\ status[j] = "paid" /\ active[j] = "no" /\ ~card
    /\ \E n \in Hires : hire[n] = Off
    /\ Overlap \/ Calm

\* The lock file is created and the lease recorded before anything is awaited.
\* With the lock taken the hire fails as busy.
Acquire(j) ==
    /\ CanHire(j)
    /\ card' = TRUE
    /\ hire' = [hire EXCEPT ![NextHire] = [pc |-> "starting", job |-> j, begun |-> now]]
    /\ UNCHANGED known
    /\ Save([n |-> NextHire, job |-> j, st |-> "pending", begun |-> now,
             exp |-> 0, applied |-> {}])
    /\ UNCHANGED <<platform, now, active, tick, up, box, handed, bounds>>

\* waitReady: the container exists and its id is in the lease's meta.
MakeBox(n) ==
    /\ hire[n].pc = "starting" /\ HirePc(n, "made")
    /\ box' = [box EXCEPT ![n] = "created"]
    /\ known' = known \cup {n}
    /\ UNCHANGED <<platform, now, lease, active, tick, up, disk, card, handed, bounds>>

\* Only one container can hold the tunnel port.
PortTaken(n) == \E m \in Hires \ {n} : box[m] = "up"

StartBox(n) ==
    /\ hire[n].pc = "made" /\ box[n] = "created" /\ ~PortTaken(n)
    /\ box' = [box EXCEPT ![n] = "up"]
    /\ HirePc(n, "up")
    /\ UNCHANGED <<platform, now, lease, known, active, tick, up, disk, card, handed, bounds>>

\* waitReady throws: container and lock go, the lease stays pending.
MakingFails(n) ==
    /\ \/ hire[n].pc \in {"starting", "made"} /\ Fault
       \/ hire[n].pc = "made" /\ (box[n] # "created" \/ PortTaken(n)) /\ NoFault
    /\ Remove(n) /\ card' = FALSE
    /\ HirePc(n, "done")
    /\ UNCHANGED <<platform, now, lease, known, active, tick, up, disk, handed, crashes>>

\* acquireRentalLease's record of the finished box: the period runs from the
\* call, whatever the start took.
Recorded(n, st) ==
    [n |-> n, job |-> hire[n].job, st |-> st, begun |-> hire[n].begun,
     exp |-> hire[n].begun + 1, applied |-> {}]

BoxReady(n) ==
    /\ hire[n].pc = "up" /\ box[n] = "up"
    /\ Overlap \/ tick = Idle
    /\ UNCHANGED known /\ Save(Recorded(n, "ready"))
    /\ HirePc(n, "ready")
    /\ UNCHANGED <<platform, now, active, tick, up, card, box, handed, bounds>>

\* The container does not answer in time; the release follows.
BoxNotReady(n) ==
    /\ hire[n].pc = "up" /\ box[n] # "up"
    /\ UNCHANGED known /\ Save(Recorded(n, "degraded"))
    /\ HirePc(n, "refused")
    /\ UNCHANGED <<platform, now, active, tick, up, card, box, handed, bounds>>

\* The secret is stored and the platform takes the delivery.
Deliver(n) ==
    /\ hire[n].pc = "ready" /\ status[hire[n].job] = "paid"
    /\ status' = [status EXCEPT ![hire[n].job] = "delivered"]
    /\ handed' = handed \cup {n}
    /\ HirePc(n, "sent")
    /\ UNCHANGED <<ext, now, lease, known, active, tick, up, disk, card, box, bounds>>

\* The answer arrives: the job is active, and listed on disk.
Delivered(n) ==
    /\ hire[n].pc = "sent" /\ HirePc(n, "done")
    /\ active' = [active EXCEPT ![hire[n].job] = "on"]
    /\ UNCHANGED <<platform, now, lease, known, tick, up, disk, card, box, handed, bounds>>

\* The platform refuses, or its answer is lost, which looks the same: the hire
\* is taken back.
NotDelivered(n) ==
    /\ \/ hire[n].pc = "ready" /\ status[hire[n].job] # "paid" /\ NoFault
       \/ hire[n].pc \in {"ready", "sent"} /\ Fault
    /\ HirePc(n, "refused") /\ handed' = handed \ {n}
    /\ UNCHANGED <<platform, now, lease, known, active, tick, up, disk, card, box, crashes>>

GiveUp(n) ==
    /\ hire[n].pc = "refused"
    /\ \/ ReleaseBegins(n) /\ HirePc(n, "failing")
       \/ UNCHANGED known /\ ReleaseDone(n) /\ HirePc(n, "done")
    /\ UNCHANGED <<platform, now, known, active, tick, up, handed, crashes>>

GivenUp(n) ==
    /\ hire[n].pc = "failing" /\ HirePc(n, "done")
    /\ UNCHANGED known /\ ReleaseEnds
    /\ UNCHANGED <<platform, now, active, tick, up, handed, crashes>>

HireStep(n) ==
    \/ MakeBox(n) \/ StartBox(n) \/ MakingFails(n) \/ BoxReady(n) \/ BoxNotReady(n)
    \/ Deliver(n) \/ Delivered(n) \/ NotDelivered(n) \/ GiveUp(n) \/ GivenUp(n)

-----------------------------------------------------------------------------
(* reconcileTick, never two at a time: one lease, judged on the copy taken
   when its turn comes. *)

\* Time over or a release to be retried.  expiresAt itself is still in time.
Overdue(l) == l.st = "release-pending" \/ (l.exp # 0 /\ now > l.exp)

TickReleases(n) ==
    \/ ReleaseBegins(n) /\ tick' = [pc |-> "release", copy |-> None]
    \/ ReleaseDone(n) /\ tick' = Idle

TickBegins ==
    /\ up /\ tick = Idle /\ lease # None /\ lease.st # "released"
    /\ UNCHANGED known
    /\ IF Overdue(lease) THEN TickReleases(lease.n)
       ELSE /\ tick' = [pc |-> "probe", copy |-> lease]
            /\ UNCHANGED <<lease, disk, card, box, faults>>
    /\ UNCHANGED <<platform, now, active, hire, up, handed, crashes>>

Running(n) == n \in known /\ box[n] = "up"

\* Healthy: the copy goes back into the table.
TickHealthy ==
    /\ tick.pc = "probe" /\ Running(tick.copy.n)
    /\ UNCHANGED known /\ Save(Marked(tick.copy, "ready"))
    /\ tick' = Idle
    /\ UNCHANGED <<platform, now, active, hire, up, card, box, handed, bounds>>

\* Docker gives no answer: a paid box is not ended for that.
TickUncertain ==
    /\ tick.pc = "probe" /\ tick.copy.n \in known
    /\ UNCHANGED known /\ Save(lease)
    /\ tick' = Idle
    /\ UNCHANGED <<platform, now, active, hire, up, card, box, handed, bounds>>

\* No container, or not running.  A lease that is still pending is not spared.
TickUnhealthy ==
    /\ tick.pc = "probe" /\ ~Running(tick.copy.n)
    /\ UNCHANGED known /\ TickReleases(tick.copy.n)
    /\ UNCHANGED <<platform, now, active, hire, up, handed, crashes>>

TickReleased ==
    /\ tick.pc = "release" /\ tick' = Idle
    /\ UNCHANGED known /\ ReleaseEnds
    /\ UNCHANGED <<platform, now, active, hire, up, handed, crashes>>

TickGoesOn == TickHealthy \/ TickUncertain \/ TickUnhealthy \/ TickReleased

-----------------------------------------------------------------------------
(* The cleanup pass and the webhooks end a rental: stopRentalJob.  It finds
   the lease by the id in the active entry. *)

SetActive(j, a) == active' = [active EXCEPT ![j] = a]

\* shouldTeardownRental: closed on the platform, or the lease is over.
StopBegins(j) ==
    /\ up /\ active[j] = "on"
    /\ status[j] = "closed" \/ GoneOrExpired(lease)
    /\ UNCHANGED known
    /\ IF lease = None \/ lease.st = "released"
       THEN SetActive(j, "no") /\ UNCHANGED <<lease, disk, card, box, faults>>
       ELSE \/ ReleaseBegins(lease.n) /\ SetActive(j, "stopping")
            \/ ReleaseDone(lease.n) /\ SetActive(j, "no")
    /\ UNCHANGED <<platform, now, hire, tick, up, handed, crashes>>

StopEnds(j) ==
    /\ up /\ active[j] = "stopping" /\ SetActive(j, "no")
    /\ UNCHANGED known /\ ReleaseEnds
    /\ UNCHANGED <<platform, now, hire, tick, up, handed, crashes>>

-----------------------------------------------------------------------------
(* Extensions: asked for by the buyer, answered before the buyer pays, and
   put on the lease by the webhook or by the poll. *)

AskExtension(j) ==
    /\ j \in Extending /\ status[j] = "delivered" /\ ext[j] = "none"
    /\ ext' = [ext EXCEPT ![j] = "pending"]
    /\ UNCHANGED <<status, now, memory, disk, card, box, handed, bounds>>

\* handleExtensionRequest: a rental is judged by its lease.
AnswerExtension(j) ==
    /\ up /\ active[j] # "no" /\ ext[j] = "pending"
    /\ ext' = [ext EXCEPT ![j] = IF Extendable(lease) THEN "approved" ELSE "rejected"]
    /\ UNCHANGED <<status, now, memory, disk, card, box, handed, bounds>>

PayExtension(j) ==
    /\ ext[j] = "approved" /\ ext' = [ext EXCEPT ![j] = "paid"]
    /\ UNCHANGED <<status, now, memory, disk, card, box, handed, bounds>>

\* (A mutant of Extended: each delivery of the news counts.)
ExtendedAgain(l, e) == [l EXCEPT !.exp = @ + 1, !.applied = @ \cup {e}]

\* extendLease: one period from the current end, once for each extension.
Extended(l, e) ==
    IF e \in l.applied THEN l
    ELSE [l EXCEPT !.exp = @ + 1, !.applied = @ \cup {e}]

ApplyExtension(j) ==
    /\ up /\ active[j] # "no" /\ ext[j] = "paid" /\ Extendable(lease)
    /\ Extended(lease, j) # lease
    /\ UNCHANGED known /\ Save(Extended(lease, j))
    /\ UNCHANGED <<platform, now, active, hire, tick, up, card, box, handed, bounds>>

-----------------------------------------------------------------------------
(* Crash and restart. *)

Crash ==
    /\ up /\ crashes < MaxCrashes /\ crashes' = crashes + 1
    /\ up' = FALSE /\ lease' = None /\ known' = {} /\ tick' = Idle
    /\ hire' = [n \in Hires |-> IF hire[n] = Off THEN Off ELSE At(hire[n], "done")]
    /\ UNCHANGED <<platform, now, active, disk, box, handed, faults>>
    /\ \/ UNCHANGED card
       \/ card' = TRUE /\ \E j \in Jobs : CanHire(j)      \* between lock and lease

\* (A mutant of KeptAtBoot: only the jobs listed as active are kept.)
KeptIfListed(l, listed) == l.job \in listed

\* releaseOrphansOnBoot: a job lease that is listed or has time left is kept.
KeptAtBoot(l, listed) == l.job \in listed \/ l.exp > now

Adoptable(l) == l # None /\ ~Ended(l) /\ l.exp > now

\* (A mutant of Adopted: nothing is adopted.)
NoneAdopted(l) == [j \in Jobs |-> "no"]

\* adoptLiveRentals.
Adopted(l) == [j \in Jobs |-> IF Adoptable(l) /\ l.job = j THEN "on" ELSE "no"]

\* reclaimStaleHomeGpuLocks.
Reclaimed(l) == card /\ l # None /\ ~Ended(l)

BootWith(l, locked) ==
    /\ lease' = l /\ disk' = Stored(l, known')
    /\ active' = Adopted(l) /\ card' = locked

KeepAtBoot(l) == BootWith(l, Reclaimed(l)) /\ UNCHANGED <<box, faults>>

ReleaseAtBoot(l, rest) ==
    /\ BootWith(rest, FALSE) /\ NoFault
    /\ IF disk.known THEN Remove(l.n) ELSE UNCHANGED box

ReleaseFailsAtBoot(l, locked) ==
    /\ disk.known /\ Fault
    /\ BootWith(Marked(l, "release-pending"), locked) /\ UNCHANGED box

\* Crash recovery empties active-jobs.json, before or after the table is read.
\* An orphan is released, and if docker refuses its lock is reclaimed all the
\* same.  A kept lease of a closed job is released by the adoption, if the
\* platform answers; its lock was not reclaimed.
Boot ==
    /\ ~up /\ up' = TRUE
    /\ known' = IF disk.known THEN {disk.lease.n} ELSE {}
    /\ LET l == disk.lease
       IN IF l \in {None, Marked(l, "released")}
          THEN KeepAtBoot(None)
          ELSE \E listed \in {{}, {j \in Jobs : active[j] # "no"}} :
                  IF KeptAtBoot(l, listed)
                  THEN \/ KeepAtBoot(l)
                       \/ /\ Adoptable(l) /\ status[l.job] = "closed"
                          /\ \/ ReleaseAtBoot(l, Marked(l, "released"))
                             \/ ReleaseFailsAtBoot(l, card)
                  ELSE ReleaseAtBoot(l, None) \/ ReleaseFailsAtBoot(l, FALSE)
    /\ UNCHANGED <<platform, now, hire, tick, handed, crashes>>

-----------------------------------------------------------------------------
(* The buyer, the clock and docker. *)

\* Completed, cancelled or resolved.
Close(j) ==
    /\ status[j] # "closed" /\ status' = [status EXCEPT ![j] = "closed"]
    /\ UNCHANGED <<ext, now, memory, disk, card, box, handed, bounds>>

Record == IF up THEN lease ELSE disk.lease

AtItsEnd == Record # None /\ Record.st # "released" /\ Record.exp = now

Clock ==
    /\ now < MaxNow \/ AtItsEnd
    /\ now' = now + 1
    /\ UNCHANGED <<platform, memory, disk, card, box, handed, bounds>>

BoxDies(n) ==
    /\ box[n] = "up" /\ box' = [box EXCEPT ![n] = "dead"] /\ Fault
    /\ UNCHANGED <<platform, now, memory, disk, card, handed, crashes>>

Next ==
    \/ \E n \in Hires : HireStep(n) \/ BoxDies(n)
    \/ TickBegins \/ TickGoesOn
    \/ \E j \in Jobs : \/ Acquire(j) \/ StopBegins(j) \/ StopEnds(j)
                       \/ AskExtension(j) \/ AnswerExtension(j) \/ PayExtension(j)
                       \/ ApplyExtension(j) \/ Close(j)
    \/ Crash \/ Boot \/ Clock

Spec == Init /\ [][Next]_vars

\* Timers fire for ever, awaited calls return, a dispatcher that died is
\* started again.  A tick's probe takes milliseconds, so the minutely poll and
\* a probe do not coincide for ever.  Nothing is assumed of buyers, nor of the
\* clock but that it does not stand still at the instant a lease ends.
Fairness ==
    /\ \A n \in Hires : WF_vars(HireStep(n))
    /\ WF_vars(TickBegins) /\ WF_vars(TickGoesOn) /\ WF_vars(Boot)
    /\ WF_vars(Clock /\ AtItsEnd)
    /\ \A j \in Jobs : /\ WF_vars(StopBegins(j)) /\ WF_vars(StopEnds(j))
                       /\ SF_vars(ApplyExtension(j) /\ tick = Idle)

FairSpec == Spec /\ Fairness

-----------------------------------------------------------------------------
(* Properties *)

TimePaid(l) ==
    (l # None /\ l.exp # 0) =>
        /\ l.exp = l.begun + 1 + Cardinality(l.applied)
        /\ \A e \in l.applied : ext[e] = "paid"

\* Every copy of the lease, in memory, in a tick's hands or on disk, ends one
\* period after the hire began and one more for each extension on it, and each
\* of these was paid: the webhook, the poll, a stale copy and a restart never
\* grant an hour twice, and an approval alone grants none.
TimeIsPaidFor == TimePaid(lease) /\ TimePaid(tick.copy) /\ TimePaid(disk.lease)

\* The box a buyer was given is removed only when the buyer's own job is closed
\* or the time on the lease's record is over, also across restarts.
BuyerKeepsBox ==
    [][\A n \in handed :
          box[n] = "up" /\ box'[n] = "gone"
             => \/ status[hire[n].job] = "closed"
                \/ Record # None /\ Record.n = n /\ now >= Record.exp]_vars

Live(j) ==
    /\ status[j] = "delivered" /\ lease # None
    /\ lease.job = j /\ Extendable(lease)

\* An hour that was paid while the rental lives reaches the lease and stays
\* there, although a tick's copy may overwrite it and the process may die.
PaidHourSticks ==
    \A j \in Jobs : <>[](ext[j] = "paid" /\ Live(j) => j \in lease.applied)

\* A box whose time is over goes, although docker may refuse the first attempt,
\* a tick's copy may overwrite that a release is pending, and the process may die.
OverdueBoxIsGone ==
    \A n \in Hires :
        (n \in handed /\ box[n] = "up" /\ Record # None /\ Record.n = n
           /\ now >= Record.exp)
        ~> box[n] # "up"
=============================================================================
