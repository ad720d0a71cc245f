------------------------- MODULE RentalLeaseProofs -------------------------
(***************************************************************************)
(* Proofs about RentalLease, for any jobs and bounds.                      *)
(*                                                                         *)
(* Paid time, with or without overlapping hires: the invariant of the      *)
(* three copies of a lease is inductive with the shape of a lease added,   *)
(* and that only a lease with an end is ever given time.                   *)
(*                                                                         *)
(* The buyer's box, when hires do not overlap: the table, the tick's copy, *)
(* the file, the hire and the active job are then about one and the same   *)
(* hire, and a box that is still to be released belongs to a buyer whose   *)
(* claim is over.                                                          *)
(***************************************************************************)
EXTENDS RentalLease, FiniteSetTheorems, WellFoundedInduction, TLAPS

\* A lease is a record with numbers for its times and finitely many extensions.
Shape(l) ==
    /\ l = [n |-> l.n, job |-> l.job, st |-> l.st, begun |-> l.begun,
            exp |-> l.exp, applied |-> l.applied]
    /\ l.begun \in Nat /\ l.exp \in Nat
    /\ l.applied \subseteq Jobs /\ IsFiniteSet(l.applied)

\* TimePaid, with the extensions' status as a parameter.
PaidIn(l, x) ==
    l = None \/ ( /\ Shape(l)
                  /\ l.exp # 0 => /\ l.exp = l.begun + 1 + Cardinality(l.applied)
                                  /\ \A e \in l.applied : x[e] = "paid" )

Pcs == {"off", "starting", "made", "up", "ready", "sent", "refused", "failing", "done"}
Answers == {"none", "pending", "approved", "rejected", "paid"}
HireRecs == [pc : Pcs, job : Jobs \cup {None}, begun : Nat]

IInv ==
    /\ now \in Nat
    /\ ext \in [Jobs -> Answers]
    /\ hire \in [Hires -> HireRecs]
    /\ PaidIn(lease, ext) /\ PaidIn(tick.copy, ext) /\ PaidIn(disk.lease, ext)

\* The invariant says what TimeIsPaidFor says.
LEMMA InvImplies == IInv => TimeIsPaidFor
BY DEF IInv, PaidIn, TimeIsPaidFor, TimePaid

-----------------------------------------------------------------------------
(* Operations on a lease. *)

\* A mark changes no time.
LEMMA MarkedPaid ==
    ASSUME NEW l, NEW x, NEW st, PaidIn(l, x)
    PROVE  PaidIn(Marked(l, st), x)
<1>1. CASE l = None
  BY <1>1 DEF PaidIn, Marked
<1>2. CASE l # None
  <2>1. Shape(l) BY <1>2 DEF PaidIn
  <2> DEFINE m == [n |-> l.n, job |-> l.job, st |-> st, begun |-> l.begun,
                   exp |-> l.exp, applied |-> l.applied]
  <2>2. Marked(l, st) = m BY <1>2, <2>1 DEF Marked, Shape
  <2>3. Shape(m) BY <2>1 DEF Shape
  <2>4. QED BY <1>2, <2>2, <2>3 DEF PaidIn
<1>3. QED BY <1>1, <1>2

\* One more extension, one more period.
LEMMA ExtendedPaid ==
    ASSUME NEW l, NEW x, NEW e \in Jobs, PaidIn(l, x), l # None, l.exp # 0,
           x[e] = "paid"
    PROVE  PaidIn(Extended(l, e), x)
<1>1. CASE e \in l.applied
  BY <1>1 DEF Extended
<1>2. CASE e \notin l.applied
  <2>1. /\ Shape(l) /\ l.exp = l.begun + 1 + Cardinality(l.applied)
        /\ \A f \in l.applied : x[f] = "paid"
    BY DEF PaidIn
  <2> DEFINE more == l.applied \cup {e}
             m == [n |-> l.n, job |-> l.job, st |-> l.st, begun |-> l.begun,
                   exp |-> l.exp + 1, applied |-> more]
  <2>2. Extended(l, e) = m
    BY <1>2, <2>1 DEF Extended, Shape
  <2>3. /\ IsFiniteSet(more) /\ Cardinality(more) = Cardinality(l.applied) + 1
        /\ Cardinality(l.applied) \in Nat
    BY <1>2, <2>1, FS_AddElement, FS_CardinalityType DEF Shape
  <2>4. Shape(m) BY <2>1, <2>3 DEF Shape
  <2>5. m.exp = m.begun + 1 + Cardinality(m.applied) /\ m.applied = more
    BY <2>1, <2>3 DEF Shape
  <2>6. \A f \in more : x[f] = "paid" BY <2>1
  <2>7. QED BY <2>2, <2>4, <2>5, <2>6 DEF PaidIn
<1>3. QED BY <1>1, <1>2

\* Extensions that are paid stay paid.
LEMMA StaysPaid ==
    ASSUME NEW l, NEW x, NEW y, PaidIn(l, x),
           \A e \in Jobs : x[e] = "paid" => y[e] = "paid"
    PROVE  PaidIn(l, y)
BY DEF PaidIn, Shape

\* A finished box's record has no extension and one period.
LEMMA RecordedPaid ==
    ASSUME IInv, NEW n \in Hires, NEW st, NEW x
    PROVE  PaidIn(Recorded(n, st), x)
<1>1. hire[n].begun \in Nat BY DEF IInv, HireRecs
<1>2. IsFiniteSet({}) /\ Cardinality({}) = 0 BY FS_EmptySet
<1> DEFINE m == [n |-> n, job |-> hire[n].job, st |-> st, begun |-> hire[n].begun,
                 exp |-> hire[n].begun + 1, applied |-> {}]
<1>3. Recorded(n, st) = m BY DEF Recorded
<1>4. Shape(m) BY <1>1, <1>2 DEF Shape
<1>5. m.exp = m.begun + 1 + Cardinality(m.applied) /\ m.applied = {} BY <1>1, <1>2
<1>6. QED BY <1>3, <1>4, <1>5 DEF PaidIn

\* What is saved is on disk.
LEMMA SavedPaid ==
    ASSUME NEW l, NEW x, PaidIn(l, x), Save(l)
    PROVE  PaidIn(lease', x) /\ PaidIn(disk'.lease, x)
BY DEF Save, Stored

\* Every way a release goes on leaves the times alone.
LEMMA ReleasePaid ==
    ASSUME IInv, NEW n,
           ReleaseBegins(n) \/ ReleaseDone(n) \/ ReleaseEnds
    PROVE  PaidIn(lease', ext) /\ PaidIn(disk'.lease, ext)
<1>1. CASE ReleaseBegins(n)
  BY <1>1 DEF ReleaseBegins, IInv
<1>2. CASE ReleaseEnds
  <2>1. PaidIn(Marked(lease, "released"), ext) BY MarkedPaid DEF IInv
  <2>2. QED BY <1>2, <2>1, SavedPaid DEF ReleaseEnds
<1>3. CASE ReleaseFails(n)
  <2>1. PaidIn(Marked(lease, "release-pending"), ext) BY MarkedPaid DEF IInv
  <2>2. QED BY <1>3, <2>1, SavedPaid DEF ReleaseFails
<1>4. QED BY <1>1, <1>2, <1>3 DEF ReleaseDone, ReleaseAtOnce

\* The program counter of a hire moves.
LEMMA HirePcType ==
    ASSUME hire \in [Hires -> HireRecs], NEW n \in Hires, NEW pc \in Pcs, HirePc(n, pc)
    PROVE  hire' \in [Hires -> HireRecs]
<1>1. \A h \in HireRecs : At(h, pc) \in HireRecs
  BY DEF At, HireRecs, Pcs
<1>2. QED BY <1>1 DEF HirePc

-----------------------------------------------------------------------------
(* The steps. *)

Others == UNCHANGED <<now, ext>>

\* A step that only moves a hire, and nothing of a lease.
LEMMA QuietHireStep ==
    ASSUME IInv, Others, UNCHANGED <<lease, tick, disk>>,
           hire' \in [Hires -> HireRecs]
    PROVE  IInv'
BY DEF IInv, Others

\* A step that leaves the hires and the extensions alone and moves the lease.
LEMMA LeaseStep ==
    ASSUME IInv, Others, hire' \in [Hires -> HireRecs],
           PaidIn(lease', ext), PaidIn(disk'.lease, ext), PaidIn(tick'.copy, ext)
    PROVE  IInv'
BY DEF IInv, Others

\* Nothing is held by an idle tick, or by one that waits for docker.
LEMMA NoCopy ==
    ASSUME NEW x
    PROVE  PaidIn(Idle.copy, x) /\ PaidIn([pc |-> "release", copy |-> None].copy, x)
BY DEF PaidIn, Idle

\* A hire begins with a lease without an end.
LEMMA AcquireStep ==
    ASSUME IInv, NEW j \in Jobs, Acquire(j)
    PROVE  IInv'
<1>1. Others /\ UNCHANGED tick BY DEF Acquire, Others, platform
<1> DEFINE l == [n |-> NextHire, job |-> j, st |-> "pending", begun |-> now,
                 exp |-> 0, applied |-> {}]
<1>2. PaidIn(l, ext)
  <2>1. IsFiniteSet({}) BY FS_EmptySet
  <2>2. Shape(l) BY <2>1 DEF Shape, IInv
  <2>3. l.exp = 0 OBVIOUS
  <2>4. QED BY <2>2, <2>3 DEF PaidIn
<1>3. PaidIn(lease', ext) /\ PaidIn(disk'.lease, ext)
  <2>1. Save(l) BY DEF Acquire
  <2>2. QED BY <1>2, <2>1, SavedPaid
<1>4. hire' \in [Hires -> HireRecs]
  <2>1. [pc |-> "starting", job |-> j, begun |-> now] \in HireRecs BY DEF HireRecs, Pcs, IInv
  <2>2. QED BY <2>1 DEF Acquire, IInv
<1>5. PaidIn(tick'.copy, ext) BY <1>1 DEF IInv
<1>6. QED BY <1>1, <1>3, <1>4, <1>5, LeaseStep

\* The steps of a hire.
LEMMA HireSteps ==
    ASSUME IInv, NEW n \in Hires, HireStep(n)
    PROVE  IInv'
<1>0. hire \in [Hires -> HireRecs] BY DEF IInv
<1>1. CASE MakeBox(n)
  <2>1. HirePc(n, "made") /\ Others /\ UNCHANGED <<lease, tick, disk>>
    BY <1>1 DEF MakeBox, Others, platform
  <2>2. hire' \in [Hires -> HireRecs] BY <1>0, <2>1, HirePcType DEF Pcs
  <2>3. QED BY <2>1, <2>2, QuietHireStep
<1>2. CASE StartBox(n)
  <2>1. HirePc(n, "up") /\ Others /\ UNCHANGED <<lease, tick, disk>>
    BY <1>2 DEF StartBox, Others, platform
  <2>2. hire' \in [Hires -> HireRecs] BY <1>0, <2>1, HirePcType DEF Pcs
  <2>3. QED BY <2>1, <2>2, QuietHireStep
<1>3. CASE MakingFails(n)
  <2>1. HirePc(n, "done") /\ Others /\ UNCHANGED <<lease, tick, disk>>
    BY <1>3 DEF MakingFails, Others, platform
  <2>2. hire' \in [Hires -> HireRecs] BY <1>0, <2>1, HirePcType DEF Pcs
  <2>3. QED BY <2>1, <2>2, QuietHireStep
<1>4. CASE BoxReady(n)
  <2>1. HirePc(n, "ready") /\ Others /\ UNCHANGED tick /\ Save(Recorded(n, "ready"))
    BY <1>4 DEF BoxReady, Others, platform
  <2>2. PaidIn(Recorded(n, "ready"), ext) BY RecordedPaid
  <2>3. PaidIn(lease', ext) /\ PaidIn(disk'.lease, ext) BY <2>1, <2>2, SavedPaid
  <2>4. PaidIn(tick'.copy, ext) BY <2>1 DEF IInv
  <2>5. hire' \in [Hires -> HireRecs] BY <1>0, <2>1, HirePcType DEF Pcs
  <2>6. QED BY <2>1, <2>3, <2>4, <2>5, LeaseStep
<1>5. CASE BoxNotReady(n)
  <2>1. HirePc(n, "refused") /\ Others /\ UNCHANGED tick /\ Save(Recorded(n, "degraded"))
    BY <1>5 DEF BoxNotReady, Others, platform
  <2>2. PaidIn(Recorded(n, "degraded"), ext) BY RecordedPaid
  <2>3. PaidIn(lease', ext) /\ PaidIn(disk'.lease, ext) BY <2>1, <2>2, SavedPaid
  <2>4. PaidIn(tick'.copy, ext) BY <2>1 DEF IInv
  <2>5. hire' \in [Hires -> HireRecs] BY <1>0, <2>1, HirePcType DEF Pcs
  <2>6. QED BY <2>1, <2>3, <2>4, <2>5, LeaseStep
<1>6. CASE Deliver(n)
  <2>1. HirePc(n, "sent") /\ Others /\ UNCHANGED <<lease, tick, disk>>
    BY <1>6 DEF Deliver, Others
  <2>2. hire' \in [Hires -> HireRecs] BY <1>0, <2>1, HirePcType DEF Pcs
  <2>3. QED BY <2>1, <2>2, QuietHireStep
<1>7. CASE Delivered(n)
  <2>1. HirePc(n, "done") /\ Others /\ UNCHANGED <<lease, tick, disk>>
    BY <1>7 DEF Delivered, Others, platform
  <2>2. hire' \in [Hires -> HireRecs] BY <1>0, <2>1, HirePcType DEF Pcs
  <2>3. QED BY <2>1, <2>2, QuietHireStep
<1>8. CASE NotDelivered(n)
  <2>1. HirePc(n, "refused") /\ Others /\ UNCHANGED <<lease, tick, disk>>
    BY <1>8 DEF NotDelivered, Others, platform
  <2>2. hire' \in [Hires -> HireRecs] BY <1>0, <2>1, HirePcType DEF Pcs
  <2>3. QED BY <2>1, <2>2, QuietHireStep
<1>9. CASE GiveUp(n)
  <2>1. /\ ReleaseBegins(n) \/ ReleaseDone(n)
        /\ HirePc(n, "failing") \/ HirePc(n, "done")
        /\ Others /\ UNCHANGED tick
    BY <1>9 DEF GiveUp, Others, platform
  <2>2. PaidIn(lease', ext) /\ PaidIn(disk'.lease, ext) BY <2>1, ReleasePaid
  <2>3. PaidIn(tick'.copy, ext) BY <2>1 DEF IInv
  <2>4. hire' \in [Hires -> HireRecs] BY <1>0, <2>1, HirePcType DEF Pcs
  <2>5. QED BY <2>1, <2>2, <2>3, <2>4, LeaseStep
<1>10. CASE GivenUp(n)
  <2>1. ReleaseEnds /\ HirePc(n, "done") /\ Others /\ UNCHANGED tick
    BY <1>10 DEF GivenUp, Others, platform
  <2>2. PaidIn(lease', ext) /\ PaidIn(disk'.lease, ext) BY <2>1, ReleasePaid
  <2>3. PaidIn(tick'.copy, ext) BY <2>1 DEF IInv
  <2>4. hire' \in [Hires -> HireRecs] BY <1>0, <2>1, HirePcType DEF Pcs
  <2>5. QED BY <2>1, <2>2, <2>3, <2>4, LeaseStep
<1>11. QED BY <1>1, <1>2, <1>3, <1>4, <1>5, <1>6, <1>7, <1>8, <1>9, <1>10 DEF HireStep

\* The tick writes back a copy that was right, or releases.
LEMMA TickSteps ==
    ASSUME IInv, TickBegins \/ TickGoesOn
    PROVE  IInv'
<1>0. Others /\ UNCHANGED hire
  BY DEF TickBegins, TickGoesOn, TickHealthy, TickUncertain, TickUnhealthy, TickReleased,
         Others, platform
<1>1. hire' \in [Hires -> HireRecs] BY <1>0 DEF IInv
<1>2. ASSUME NEW n, TickReleases(n) PROVE IInv'
  <2>1. ReleaseBegins(n) \/ ReleaseDone(n) BY <1>2 DEF TickReleases
  <2>2. tick' = Idle \/ tick' = [pc |-> "release", copy |-> None] BY <1>2 DEF TickReleases
  <2>3. PaidIn(tick'.copy, ext) BY <2>2, NoCopy
  <2>4. PaidIn(lease', ext) /\ PaidIn(disk'.lease, ext) BY <2>1, ReleasePaid
  <2>5. QED BY <1>0, <1>1, <2>3, <2>4, LeaseStep
<1>3. CASE TickBegins
  <2>1. CASE Overdue(lease)
    BY <1>2, <1>3, <2>1 DEF TickBegins
  <2>2. CASE ~Overdue(lease)
    <3>1. tick' = [pc |-> "probe", copy |-> lease] /\ UNCHANGED <<lease, disk>>
      BY <1>3, <2>2 DEF TickBegins
    <3>2. tick'.copy = lease BY <3>1
    <3>3. PaidIn(tick'.copy, ext) /\ PaidIn(lease', ext) /\ PaidIn(disk'.lease, ext)
      BY <3>1, <3>2 DEF IInv
    <3>4. QED BY <1>0, <1>1, <3>3, LeaseStep
  <2>3. QED BY <2>1, <2>2
<1>4. CASE TickHealthy
  <2>1. Save(Marked(tick.copy, "ready")) /\ tick' = Idle BY <1>4 DEF TickHealthy
  <2>2. PaidIn(Marked(tick.copy, "ready"), ext) BY MarkedPaid DEF IInv
  <2>3. QED BY <1>0, <1>1, <2>1, <2>2, SavedPaid, NoCopy, LeaseStep
<1>5. CASE TickUncertain
  <2>1. Save(lease) /\ tick' = Idle BY <1>5 DEF TickUncertain
  <2>2. PaidIn(lease, ext) BY DEF IInv
  <2>3. QED BY <1>0, <1>1, <2>1, <2>2, SavedPaid, NoCopy, LeaseStep
<1>6. CASE TickUnhealthy
  BY <1>2, <1>6 DEF TickUnhealthy
<1>7. CASE TickReleased
  <2>1. ReleaseEnds /\ tick' = Idle BY <1>7 DEF TickReleased
  <2>2. PaidIn(lease', ext) /\ PaidIn(disk'.lease, ext) BY <2>1, ReleasePaid
  <2>3. QED BY <1>0, <1>1, <2>1, <2>2, NoCopy, LeaseStep
<1>8. QED BY <1>3, <1>4, <1>5, <1>6, <1>7 DEF TickGoesOn

\* A stop releases.
LEMMA StopSteps ==
    ASSUME IInv, NEW j \in Jobs, StopBegins(j) \/ StopEnds(j)
    PROVE  IInv'
<1>0. Others /\ UNCHANGED <<hire, tick>>
  BY DEF StopBegins, StopEnds, Others, platform
<1>1. hire' \in [Hires -> HireRecs] /\ PaidIn(tick'.copy, ext) BY <1>0 DEF IInv
<1>2. PaidIn(lease', ext) /\ PaidIn(disk'.lease, ext)
  <2>1. CASE StopEnds(j)
    BY <2>1, ReleasePaid DEF StopEnds
  <2>2. CASE StopBegins(j)
    <3>1. CASE UNCHANGED <<lease, disk>>
      BY <3>1 DEF IInv
    <3>2. CASE ReleaseBegins(lease.n) \/ ReleaseDone(lease.n)
      BY <3>2, ReleasePaid
    <3>3. QED BY <2>2, <3>1, <3>2 DEF StopBegins
  <2>3. QED BY <2>1, <2>2
<1>3. QED BY <1>0, <1>1, <1>2, LeaseStep

\* Extensions: a status changes that was not "paid", or a paid one is applied.
LEMMA ExtensionSteps ==
    ASSUME IInv, NEW j \in Jobs,
           AskExtension(j) \/ AnswerExtension(j) \/ PayExtension(j) \/ ApplyExtension(j)
    PROVE  IInv'
<1>1. CASE AskExtension(j) \/ AnswerExtension(j) \/ PayExtension(j)
  <2>1. UNCHANGED <<now, hire, lease, tick, disk>>
    BY <1>1 DEF AskExtension, AnswerExtension, PayExtension, memory
  <2>2. PICK v \in Answers : ext' = [ext EXCEPT ![j] = v]
    BY <1>1 DEF AskExtension, AnswerExtension, PayExtension, Answers
  <2>3. ext[j] # "paid"
    BY <1>1 DEF AskExtension, AnswerExtension, PayExtension
  <2>4. \A e \in Jobs : ext[e] = "paid" => ext'[e] = "paid"
    BY <2>2, <2>3 DEF IInv
  <2>5. ext' \in [Jobs -> Answers] BY <2>2 DEF IInv
  <2>6. PaidIn(lease, ext') /\ PaidIn(tick.copy, ext') /\ PaidIn(disk.lease, ext')
    BY <2>4, StaysPaid DEF IInv
  <2>7. QED BY <2>1, <2>5, <2>6 DEF IInv
<1>2. CASE ApplyExtension(j)
  <2>1. Others /\ UNCHANGED <<hire, tick>> /\ Save(Extended(lease, j))
    BY <1>2 DEF ApplyExtension, Others, platform
  <2>2. lease # None /\ lease.exp > now /\ ext[j] = "paid"
    BY <1>2 DEF ApplyExtension, Extendable
  <2>3. lease.exp # 0 BY <2>2 DEF IInv, PaidIn, Shape
  <2>4. PaidIn(Extended(lease, j), ext) BY <2>2, <2>3, ExtendedPaid DEF IInv
  <2>5. PaidIn(lease', ext) /\ PaidIn(disk'.lease, ext) BY <2>1, <2>4, SavedPaid
  <2>6. hire' \in [Hires -> HireRecs] /\ PaidIn(tick'.copy, ext) BY <2>1 DEF IInv
  <2>7. QED BY <2>1, <2>5, <2>6, LeaseStep
<1>3. QED BY <1>1, <1>2

\* A crash loses the memory; the restart reads the file.
LEMMA CrashSteps ==
    ASSUME IInv, Crash \/ Boot
    PROVE  IInv'
<1>1. CASE Crash
  <2>1. Others /\ UNCHANGED disk /\ lease' = None /\ tick' = Idle
    BY <1>1 DEF Crash, Others, platform
  <2>2. hire' \in [Hires -> HireRecs]
    <3>1. \A n \in Hires : At(hire[n], "done") \in HireRecs BY DEF IInv, At, HireRecs, Pcs
    <3>2. Off \in HireRecs BY DEF Off, HireRecs, Pcs
    <3>3. QED BY <1>1, <3>1, <3>2 DEF Crash
  <2>3. PaidIn(lease', ext) BY <2>1 DEF PaidIn
  <2>4. PaidIn(disk'.lease, ext) BY <2>1 DEF IInv
  <2>5. PaidIn(tick'.copy, ext) BY <2>1, NoCopy
  <2>6. QED BY <2>1, <2>2, <2>3, <2>4, <2>5, LeaseStep
<1>2. CASE Boot
  <2>1. Others /\ UNCHANGED <<hire, tick>>
    BY <1>2 DEF Boot, Others, platform
  <2>2. \A l, c : BootWith(l, c) /\ PaidIn(l, ext) => PaidIn(lease', ext) /\ PaidIn(disk'.lease, ext)
    BY DEF BootWith, Stored
  <2>3. \E c : \/ BootWith(None, c) \/ BootWith(disk.lease, c)
               \/ BootWith(Marked(disk.lease, "released"), c)
               \/ BootWith(Marked(disk.lease, "release-pending"), c)
    BY <1>2 DEF Boot, KeepAtBoot, ReleaseAtBoot, ReleaseFailsAtBoot
  <2>4. PaidIn(None, ext) BY DEF PaidIn
  <2>5. /\ PaidIn(disk.lease, ext)
        /\ PaidIn(Marked(disk.lease, "released"), ext)
        /\ PaidIn(Marked(disk.lease, "release-pending"), ext)
    BY MarkedPaid DEF IInv
  <2>6. PaidIn(lease', ext) /\ PaidIn(disk'.lease, ext) BY <2>2, <2>3, <2>4, <2>5
  <2>7. hire' \in [Hires -> HireRecs] /\ PaidIn(tick'.copy, ext) BY <2>1 DEF IInv
  <2>8. QED BY <2>1, <2>6, <2>7, LeaseStep
<1>3. QED BY <1>1, <1>2

\* The buyer closes jobs, time passes, containers die.
LEMMA WorldSteps ==
    ASSUME IInv, (\E j \in Jobs : Close(j)) \/ Clock \/ (\E n \in Hires : BoxDies(n))
    PROVE  IInv'
BY DEF IInv, Close, Clock, BoxDies, memory, platform

\* It holds at first.
LEMMA InvStarts == Init => IInv
<1> SUFFICES ASSUME Init PROVE IInv OBVIOUS
<1>1. Off \in HireRecs BY DEF Off, HireRecs, Pcs
<1>2. tick.copy = None /\ disk.lease = None BY DEF Init, Idle
<1>3. QED BY <1>1, <1>2 DEF Init, IInv, PaidIn, Answers

\* Every step keeps it.
LEMMA InvStays == IInv /\ [Next]_vars => IInv'
<1> SUFFICES ASSUME IInv, [Next]_vars PROVE IInv' OBVIOUS
<1>1. CASE UNCHANGED vars
  BY <1>1 DEF vars, memory, platform, IInv
<1>2. CASE Next
  BY <1>2, AcquireStep, HireSteps, TickSteps, StopSteps, ExtensionSteps, CrashSteps,
     WorldSteps DEF Next
<1>3. QED BY <1>1, <1>2

\* No extension is on a lease, in memory, in a tick's copy or on disk, that was
\* not paid, and none counts twice, however hires, ticks, stops, webhooks, polls
\* and restarts interleave.
THEOREM PaidTimeOnly == Spec => []TimeIsPaidFor
BY InvStarts, InvStays, InvImplies, PTL DEF Spec

-----------------------------------------------------------------------------
(* The buyer's box, as long as hires do not overlap. *)

Under(n) == hire[n].pc \notin {"off", "done"}

\* A buyer has the box or is about to get it.
Held(n) == n \in handed \/ hire[n].pc \in {"ready", "sent"}

\* The buyer has no claim on the box any more.
Over(l) == status[l.job] = "closed" \/ now >= l.exp

\* A lease is that of its hire.
Own(l) == l # None => /\ l.n \in Hires /\ l.job \in Jobs
                      /\ hire[l.n].pc # "off" /\ hire[l.n].job = l.job

KeepTypes ==
    /\ status \in [Jobs -> {"paid", "delivered", "closed"}]
    /\ active \in [Jobs -> {"no", "on", "stopping"}]
    /\ box \in [Hires -> {"none", "created", "up", "dead", "gone"}]
    /\ up \in BOOLEAN /\ handed \subseteq Hires
    /\ \A n \in Hires : hire[n].pc # "off" => hire[n].job \in Jobs
    /\ \A n \in Hires : hire[n].pc = "off" => hire[n] = Off

\* While the dispatcher runs the file is the table; else nothing is under way.
AwakeInv ==
    /\ up => disk.lease = lease
    /\ ~up => lease = None /\ tick = Idle /\ \A n \in Hires : ~Under(n)

\* Everything under way is about the one lease.
OneInv ==
    /\ Own(disk.lease) /\ Own(tick.copy)
    /\ \A n \in Hires : Under(n) => /\ lease # None => lease.n = n
                                    /\ tick.copy # None => tick.copy.n = n
    /\ tick.copy # None /\ lease # None => lease.n = tick.copy.n
    /\ \A n \in Hires : Under(n) => /\ \A m \in Hires : Under(m) => m = n
                                    /\ \A j \in Jobs : active[j] = "no"
    /\ \A j \in Jobs : up /\ active[j] # "no" => /\ lease # None => lease.job = j
                                                 /\ tick.copy # None => tick.copy.job = j
    /\ \A n \in handed : hire[n].pc \in {"sent", "done"}
    /\ tick.pc = "probe" => tick.copy # None

\* A box that somebody has is to be released only when the buyer's claim is over.
PendingInv ==
    disk.lease # None /\ disk.lease.st = "release-pending" /\ box[disk.lease.n] = "up"
      /\ Held(disk.lease.n) => Over(disk.lease)

KeepInv == IInv /\ KeepTypes /\ AwakeInv /\ OneInv /\ PendingInv

\* What the invariant is besides the times, after a step, and what BuyerKeepsBox
\* says of the step.
Kept == KeepTypes' /\ AwakeInv' /\ OneInv' /\ PendingInv'
Spared ==
    \A n \in handed :
        box[n] = "up" /\ box'[n] = "gone"
            => \/ status[hire[n].job] = "closed"
               \/ Record # None /\ Record.n = n /\ now >= Record.exp

\* A lease that is another one at most in its state and its time.
Follows(l, m) == m # None => l # None /\ m.n = l.n /\ m.job = l.job

\* A mark keeps what a lease is about.
LEMMA MarkedFollows ==
    ASSUME NEW l, NEW x, NEW st, PaidIn(l, x)
    PROVE  /\ Follows(l, Marked(l, st))
           /\ Marked(l, st) # None => Marked(l, st).st = st /\ Marked(l, st).exp = l.exp
<1>1. CASE l = None
  BY <1>1 DEF Marked, Follows
<1>2. CASE l # None
  <2>1. Shape(l)
    BY <1>2 DEF PaidIn
  <2> DEFINE m == [n |-> l.n, job |-> l.job, st |-> st, begun |-> l.begun,
                   exp |-> l.exp, applied |-> l.applied]
  <2>2. Marked(l, st) = m
    BY <1>2, <2>1 DEF Marked, Shape
  <2> QED BY <1>2, <2>2 DEF Follows
<1> QED BY <1>1, <1>2

\* So does an extension.
LEMMA ExtendedFollows ==
    ASSUME NEW l, NEW x, NEW e, PaidIn(l, x), l # None
    PROVE  Follows(l, Extended(l, e)) /\ Extended(l, e).st = l.st
<1>1. Shape(l)
  BY DEF PaidIn
<1>2. CASE e \in l.applied
  BY <1>2 DEF Extended, Follows
<1>3. CASE e \notin l.applied
  <2> DEFINE m == [n |-> l.n, job |-> l.job, st |-> l.st, begun |-> l.begun,
                   exp |-> l.exp + 1, applied |-> l.applied \cup {e}]
  <2>1. Extended(l, e) = m
    BY <1>1, <1>3 DEF Extended, Shape
  <2> QED BY <2>1 DEF Follows
<1> QED BY <1>2, <1>3

\* The number of a hire is one that is not used.
LEMMA NextIsFree ==
    ASSUME RentalAssumption, \E n \in Hires : hire[n] = Off
    PROVE  NextHire \in Hires /\ hire[NextHire] = Off
<1> DEFINE Free == {n \in Hires : hire[n] = Off}
           UpTo(n) == {m \in Free : m <= n}
           T == {UpTo(n) : n \in Free}
           R == StrictSubsetOrdering(Hires)
<1>1. IsWellFoundedOn(R, SUBSET Hires)
  <2>1. MaxHires \in Nat
    BY DEF RentalAssumption
  <2>2. IsFiniteSet(Hires)
    BY <2>1, FS_Interval DEF Hires
  <2> QED BY <2>2, FS_StrictSubsetOrderingWellFounded, FS_FiniteSubsetsOfFinite
<1>2. T \subseteq SUBSET Hires /\ T # {}
  OBVIOUS
<1> HIDE DEF R
<1>3. PICK s \in T : \A y \in T : ~(<<y, s>> \in R)
  <2> HIDE DEF T
  <2> QED BY <1>1, <1>2, WFMin
<1>4. PICK n \in Free : s = UpTo(n)
  OBVIOUS
<1>5. ASSUME NEW m \in Free, m < n PROVE FALSE
  <2>1. m \in Nat /\ n \in Nat
    BY DEF Hires, RentalAssumption
  <2>2. UpTo(m) \subseteq UpTo(n) /\ n \in UpTo(n) /\ n \notin UpTo(m)
    BY <1>5, <2>1 DEF Hires
  <2>3. <<UpTo(m), s>> \in R
    BY <1>4, <2>2 DEF R, StrictSubsetOrdering
  <2> QED BY <1>3, <2>3
<1>6. \E f \in Hires : hire[f] = Off /\ \A m \in Hires : m < f => hire[m] # Off
  BY <1>4, <1>5
<1> QED BY <1>6 DEF NextHire

\* A step that begins nothing: what it leaves is about the one lease.
LEMMA OneStays ==
    ASSUME OneInv, Follows(lease, lease'), Follows(disk.lease, disk'.lease),
           tick' = tick \/ (tick'.copy = None /\ tick'.pc # "probe"),
           \A n \in Hires :
               /\ hire[n].pc # "off" => hire'[n].pc # "off" /\ hire'[n].job = hire[n].job
               /\ Under(n)' => Under(n),
           \A n \in handed' : hire'[n].pc \in {"sent", "done"},
           \A j \in Jobs : active'[j] # "no" => active[j] # "no",
           up' => up
    PROVE  OneInv'
<1>1. Own(disk.lease)' /\ Own(tick.copy)'
  BY DEF OneInv, Own, Follows
<1> QED BY <1>1 DEF OneInv, Own, Follows

\* A release of the one lease, when its buyer has no claim on the box.
LEMMA ReleaseKept ==
    ASSUME KeepInv, up, NEW n \in Hires, UNCHANGED <<status, now, handed>>,
           \A m \in Hires : Held(m)' => Held(m),
           lease # None => lease.n = n,
           box[n] # "up" \/ ~Held(n) \/ (lease # None /\ Over(lease)),
           ReleaseBegins(n) \/ ReleaseDone(n)
    PROVE  /\ disk'.lease = lease' /\ Follows(lease, lease')
           /\ box' \in [Hires -> {"none", "created", "up", "dead", "gone"}]
           /\ PendingInv' /\ Spared
<1>0. disk.lease = lease /\ Record = lease
  BY DEF KeepInv, AwakeInv, Record
<1>t. box \in [Hires -> {"none", "created", "up", "dead", "gone"}] /\ handed \subseteq Hires
  BY DEF KeepInv, KeepTypes
<1>p. PaidIn(lease, ext)
  BY DEF KeepInv, IInv
<1>1. CASE ReleaseBegins(n)
  <2>1. UNCHANGED <<lease, disk>> /\ Remove(n)
    BY <1>1 DEF ReleaseBegins
  <2>2. \A m \in Hires : box'[m] = "up" => box[m] = "up"
    BY <1>t, <2>1 DEF Remove
  <2>3. box' \in [Hires -> {"none", "created", "up", "dead", "gone"}]
    BY <1>t, <2>1 DEF Remove
  <2>4. PendingInv'
    BY <2>1, <2>2 DEF PendingInv, KeepInv, OneInv, Own, Over
  <2>5. Spared
    <3> SUFFICES ASSUME NEW m \in handed, box[m] = "up", box'[m] = "gone"
                 PROVE  \/ status[hire[m].job] = "closed"
                        \/ Record # None /\ Record.n = m /\ now >= Record.exp
      BY DEF Spared
    <3>1. m = n
      BY <1>t, <2>1 DEF Remove
    <3>2. lease # None /\ lease.n = n /\ Over(lease)
      BY <3>1 DEF Held
    <3>3. hire[n].job = lease.job
      BY <1>0, <3>2 DEF KeepInv, OneInv, Own
    <3> QED BY <1>0, <3>1, <3>2, <3>3 DEF Over
  <2> QED BY <1>0, <2>1, <2>3, <2>4, <2>5 DEF Follows
<1>2. CASE ReleaseDone(n)
  <2>1. UNCHANGED box
    BY <1>2 DEF ReleaseDone, ReleaseAtOnce, ReleaseEnds, ReleaseFails
  <2>2. PICK st \in {"released", "release-pending"} : Save(Marked(lease, st))
    BY <1>2 DEF ReleaseDone, ReleaseAtOnce, ReleaseEnds, ReleaseFails
  <2>3. lease' = Marked(lease, st) /\ disk'.lease = lease'
    BY <2>2 DEF Save, Stored
  <2>4. /\ Follows(lease, lease')
        /\ lease' # None => lease'.exp = lease.exp
    BY <1>p, <2>3, MarkedFollows
  <2>5. PendingInv'
    <3> SUFFICES ASSUME lease' # None, box[lease'.n] = "up",
                        lease'.n \in handed' \/ hire'[lease'.n].pc \in {"ready", "sent"}
                 PROVE  status[lease'.job] = "closed" \/ now >= lease'.exp
      BY <2>1, <2>3 DEF PendingInv, Over, Held
    <3>1. lease # None /\ lease'.n = n /\ lease'.job = lease.job
      BY <2>4 DEF Follows
    <3>2. Held(n)
      BY <3>1 DEF Held
    <3> QED BY <2>4, <3>1, <3>2 DEF Over
  <2> QED BY <1>t, <2>1, <2>3, <2>4, <2>5 DEF Spared
<1> QED BY <1>1, <1>2

\* The end of a release touches no box, and leaves nothing to be released.
LEMMA ReleaseEndKept ==
    ASSUME KeepInv, ReleaseEnds
    PROVE  /\ disk'.lease = lease' /\ Follows(lease, lease') /\ UNCHANGED box
           /\ PendingInv' /\ Spared
<1>1. lease' = Marked(lease, "released") /\ disk'.lease = lease' /\ UNCHANGED box
  BY DEF ReleaseEnds, Save, Stored
<1>2. /\ Follows(lease, lease')
      /\ lease' # None => lease'.st = "released"
  BY <1>1, MarkedFollows DEF KeepInv, IInv
<1>3. PendingInv'
  BY <1>1, <1>2 DEF PendingInv
<1> QED BY <1>1, <1>2, <1>3 DEF Spared

\* A step that leaves the record and the boxes alone.
LEMMA PendingStays ==
    ASSUME KeepInv, \/ disk'.lease = disk.lease
                    \/ disk'.lease # None => disk'.lease.st # "release-pending",
           \A n \in Hires : box'[n] = "up" /\ Held(n)' => box[n] = "up" /\ Held(n),
           now' = now \/ now' = now + 1,
           \A j \in Jobs : status[j] = "closed" => status'[j] = "closed"
    PROVE  PendingInv'
<1>1. CASE disk'.lease = disk.lease
  <2> SUFFICES ASSUME disk.lease # None, disk.lease.st = "release-pending",
                      box'[disk.lease.n] = "up",
                      \/ disk.lease.n \in handed'
                      \/ hire'[disk.lease.n].pc \in {"ready", "sent"}
               PROVE  status'[disk.lease.job] = "closed" \/ now' >= disk.lease.exp
    BY <1>1 DEF PendingInv, Over, Held
  <2>1. disk.lease.n \in Hires /\ disk.lease.job \in Jobs
    BY DEF KeepInv, OneInv, Own
  <2>2. box[disk.lease.n] = "up" /\ Held(disk.lease.n)
    BY <1>1, <2>1 DEF Held
  <2>3. Over(disk.lease)
    BY <2>1, <2>2 DEF KeepInv, PendingInv
  <2>4. now \in Nat /\ disk.lease.exp \in Nat
    BY DEF KeepInv, IInv, PaidIn, Shape
  <2> QED BY <2>1, <2>3, <2>4 DEF Over
<1>2. CASE disk'.lease # None => disk'.lease.st # "release-pending"
  BY <1>2 DEF PendingInv
<1> QED BY <1>1, <1>2

\* The hire that moves, and the others.
LEMMA HireMoves ==
    ASSUME hire \in [Hires -> HireRecs], NEW n \in Hires, NEW pc \in Pcs \ {"off"},
           HirePc(n, pc)
    PROVE  /\ hire'[n].pc = pc /\ hire'[n].job = hire[n].job
           /\ \A m \in Hires \ {n} : hire'[m] = hire[m]
BY DEF HirePc, At, HireRecs

\* The steps of a hire before it is delivered.
LEMMA BoxKept ==
    ASSUME Overlap = FALSE, KeepInv, NEW n \in Hires,
           MakeBox(n) \/ StartBox(n) \/ MakingFails(n) \/ BoxReady(n) \/ BoxNotReady(n)
    PROVE  Kept /\ Spared
<1> USE DEF KeepInv, KeepTypes, AwakeInv, Under, Held, Pcs
<1>0. hire \in [Hires -> HireRecs] /\ n \notin handed /\ up
  BY DEF IInv, OneInv, MakeBox, StartBox, MakingFails, BoxReady, BoxNotReady
<1>1. CASE MakeBox(n)
  <2>1. /\ hire'[n].pc = "made" /\ hire'[n].job = hire[n].job
        /\ \A m \in Hires \ {n} : hire'[m] = hire[m]
    BY <1>0, <1>1, HireMoves DEF MakeBox
  <2>2. KeepTypes' /\ AwakeInv' /\ Spared
    BY <1>0, <1>1, <2>1 DEF MakeBox, platform, Spared
  <2>3. OneInv'
    <3>1. UNCHANGED <<lease, disk, tick, handed, up, active>>
      BY <1>1 DEF MakeBox, platform
    <3> QED BY <1>1, <2>1, <3>1, OneStays DEF OneInv, Follows, MakeBox
  <2>4. PendingInv'
    BY <1>0, <1>1, <2>1, PendingStays DEF MakeBox, platform
  <2> QED BY <2>2, <2>3, <2>4 DEF Kept
<1>2. CASE StartBox(n)
  <2>1. /\ hire'[n].pc = "up" /\ hire'[n].job = hire[n].job
        /\ \A m \in Hires \ {n} : hire'[m] = hire[m]
    BY <1>0, <1>2, HireMoves DEF StartBox
  <2>2. KeepTypes' /\ AwakeInv' /\ Spared
    BY <1>0, <1>2, <2>1 DEF StartBox, platform, Spared
  <2>3. OneInv'
    <3>1. UNCHANGED <<lease, disk, tick, handed, up, active>>
      BY <1>2 DEF StartBox, platform
    <3> QED BY <1>2, <2>1, <3>1, OneStays DEF OneInv, Follows, StartBox
  <2>4. PendingInv'
    BY <1>0, <1>2, <2>1, PendingStays DEF StartBox, platform
  <2> QED BY <2>2, <2>3, <2>4 DEF Kept
<1>3. CASE MakingFails(n)
  <2>1. /\ hire'[n].pc = "done" /\ hire'[n].job = hire[n].job
        /\ \A m \in Hires \ {n} : hire'[m] = hire[m]
    BY <1>0, <1>3, HireMoves DEF MakingFails
  <2>2. KeepTypes' /\ AwakeInv' /\ Spared
    BY <1>0, <1>3, <2>1 DEF MakingFails, Remove, platform, Spared
  <2>3. OneInv'
    <3>1. UNCHANGED <<lease, disk, tick, handed, up, active>>
      BY <1>3 DEF MakingFails, platform
    <3> QED BY <1>0, <1>3, <2>1, <3>1, OneStays DEF OneInv, Follows, MakingFails
  <2>4. PendingInv'
    BY <1>0, <1>3, <2>1, PendingStays DEF MakingFails, Remove, platform
  <2> QED BY <2>2, <2>3, <2>4 DEF Kept
<1>4. ASSUME NEW st \in {"ready", "degraded"}, NEW pc \in {"ready", "refused"},
             Save(Recorded(n, st)), HirePc(n, pc), Under(n), pc = "ready" => tick = Idle,
             UNCHANGED <<platform, now, active, tick, up, box, handed>>
      PROVE  Kept /\ Spared
  <2>1. /\ hire'[n].pc = pc /\ hire'[n].job = hire[n].job
        /\ \A m \in Hires \ {n} : hire'[m] = hire[m]
    BY <1>0, <1>4, HireMoves
  <2>2. /\ disk'.lease = lease' /\ lease'.n = n /\ lease'.job = hire[n].job /\ lease'.st = st
    BY <1>4 DEF Save, Stored, Recorded
  <2>3. KeepTypes' /\ AwakeInv' /\ Spared
    BY <1>0, <1>4, <2>1, <2>2 DEF platform, Spared
  <2>4. PendingInv'
    BY <2>2 DEF PendingInv
  <2>5. \A m \in Hires : Under(m)' => Under(m)
    BY <1>4, <2>1
  <2>6. Own(disk.lease)' /\ Own(tick.copy)'
    BY <1>4, <2>1, <2>2 DEF OneInv, Own
  <2>7. OneInv'
    <3>1. \A m \in Hires : Under(m)' => m = n
      BY <1>4, <2>5 DEF OneInv
    <3>2. (\A j \in Jobs : active[j] = "no")'
      BY <1>4 DEF OneInv
    <3>3. (tick.copy # None => tick.copy.n = n)'
      BY <1>4 DEF OneInv
    <3>4. (\A m \in handed : hire[m].pc \in {"sent", "done"})'
      BY <1>0, <1>4, <2>1 DEF OneInv
    <3>5. (tick.pc = "probe" => tick.copy # None)'
      BY <1>4 DEF OneInv
    <3> HIDE DEF Under
    <3> QED BY <2>2, <2>6, <3>1, <3>2, <3>3, <3>4, <3>5 DEF OneInv
  <2> QED BY <2>3, <2>4, <2>7 DEF Kept
<1>5. CASE BoxReady(n)
  BY <1>4, <1>5 DEF BoxReady
<1>6. CASE BoxNotReady(n)
  BY <1>4, <1>6 DEF BoxNotReady
<1> QED BY <1>1, <1>2, <1>3, <1>5, <1>6

\* The delivery of a box, and what follows when it fails.
LEMMA DeliveryKept ==
    ASSUME KeepInv, NEW n \in Hires,
           Deliver(n) \/ Delivered(n) \/ NotDelivered(n) \/ GiveUp(n) \/ GivenUp(n)
    PROVE  Kept /\ Spared
<1> USE DEF KeepInv, KeepTypes, AwakeInv, Under, Held, Pcs
<1>0. hire \in [Hires -> HireRecs] /\ up /\ disk.lease = lease
  BY DEF IInv, Deliver, Delivered, NotDelivered, GiveUp, GivenUp
<1>1. CASE Deliver(n)
  <2>1. /\ hire'[n].pc = "sent" /\ hire'[n].job = hire[n].job
        /\ \A m \in Hires \ {n} : hire'[m] = hire[m]
    BY <1>0, <1>1, HireMoves DEF Deliver
  <2>2. UNCHANGED <<lease, disk, tick, up, active, box, now>> /\ handed' = handed \cup {n}
    BY <1>1 DEF Deliver
  <2>3. KeepTypes' /\ AwakeInv' /\ Spared
    BY <1>0, <1>1, <2>1 DEF Deliver, Spared
  <2>4. OneInv'
    BY <1>1, <2>1, <2>2, OneStays DEF OneInv, Follows, Deliver
  <2>5. PendingInv'
    BY <1>0, <1>1, <2>1, <2>2, PendingStays DEF Deliver
  <2> QED BY <2>3, <2>4, <2>5 DEF Kept
<1>2. CASE Delivered(n)
  <2>1. /\ hire'[n].pc = "done" /\ hire'[n].job = hire[n].job
        /\ \A m \in Hires \ {n} : hire'[m] = hire[m]
    BY <1>0, <1>2, HireMoves DEF Delivered
  <2>2. UNCHANGED <<lease, disk, tick, up, handed, box, now, status>>
    BY <1>2 DEF Delivered, platform
  <2>3. KeepTypes' /\ AwakeInv' /\ Spared
    BY <1>0, <1>2, <2>1 DEF Delivered, Spared, platform
  <2>4. OneInv'
    <3>1. Own(disk.lease)' /\ Own(tick.copy)'
      BY <2>1, <2>2 DEF OneInv, Own
    <3>2. \A m \in Hires : ~Under(m)'
      BY <1>2, <2>1 DEF OneInv, Delivered
    <3>3. \A j \in Jobs : active'[j] # "no" => j = hire[n].job
      BY <1>2 DEF OneInv, Delivered
    <3>4. /\ lease # None => lease.job = hire[n].job
          /\ tick.copy # None => tick.copy.job = hire[n].job
      BY <1>0, <1>2 DEF OneInv, Delivered, Own
    <3>5. \A m \in handed' : hire'[m].pc \in {"sent", "done"}
      BY <2>1, <2>2 DEF OneInv
    <3>6. tick.copy # None /\ lease # None => lease.n = tick.copy.n
      BY DEF OneInv
    <3>7. tick.pc = "probe" => tick.copy # None
      BY DEF OneInv
    <3> HIDE DEF Under
    <3> QED BY <2>2, <3>1, <3>2, <3>3, <3>4, <3>5, <3>6, <3>7 DEF OneInv
  <2>5. PendingInv'
    BY <1>0, <1>2, <2>1, <2>2, PendingStays DEF Delivered
  <2> QED BY <2>3, <2>4, <2>5 DEF Kept
<1>3. CASE NotDelivered(n)
  <2>1. /\ hire'[n].pc = "refused" /\ hire'[n].job = hire[n].job
        /\ \A m \in Hires \ {n} : hire'[m] = hire[m]
    BY <1>0, <1>3, HireMoves DEF NotDelivered
  <2>2. UNCHANGED <<lease, disk, tick, up, active, box, now, status>> /\ handed' = handed \ {n}
    BY <1>3 DEF NotDelivered, platform
  <2>3. KeepTypes' /\ AwakeInv' /\ Spared
    BY <1>0, <1>3, <2>1 DEF NotDelivered, Spared, platform
  <2>4. OneInv'
    BY <1>3, <2>1, <2>2, OneStays DEF OneInv, Follows, NotDelivered
  <2>5. PendingInv'
    BY <1>0, <1>3, <2>1, <2>2, PendingStays DEF NotDelivered
  <2> QED BY <2>3, <2>4, <2>5 DEF Kept
<1>4. ASSUME NEW pc \in {"failing", "done"}, HirePc(n, pc), hire[n].pc \in {"refused", "failing"},
             UNCHANGED <<status, now, active, tick, up, handed>>,
             ReleaseBegins(n) \/ ReleaseDone(n) \/ ReleaseEnds
      PROVE  Kept /\ Spared
  <2>1. /\ hire'[n].pc = pc /\ hire'[n].job = hire[n].job
        /\ \A m \in Hires \ {n} : hire'[m] = hire[m]
    BY <1>0, <1>4, HireMoves
  <2>2. ~Held(n) /\ (lease # None => lease.n = n)
    BY <1>4 DEF OneInv
  <2>3. \A m \in Hires : Held(m)' => Held(m)
    BY <1>4, <2>1
  <2>4. /\ disk'.lease = lease' /\ Follows(lease, lease')
        /\ box' \in [Hires -> {"none", "created", "up", "dead", "gone"}]
        /\ PendingInv' /\ Spared
    <3>1. CASE ReleaseEnds
      BY <3>1, ReleaseEndKept
    <3>2. CASE ReleaseBegins(n) \/ ReleaseDone(n)
      <4> HIDE DEF KeepInv, Held
      <4> QED BY <1>0, <1>4, <2>2, <2>3, <3>2, ReleaseKept
    <3> QED BY <1>4, <3>1, <3>2
  <2>5. KeepTypes' /\ AwakeInv'
    BY <1>0, <1>4, <2>1, <2>4
  <2>6. OneInv'
    BY <1>0, <1>4, <2>1, <2>4, OneStays DEF OneInv
  <2> QED BY <2>4, <2>5, <2>6 DEF Kept
<1>5. CASE GiveUp(n)
  BY <1>4, <1>5 DEF GiveUp, platform
<1>6. CASE GivenUp(n)
  BY <1>4, <1>6 DEF GivenUp, platform
<1> QED BY <1>1, <1>2, <1>3, <1>5, <1>6

\* A hire begins when nothing of an earlier one is going on.
LEMMA AcquireKept ==
    ASSUME RentalAssumption, Overlap = FALSE, KeepInv, NEW j \in Jobs, Acquire(j)
    PROVE  Kept /\ Spared
<1> DEFINE n == NextHire
<1>1. n \in Hires /\ hire[n] = Off /\ hire[n].pc = "off"
  BY NextIsFree DEF Acquire, CanHire, Off
<1>2. Calm /\ up
  BY DEF Acquire, CanHire
<1>3. /\ UNCHANGED <<status, now, active, tick, up, box, handed>>
      /\ hire' = [hire EXCEPT ![n] = [pc |-> "starting", job |-> j, begun |-> now]]
  BY DEF Acquire, platform
<1>4. /\ disk'.lease = lease'
      /\ lease' # None => lease'.n = n /\ lease'.job = j /\ lease'.st = "pending"
  BY DEF Acquire, Save, Stored
<1> HIDE DEF n
<1>5. hire \in [Hires -> HireRecs]
  BY DEF KeepInv, IInv
<1>6. /\ hire'[n].pc = "starting" /\ hire'[n].job = j
      /\ \A m \in Hires \ {n} : hire'[m] = hire[m]
  BY <1>1, <1>3, <1>5
<1>7. KeepTypes' /\ AwakeInv' /\ Spared
  BY <1>1, <1>2, <1>3, <1>4, <1>6 DEF KeepInv, KeepTypes, AwakeInv, Spared
<1>8. PendingInv'
  BY <1>4 DEF PendingInv
<1>9. OneInv'
  <2>1. Own(disk.lease)' /\ tick'.copy = None /\ tick'.pc = "idle"
    BY <1>1, <1>2, <1>3, <1>4, <1>6 DEF Own, Calm, Idle
  <2>2. \A m \in Hires : Under(m)' => m = n
    BY <1>2, <1>6 DEF Under, Calm
  <2>3. \A k \in Jobs : active'[k] = "no"
    BY <1>2, <1>3 DEF Calm
  <2>4. \A m \in handed' : hire'[m].pc \in {"sent", "done"}
    BY <1>1, <1>3, <1>6 DEF KeepInv, KeepTypes, OneInv
  <2> QED BY <1>4, <2>1, <2>2, <2>3, <2>4 DEF OneInv, Own
<1> QED BY <1>7, <1>8, <1>9 DEF Kept

\* What a step leaves alone that touches the lease but no hire.
Apart == UNCHANGED <<status, now, hire, up, handed>>

\* A step that releases the one lease, or finds it healthy.
LEMMA LeaseKept ==
    ASSUME KeepInv, up, Apart,
           active' \in [Jobs -> {"no", "on", "stopping"}],
           \A j \in Jobs : active'[j] # "no" => active[j] # "no",
           box' \in [Hires -> {"none", "created", "up", "dead", "gone"}],
           disk'.lease = lease', Follows(lease, lease'),
           tick' = tick \/ (tick'.copy = None /\ tick'.pc # "probe"),
           PendingInv', Spared
    PROVE  Kept /\ Spared
<1>1. KeepTypes' /\ AwakeInv'
  BY DEF KeepInv, KeepTypes, AwakeInv, Apart, Under
<1>2. OneInv'
  BY OneStays DEF KeepInv, AwakeInv, OneInv, KeepTypes, Apart, Under
<1> QED BY <1>1, <1>2 DEF Kept

\* The tick.
LEMMA TickKept ==
    ASSUME KeepInv, TickBegins \/ TickGoesOn
    PROVE  Kept /\ Spared
<1>0. tick # Idle => up
  BY DEF KeepInv, AwakeInv
<1>t. /\ active \in [Jobs -> {"no", "on", "stopping"}]
      /\ box \in [Hires -> {"none", "created", "up", "dead", "gone"}]
  BY DEF KeepInv, KeepTypes
<1>d. up => disk.lease = lease
  BY DEF KeepInv, AwakeInv
<1>p. tick.pc = "probe" => tick # Idle /\ tick.copy # None /\ tick.copy.n \in Hires
  BY DEF Idle, KeepInv, OneInv, Own
<1>1. ASSUME TickBegins, Overdue(lease) PROVE Kept /\ Spared
  <2>1. /\ Apart /\ UNCHANGED active /\ up /\ lease # None
        /\ tick'.copy = None /\ tick'.pc # "probe"
        /\ ReleaseBegins(lease.n) \/ ReleaseDone(lease.n)
    BY <1>1 DEF TickBegins, TickReleases, Apart, platform, Idle
  <2>2. lease.n \in Hires /\ lease.exp \in Nat /\ now \in Nat
    BY <1>d, <2>1 DEF KeepInv, OneInv, Own, IInv, PaidIn, Shape
  <2>3. box[lease.n] # "up" \/ ~Held(lease.n) \/ (lease # None /\ Over(lease))
    BY <1>1, <1>d, <2>1, <2>2 DEF KeepInv, PendingInv, Over, Overdue
  <2>4. \A m \in Hires : Held(m)' => Held(m)
    BY <2>1 DEF Held, Apart
  <2>5. /\ disk'.lease = lease' /\ Follows(lease, lease')
        /\ box' \in [Hires -> {"none", "created", "up", "dead", "gone"}]
        /\ PendingInv' /\ Spared
    BY <2>1, <2>2, <2>3, <2>4, ReleaseKept DEF Apart
  <2> QED BY <1>t, <2>1, <2>5, LeaseKept
<1>2. ASSUME TickBegins, ~Overdue(lease) PROVE Kept /\ Spared
  <2>1. /\ Apart /\ UNCHANGED <<active, lease, disk, box>> /\ up /\ lease # None
        /\ tick' = [pc |-> "probe", copy |-> lease]
    BY <1>2 DEF TickBegins, Apart, platform
  <2>2. KeepTypes' /\ AwakeInv' /\ Spared
    BY <2>1 DEF KeepInv, KeepTypes, AwakeInv, Apart, Spared, Under
  <2>3. PendingInv'
    BY <2>1 DEF KeepInv, PendingInv, Held, Over, Apart
  <2>4. OneInv'
    BY <1>d, <2>1 DEF KeepInv, OneInv, Own, Under, Apart
  <2> QED BY <2>2, <2>3, <2>4 DEF Kept
<1>3. CASE TickHealthy
  <2>1. /\ Apart /\ UNCHANGED <<active, box>> /\ up /\ tick' = Idle /\ tick.pc = "probe"
        /\ lease' = Marked(tick.copy, "ready") /\ disk'.lease = lease'
    BY <1>0, <1>3, <1>p DEF TickHealthy, Apart, platform, Save, Stored
  <2>2. Follows(tick.copy, lease') /\ (lease' # None => lease'.st = "ready")
    BY <2>1, MarkedFollows DEF KeepInv, IInv
  <2>3. KeepTypes' /\ AwakeInv' /\ Spared
    BY <2>1 DEF KeepInv, KeepTypes, AwakeInv, Apart, Spared, Under
  <2>4. PendingInv'
    BY <2>1, <2>2 DEF PendingInv
  <2>5. OneInv'
    <3>1. Own(disk.lease)' /\ tick'.copy = None /\ tick'.pc # "probe"
      BY <2>1, <2>2 DEF KeepInv, OneInv, Own, Follows, Apart, Idle
    <3> QED BY <2>1, <2>2, <3>1 DEF KeepInv, OneInv, Own, Under, Apart, Follows
  <2> QED BY <2>3, <2>4, <2>5 DEF Kept
<1>4. CASE TickUncertain
  <2>1. /\ Apart /\ UNCHANGED <<active, box, lease>> /\ up /\ tick' = Idle
        /\ disk'.lease = lease'
    BY <1>0, <1>4, <1>p DEF TickUncertain, Apart, platform, Save, Stored
  <2>2. PendingInv'
    BY <1>d, <2>1 DEF KeepInv, PendingInv, Held, Over, Apart
  <2>3. Spared /\ tick'.copy = None /\ tick'.pc # "probe" /\ Follows(lease, lease')
    BY <2>1 DEF Spared, Idle, Follows
  <2> QED BY <1>t, <2>1, <2>2, <2>3, LeaseKept
<1>5. ASSUME Apart, UNCHANGED active, up, tick'.copy = None, tick'.pc # "probe", ReleaseEnds
      PROVE  Kept /\ Spared
  <2>1. /\ disk'.lease = lease' /\ Follows(lease, lease') /\ UNCHANGED box
        /\ PendingInv' /\ Spared
    BY <1>5, ReleaseEndKept
  <2> QED BY <1>t, <1>5, <2>1, LeaseKept
<1>6. CASE TickUnhealthy
  <2> DEFINE n == tick.copy.n
  <2>1. /\ Apart /\ UNCHANGED active /\ up /\ n \in Hires
        /\ tick'.copy = None /\ tick'.pc # "probe"
        /\ ReleaseBegins(n) \/ ReleaseDone(n)
    BY <1>0, <1>6, <1>p DEF TickUnhealthy, TickReleases, Apart, platform, Idle
  <2>2. CASE n \in known
    <3>1. box[n] # "up" /\ (lease # None => lease.n = n)
      BY <1>6, <1>p, <2>2 DEF TickUnhealthy, Running, KeepInv, OneInv
    <3>2. \A m \in Hires : Held(m)' => Held(m)
      BY <2>1 DEF Held, Apart
    <3>3. /\ disk'.lease = lease' /\ Follows(lease, lease')
          /\ box' \in [Hires -> {"none", "created", "up", "dead", "gone"}]
          /\ PendingInv' /\ Spared
      BY <2>1, <3>1, <3>2, ReleaseKept DEF Apart
    <3> QED BY <1>t, <2>1, <3>3, LeaseKept
  <2>3. CASE n \notin known
    <3>1. ReleaseEnds
      BY <2>1, <2>3 DEF ReleaseBegins, ReleaseDone, ReleaseAtOnce, ReleaseFails
    <3> QED BY <1>5, <2>1, <3>1
  <2> QED BY <2>2, <2>3
<1>7. CASE TickReleased
  <2>1. tick # Idle
    BY <1>7 DEF TickReleased, Idle
  <2> QED BY <1>0, <1>5, <1>7, <2>1 DEF TickReleased, Apart, platform, Idle
<1> QED BY <1>1, <1>2, <1>3, <1>4, <1>6, <1>7 DEF TickGoesOn

\* A job's stop, and the extensions.
LEMMA JobKept ==
    ASSUME KeepInv, NEW j \in Jobs,
           \/ StopBegins(j) \/ StopEnds(j) \/ AskExtension(j) \/ AnswerExtension(j)
           \/ PayExtension(j) \/ ApplyExtension(j)
    PROVE  Kept /\ Spared
<1>t. /\ active \in [Jobs -> {"no", "on", "stopping"}]
      /\ box \in [Hires -> {"none", "created", "up", "dead", "gone"}]
  BY DEF KeepInv, KeepTypes
<1>d. up => disk.lease = lease
  BY DEF KeepInv, AwakeInv
<1>1. CASE StopBegins(j)
  <2>1. Apart /\ up /\ UNCHANGED tick /\ active[j] = "on"
    BY <1>1 DEF StopBegins, Apart, platform
  <2>2. /\ active' \in [Jobs -> {"no", "on", "stopping"}]
        /\ \A i \in Jobs : active'[i] # "no" => active[i] # "no"
    BY <1>1, <1>t DEF StopBegins, SetActive
  <2>3. CASE UNCHANGED <<lease, disk, box>>
    <3>1. Spared /\ PendingInv' /\ Follows(lease, lease') /\ disk'.lease = lease'
      BY <1>d, <2>1, <2>3 DEF Spared, KeepInv, PendingInv, Held, Over, Apart, Follows
    <3> QED BY <1>t, <2>1, <2>2, <2>3, <3>1, LeaseKept
  <2>4. CASE lease # None /\ lease.st # "released"
             /\ (ReleaseBegins(lease.n) \/ ReleaseDone(lease.n))
    <3>1. lease.job = j /\ lease.n \in Hires
      BY <1>d, <2>1, <2>4 DEF KeepInv, OneInv, Own
    <3>2. Over(lease)
      BY <1>1, <2>4, <3>1 DEF StopBegins, GoneOrExpired, Over, KeepInv, IInv, PaidIn, Shape
    <3>3. \A m \in Hires : Held(m)' => Held(m)
      BY <2>1 DEF Held, Apart
    <3>4. /\ disk'.lease = lease' /\ Follows(lease, lease')
          /\ box' \in [Hires -> {"none", "created", "up", "dead", "gone"}]
          /\ PendingInv' /\ Spared
      BY <2>1, <2>4, <3>1, <3>2, <3>3, ReleaseKept DEF Apart
    <3> QED BY <2>1, <2>2, <3>4, LeaseKept
  <2> QED BY <1>1, <2>3, <2>4 DEF StopBegins
<1>2. CASE StopEnds(j)
  <2>1. /\ Apart /\ up /\ UNCHANGED tick /\ ReleaseEnds
        /\ active' \in [Jobs -> {"no", "on", "stopping"}]
        /\ \A i \in Jobs : active'[i] # "no" => active[i] # "no"
    BY <1>2, <1>t DEF StopEnds, Apart, platform, SetActive
  <2>2. /\ disk'.lease = lease' /\ Follows(lease, lease') /\ UNCHANGED box
        /\ PendingInv' /\ Spared
    BY <2>1, ReleaseEndKept
  <2> QED BY <1>t, <2>1, <2>2, LeaseKept
<1>3. CASE AskExtension(j) \/ AnswerExtension(j) \/ PayExtension(j)
  <2>1. UNCHANGED <<status, now, lease, active, hire, tick, up, disk, box, handed>>
    BY <1>3 DEF AskExtension, AnswerExtension, PayExtension, memory
  <2> QED BY <2>1 DEF KeepInv, Kept, Spared, KeepTypes, AwakeInv, OneInv, PendingInv, Own,
                      Under, Held, Over
<1>4. CASE ApplyExtension(j)
  <2>1. /\ Apart /\ up /\ UNCHANGED <<tick, active, box>> /\ lease # None /\ ~Ended(lease)
        /\ lease' = Extended(lease, j) /\ disk'.lease = lease'
    BY <1>4 DEF ApplyExtension, Apart, platform, Save, Stored, Extendable
  <2>2. Follows(lease, lease') /\ lease'.st = lease.st
    BY <2>1, ExtendedFollows DEF KeepInv, IInv
  <2>3. PendingInv' /\ Spared
    BY <2>1, <2>2 DEF PendingInv, Spared, Ended
  <2> QED BY <1>t, <2>1, <2>2, <2>3, LeaseKept
<1> QED BY <1>1, <1>2, <1>3, <1>4

\* A crash ends what is under way, and the file stays.
LEMMA CrashKept ==
    ASSUME KeepInv, Crash
    PROVE  Kept /\ Spared
<1>1. /\ UNCHANGED <<status, now, active, disk, box, handed>>
      /\ up' = FALSE /\ lease' = None /\ tick' = Idle
  BY DEF Crash, platform
<1>2. \A n \in Hires :
         /\ hire[n].pc = "off" => hire'[n] = Off
         /\ hire[n].pc # "off" => hire'[n].pc = "done" /\ hire'[n].job = hire[n].job
  <2> SUFFICES ASSUME NEW n \in Hires
               PROVE  /\ hire[n].pc = "off" => hire'[n] = Off
                      /\ hire[n].pc # "off" => hire'[n].pc = "done" /\ hire'[n].job = hire[n].job
    OBVIOUS
  <2>1. hire'[n] = IF hire[n] = Off THEN Off ELSE At(hire[n], "done")
    BY DEF Crash
  <2> QED BY <2>1 DEF At, Off, KeepInv, KeepTypes
<1>o. Off.pc = "off"
  BY DEF Off
<1>h. handed \subseteq Hires /\ \A n \in handed : hire[n].pc \in {"sent", "done"}
  BY DEF KeepInv, KeepTypes, OneInv
<1>u. \A n \in Hires : ~Under(n)'
  BY <1>2, <1>o DEF Under
<1>3. KeepTypes' /\ AwakeInv' /\ Spared
  <2>1. KeepTypes'
    BY <1>1, <1>2, <1>o DEF KeepInv, KeepTypes
  <2>2. AwakeInv'
    BY <1>1, <1>u DEF AwakeInv
  <2> QED BY <1>1, <2>1, <2>2 DEF Spared
<1>4. OneInv'
  <2>1. \A n \in handed' : hire'[n].pc \in {"sent", "done"}
    BY <1>1, <1>2, <1>h
  <2>2. tick'.copy = None /\ tick'.pc # "probe" /\ Follows(lease, lease')
        /\ Follows(disk.lease, disk'.lease)
    BY <1>1 DEF Follows, Idle
  <2>3. \A n \in Hires : Under(n)' => Under(n)
    BY <1>u
  <2> HIDE DEF Under
  <2> QED
    BY <1>1, <1>2, <2>1, <2>2, <2>3, OneStays DEF KeepInv
<1>5. PendingInv'
  <2>1. \A n \in Hires : Held(n)' => Held(n)
    BY <1>1, <1>2, <1>o DEF Held
  <2> QED BY <1>1, <2>1, PendingStays
<1> QED BY <1>3, <1>4, <1>5 DEF Kept

\* A restart with what is left of the lease, and its box kept or removed with a reason.
LEMMA BootedKept ==
    ASSUME KeepInv, ~up, up', UNCHANGED <<status, now, hire, tick, handed>>,
           NEW l, Follows(disk.lease, l), lease' = l, disk'.lease = l, active' = Adopted(l),
           \/ UNCHANGED box
           \/ disk.lease # None /\ Over(disk.lease) /\ Remove(disk.lease.n),
           \/ l = disk.lease
           \/ l # None /\ l.st = "release-pending"
                => UNCHANGED box /\ Over(disk.lease) /\ l.exp = disk.lease.exp
    PROVE  Kept /\ Spared
<1>t. box \in [Hires -> {"none", "created", "up", "dead", "gone"}] /\ handed \subseteq Hires
  BY DEF KeepInv, KeepTypes
<1>1. /\ box' \in [Hires -> {"none", "created", "up", "dead", "gone"}]
      /\ \A n \in Hires : box'[n] = "up" => box[n] = "up"
  BY <1>t DEF Remove
<1>2. active' \in [Jobs -> {"no", "on", "stopping"}]
  BY DEF Adopted
<1>3. KeepTypes' /\ AwakeInv'
  BY <1>1, <1>2 DEF KeepInv, KeepTypes, AwakeInv, Under
<1>4. Spared
  <2> SUFFICES ASSUME NEW n \in handed, box[n] = "up", box'[n] = "gone"
               PROVE  \/ status[hire[n].job] = "closed"
                      \/ Record # None /\ Record.n = n /\ now >= Record.exp
    BY DEF Spared
  <2>1. /\ disk.lease # None /\ Over(disk.lease) /\ disk.lease.n = n
    BY <1>t DEF Remove
  <2>2. hire[n].job = disk.lease.job
    BY <2>1 DEF KeepInv, OneInv, Own
  <2> QED BY <2>1, <2>2 DEF Over, Record
<1>5. PendingInv'
  <2>1. \A n \in Hires : Held(n)' => Held(n)
    BY DEF Held
  <2>2. CASE l = disk.lease
    BY <1>1, <2>1, <2>2, PendingStays
  <2>3. CASE l # None /\ l.st = "release-pending"
                => UNCHANGED box /\ Over(disk.lease) /\ l.exp = disk.lease.exp
    BY <2>3 DEF PendingInv, Over, Follows
  <2> QED BY <2>2, <2>3
<1>6. OneInv'
  <2>1. \A n \in Hires : ~Under(n)'
    BY DEF KeepInv, AwakeInv, Under
  <2>2. tick'.copy = None /\ tick'.pc # "probe"
    BY DEF KeepInv, AwakeInv, Idle
  <2>3. Own(disk.lease)'
    BY DEF KeepInv, OneInv, Own, Follows
  <2>4. \A j \in Jobs : active'[j] # "no" => l.job = j
    BY DEF Adopted
  <2>5. \A n \in handed' : hire'[n].pc \in {"sent", "done"}
    BY DEF KeepInv, OneInv
  <2> HIDE DEF Under
  <2> QED BY <2>1, <2>2, <2>3, <2>4, <2>5 DEF OneInv, Own
<1> QED BY <1>3, <1>4, <1>5, <1>6 DEF Kept

\* The restart.
LEMMA BootKept ==
    ASSUME KeepInv, Boot
    PROVE  Kept /\ Spared
<1> DEFINE l == disk.lease
<1>1. ~up /\ up' /\ UNCHANGED <<status, now, hire, tick, handed>>
  BY DEF Boot, platform
<1>2. ASSUME NEW r, NEW c, BootWith(r, c)
      PROVE  lease' = r /\ disk'.lease = r /\ active' = Adopted(r)
  BY <1>2 DEF BootWith, Stored
<1>3. ASSUME NEW st
      PROVE  /\ Follows(l, Marked(l, st)) /\ Follows(l, None) /\ Follows(l, l)
             /\ Marked(l, st) # None => Marked(l, st).st = st /\ Marked(l, st).exp = l.exp
  BY MarkedFollows DEF KeepInv, IInv, Follows
<1>4. CASE KeepAtBoot(None) \/ KeepAtBoot(l)
  <2>1. PICK r \in {None, l} : KeepAtBoot(r)
    BY <1>4
  <2>2. lease' = r /\ disk'.lease = r /\ active' = Adopted(r) /\ UNCHANGED box
    BY <1>2, <2>1 DEF KeepAtBoot
  <2> QED BY <1>1, <1>3, <2>1, <2>2, BootedKept
<1>5. ASSUME l # None, Over(l), NEW r \in {None, Marked(l, "released")}, ReleaseAtBoot(l, r)
      PROVE  Kept /\ Spared
  <2>1. lease' = r /\ disk'.lease = r /\ active' = Adopted(r)
    BY <1>2, <1>5 DEF ReleaseAtBoot
  <2>2. UNCHANGED box \/ Remove(l.n)
    BY <1>5 DEF ReleaseAtBoot
  <2>3. Follows(l, r) /\ (r # None => r.st # "release-pending")
    BY <1>3
  <2> QED BY <1>1, <1>5, <2>1, <2>2, <2>3, BootedKept
<1>6. ASSUME l # None, Over(l), NEW c, ReleaseFailsAtBoot(l, c)
      PROVE  Kept /\ Spared
  <2> DEFINE r == Marked(l, "release-pending")
  <2>1. lease' = r /\ disk'.lease = r /\ active' = Adopted(r) /\ UNCHANGED box
    BY <1>2, <1>6 DEF ReleaseFailsAtBoot
  <2>2. Follows(l, r) /\ (r # None => r.exp = l.exp)
    BY <1>3
  <2> HIDE DEF r
  <2> QED BY <1>1, <1>6, <2>1, <2>2, BootedKept
<1>7. CASE /\ l # None
           /\ \/ Adoptable(l) /\ status[l.job] = "closed"
              \/ \E listed : ~KeptAtBoot(l, listed)
           /\ \/ \E r \in {None, Marked(l, "released")} : ReleaseAtBoot(l, r)
              \/ \E c : ReleaseFailsAtBoot(l, c)
  <2>1. l.exp \in Nat /\ now \in Nat
    BY <1>7 DEF KeepInv, IInv, PaidIn, Shape
  <2>2. Over(l)
    BY <1>7, <2>1 DEF Over, KeptAtBoot
  <2> QED BY <1>5, <1>6, <1>7, <2>2
<1>8. \/ KeepAtBoot(None) \/ KeepAtBoot(l)
      \/ /\ l # None
         /\ \/ Adoptable(l) /\ status[l.job] = "closed"
            \/ \E listed : ~KeptAtBoot(l, listed)
         /\ \/ \E r \in {None, Marked(l, "released")} : ReleaseAtBoot(l, r)
            \/ \E c : ReleaseFailsAtBoot(l, c)
  BY DEF Boot
<1> QED BY <1>4, <1>7, <1>8

\* The buyer, the clock and docker.
LEMMA WorldKept ==
    ASSUME KeepInv, (\E j \in Jobs : Close(j)) \/ Clock \/ (\E n \in Hires : BoxDies(n))
    PROVE  Kept /\ Spared
<1>1. /\ UNCHANGED <<lease, disk, active, hire, tick, up, handed>>
      /\ status' \in [Jobs -> {"paid", "delivered", "closed"}]
      /\ \A j \in Jobs : status[j] = "closed" => status'[j] = "closed"
      /\ now' = now \/ now' = now + 1
  BY DEF KeepInv, KeepTypes, Close, Clock, BoxDies, memory, platform
<1>2. /\ box' \in [Hires -> {"none", "created", "up", "dead", "gone"}]
      /\ \A n \in Hires : box'[n] = "up" => box[n] = "up"
      /\ \A n \in Hires : box'[n] = "gone" => box[n] = "gone"
  BY DEF KeepInv, KeepTypes, Close, Clock, BoxDies
<1>3. KeepTypes' /\ AwakeInv' /\ Spared
  BY <1>1, <1>2 DEF KeepInv, KeepTypes, AwakeInv, Under, Spared
<1>4. OneInv'
  BY <1>1 DEF KeepInv, OneInv, Own, Under
<1>5. PendingInv'
  BY <1>1, <1>2, PendingStays DEF Held
<1> QED BY <1>3, <1>4, <1>5 DEF Kept

\* Nothing is held at first.
LEMMA KeepStarts == Init => KeepInv
<1> SUFFICES ASSUME Init PROVE KeepInv OBVIOUS
<1>1. \A n \in Hires : hire[n].pc = "off"
  BY DEF Init, Off
<1>2. tick.copy = None /\ tick.pc = "idle" /\ disk.lease = None
  BY DEF Init, Idle
<1> QED BY <1>1, <1>2, InvStarts
     DEF Init, KeepInv, KeepTypes, AwakeInv, OneInv, PendingInv, Own, Under

\* Every step keeps the invariant and spares the buyer's box.
LEMMA KeepStays ==
    ASSUME Overlap = FALSE, KeepInv, [Next]_vars
    PROVE  KeepInv' /\ (Spared \/ UNCHANGED vars)
<1>1. IInv'
  BY InvStays DEF KeepInv
<1>2. CASE UNCHANGED vars
  BY <1>1, <1>2 DEF vars, memory, platform, KeepInv, KeepTypes, AwakeInv, OneInv, PendingInv,
                    Own, Under, Held, Over
<1>3. CASE Next
  <2>1. Kept /\ Spared
    <3>1. CASE \E n \in Hires : HireStep(n)
      BY <3>1, BoxKept, DeliveryKept DEF HireStep
    <3>2. CASE TickBegins \/ TickGoesOn
      BY <3>2, TickKept
    <3>3. CASE \E j \in Jobs : Acquire(j)
      BY <3>3, AcquireKept, RentalAssumption
    <3>4. CASE \E j \in Jobs : \/ StopBegins(j) \/ StopEnds(j) \/ AskExtension(j)
                               \/ AnswerExtension(j) \/ PayExtension(j) \/ ApplyExtension(j)
      BY <3>4, JobKept
    <3>5. CASE Crash \/ Boot
      BY <3>5, CrashKept, BootKept
    <3>6. CASE (\E j \in Jobs : Close(j)) \/ Clock \/ (\E n \in Hires : BoxDies(n))
      BY <3>6, WorldKept
    <3> QED BY <1>3, <3>1, <3>2, <3>3, <3>4, <3>5, <3>6 DEF Next
  <2> QED BY <1>1, <2>1 DEF Kept, KeepInv
<1> QED BY <1>2, <1>3

\* As long as no hire of the card begins before everything of the last one has
\* ended, the box a buyer was given is removed only when the buyer's job is
\* closed or the time on record is over: by no tick's stale copy, retried
\* release, stop, failed hire or restart.
THEOREM BoxIsKept == ASSUME Overlap = FALSE PROVE Spec => BuyerKeepsBox
<1>1. KeepInv /\ [Next]_vars => KeepInv'
  BY KeepStays
<1>2. KeepInv /\ [Next]_vars
        => [\A n \in handed :
               box[n] = "up" /\ box'[n] = "gone"
                  => \/ status[hire[n].job] = "closed"
                     \/ Record # None /\ Record.n = n /\ now >= Record.exp]_vars
  BY KeepStays DEF Spared
<1> QED BY <1>1, <1>2, KeepStarts, PTL DEF Spec, BuyerKeepsBox

=============================================================================
