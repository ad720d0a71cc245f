-------------------------- MODULE JobWorkerProofs --------------------------
(***************************************************************************)
(* What a worker delivered stays stored, and the work of a delivered job   *)
(* is not done again, for any number of messages, retries, reworks,        *)
(* packages, workers and disputes.                                         *)
(***************************************************************************)
EXTENDS JobWorker, TLAPS

Settled == status \in {"delivered", "completed"}

\* Publications are records.
PubShape ==
    /\ pub = [p \in Pubs |-> pub[p]]
    /\ \A p \in Pubs : pub[p] = Record(pub[p].step, pub[p].pkg, pub[p].stale)

\* Who cleans up delivered last, and has not listed his own package; what is
\* about to be delivered is stored as long as it can be.
PubSafe ==
    /\ \A p \in Pubs : pub[p].step \in {"list", "drop"} => Settled /\ signed = pub[p].pkg
    /\ \A p \in Pubs : pub[p].step = "drop" => pub[p].pkg \notin pub[p].stale
    /\ \A p \in Pubs : pub[p].step = "deliver" /\ pub[p].pkg \in Pkgs =>
          pub[p].pkg \in stored \/ Settled

PubInv == PubShape /\ PubSafe /\ DeliveredIsStored

Done == POST_DELIVERY_STATUSES \cup {"completed"}

\* What a worker of a delivered job may be doing.
WorkInv ==
    /\ signed # None => status \in Done
    /\ before => /\ status \in Done
                 /\ pc \in {"boot", "connect", "accept", "surface", "flush", "wait", "leave"}
                 /\ pc = "accept" => status = "completed"
                 /\ pc = "connect" => first.status \in POST_DELIVERY_STATUSES
    /\ pc \in {"off", "boot", "accept", "connect", "chatfail"} => tick = "rest"

-----------------------------------------------------------------------------
(* The records of publications. *)

\* The fields of a record.
LEMMA RecordFields ==
    ASSUME NEW s, NEW k, NEW t
    PROVE  /\ Record(s, k, t).step = s
           /\ Record(s, k, t).pkg = k
           /\ Record(s, k, t).stale = t
BY DEF Record

\* One publication is replaced, the others stay.
LEMMA SetRecord ==
    ASSUME PubInv, NEW p \in Pubs, NEW s, NEW k, NEW t, Set(p, Record(s, k, t))
    PROVE  /\ PubShape'
           /\ pub'[p].step = s /\ pub'[p].pkg = k /\ pub'[p].stale = t
           /\ \A q \in Pubs \ {p} : pub'[q] = pub[q]
<1>1. pub'[p] = Record(s, k, t) /\ \A q \in Pubs \ {p} : pub'[q] = pub[q]
  BY DEF PubInv, PubShape, Set
<1>2. pub'[p].step = s /\ pub'[p].pkg = k /\ pub'[p].stale = t
  BY <1>1, RecordFields
<1>3. pub' = [q \in Pubs |-> pub'[q]]
  BY DEF PubInv, PubShape, Set
<1>4. \A q \in Pubs : pub'[q] = Record(pub'[q].step, pub'[q].pkg, pub'[q].stale)
  BY <1>1, <1>2 DEF PubInv, PubShape
<1> QED BY <1>1, <1>2, <1>3, <1>4 DEF PubShape

\* No publication is under way when the process is gone.
LEMMA NoneLeft ==
    ASSUME pub' = NoPubs
    PROVE  PubShape' /\ \A q \in Pubs : pub'[q].step = "none"
<1>1. \A q \in Pubs : pub'[q] = Record("none", 0, {})
  BY DEF NoPubs, NoPub
<1>2. \A q \in Pubs : /\ pub'[q].step = "none"
                      /\ pub'[q] = Record(pub'[q].step, pub'[q].pkg, pub'[q].stale)
  BY <1>1, RecordFields
<1>3. pub' = [q \in Pubs |-> pub'[q]]
  BY DEF NoPubs
<1> QED BY <1>2, <1>3 DEF PubShape

-----------------------------------------------------------------------------
(* The delivered package. *)

\* Nothing that publishes moves, and a settled job stays settled.
LEMMA PubStays ==
    ASSUME PubInv, UNCHANGED <<pub, stored, signed>>, Settled => Settled'
    PROVE  PubInv'
BY DEF PubInv, PubShape, PubSafe, DeliveredIsStored

\* The end of the process keeps what is stored and signed.
LEMMA PubExits ==
    ASSUME PubInv, Exits, UNCHANGED <<stored, signed>>
    PROVE  PubInv'
<1>1. PubShape' /\ \A q \in Pubs : pub'[q].step = "none"
  BY NoneLeft DEF Exits
<1> QED BY <1>1 DEF PubInv, PubSafe, DeliveredIsStored

\* One publication starts, or stops, without a package.
LEMMA PubEnds ==
    ASSUME PubInv, NEW p \in Pubs, NEW s \in {"none", "work", "build"},
           Set(p, Record(s, 0, {})),
           UNCHANGED <<status, stored, signed>>
    PROVE  PubInv'
<1>1. /\ PubShape' /\ pub'[p].step = s
      /\ \A q \in Pubs \ {p} : pub'[q] = pub[q]
  BY SetRecord
<1> QED BY <1>1 DEF PubInv, PubSafe, DeliveredIsStored, Settled

\* Published, refused and failed publications leave nothing under way.
LEMMA PubOutcomes ==
    ASSUME PubInv, NEW p \in Pubs,
           Published(p) \/ Refused(p) \/ Failed(p),
           UNCHANGED <<status, stored, signed>>
    PROVE  PubInv'
<1>1. CASE Exits
  BY <1>1, PubExits
<1>2. CASE Set(p, NoPub)
  BY <1>2, PubEnds DEF NoPub
<1> QED BY <1>1, <1>2 DEF Published, Refused, Failed

\* An upload adds to what is stored.
LEMMA PubUpload ==
    ASSUME PubInv, NEW p \in Pubs, uploadFileData(p)
    PROVE  PubInv'
<1>1. PICK k : k = NewPkg
  OBVIOUS
<1>2. UNCHANGED <<status, signed>>
  BY DEF uploadFileData
<1>3. CASE stored' = stored \cup {k} /\ Set(p, Record("deliver", k, {}))
  <2>1. /\ PubShape' /\ pub'[p].step = "deliver" /\ pub'[p].pkg = k
        /\ \A q \in Pubs \ {p} : pub'[q] = pub[q]
    BY <1>3, SetRecord
  <2> QED BY <2>1, <1>2, <1>3 DEF PubInv, PubSafe, DeliveredIsStored, Settled
<1>4. CASE stored' = stored \cup {k} /\ UNCHANGED pub
  BY <1>2, <1>4 DEF PubInv, PubShape, PubSafe, DeliveredIsStored, Settled
<1>5. CASE UNCHANGED stored /\ Set(p, Record("deliver", 0, {}))
  <2>1. /\ PubShape' /\ pub'[p].step = "deliver" /\ pub'[p].pkg = 0
        /\ \A q \in Pubs \ {p} : pub'[q] = pub[q]
    BY <1>5, SetRecord
  <2>2. 0 \notin Pkgs
    BY WorkerAssumption DEF Pkgs
  <2> QED BY <2>1, <2>2, <1>2, <1>5 DEF PubInv, PubSafe, DeliveredIsStored, Settled
<1> QED BY <1>1, <1>3, <1>4, <1>5 DEF uploadFileData

\* A delivery is accepted of work that is under way only: nobody else can be
\* cleaning up, and what is delivered is still stored.
LEMMA PubDeliver ==
    ASSUME PubInv, NEW p \in Pubs, deliverJob(p)
    PROVE  PubInv'
<1>1. ~Settled /\ Settled' /\ signed' = pub[p].pkg /\ UNCHANGED stored
  BY DEF deliverJob, Deliverable, Live, Settled
<1>2. pub[p].step = "deliver"
  BY DEF deliverJob, At
<1>3. \A q \in Pubs : pub[q].step \notin {"list", "drop"}
  BY <1>1 DEF PubInv, PubSafe
<1>4. DeliveredIsStored'
  BY <1>1, <1>2 DEF PubInv, PubSafe, DeliveredIsStored
<1>5. CASE Set(p, Record("list", pub[p].pkg, {}))
  <2>1. /\ PubShape' /\ pub'[p].step = "list" /\ pub'[p].pkg = pub[p].pkg
        /\ \A q \in Pubs \ {p} : pub'[q] = pub[q]
    BY <1>5, SetRecord
  <2> QED BY <2>1, <1>1, <1>3, <1>4 DEF PubInv, PubSafe
<1>6. CASE Published(p)
  <2>1. /\ PubShape' /\ pub'[p].step = "none"
        /\ \A q \in Pubs \ {p} : pub'[q] = pub[q]
    BY <1>6, SetRecord DEF Published, NoPub
  <2> QED BY <2>1, <1>1, <1>3, <1>4 DEF PubInv, PubSafe
<1>7. CASE UNCHANGED pub
  BY <1>7, <1>1, <1>3, <1>4 DEF PubInv, PubSafe, PubShape
<1> QED BY <1>5, <1>6, <1>7 DEF deliverJob

\* Who lists the files takes his own package out of the list.
LEMMA PubList ==
    ASSUME PubInv, NEW p \in Pubs, ListFiles(p)
    PROVE  PubInv'
<1>1. UNCHANGED <<status, stored, signed>> /\ pub[p].step = "list"
  BY DEF ListFiles, At
<1>2. CASE Set(p, Record("drop", pub[p].pkg, stored \ {pub[p].pkg}))
  <2>1. /\ PubShape' /\ pub'[p].step = "drop" /\ pub'[p].pkg = pub[p].pkg
        /\ pub'[p].stale = stored \ {pub[p].pkg}
        /\ \A q \in Pubs \ {p} : pub'[q] = pub[q]
    BY <1>2, SetRecord
  <2> QED BY <2>1, <1>1 DEF PubInv, PubSafe, DeliveredIsStored, Settled
<1>3. CASE Published(p)
  BY <1>1, <1>3, PubOutcomes
<1> QED BY <1>2, <1>3 DEF ListFiles

\* What is deleted is not the package delivered last.
LEMMA PubDelete ==
    ASSUME PubInv, NEW p \in Pubs, DeleteFiles(p)
    PROVE  PubInv'
<1>1. UNCHANGED <<status, signed>> /\ pub[p].step = "drop"
  BY DEF DeleteFiles, At
<1>2. stored \ pub[p].stale \subseteq stored'
  BY DEF DeleteFiles
<1>3. Settled /\ signed = pub[p].pkg /\ signed \notin pub[p].stale
  BY <1>1 DEF PubInv, PubSafe
<1>4. DeliveredIsStored'
  BY <1>1, <1>2, <1>3 DEF PubInv, DeliveredIsStored
<1>5. /\ PubShape' /\ pub'[p].step = "none"
      /\ \A q \in Pubs \ {p} : pub'[q] = pub[q]
  BY SetRecord DEF Published, NoPub, DeleteFiles
<1> QED BY <1>1, <1>3, <1>4, <1>5 DEF PubInv, PubSafe, Settled

\* Every step of a publication.
LEMMA PubPublication ==
    ASSUME PubInv, NEW p \in Pubs, Publication(p)
    PROVE  PubInv'
<1>1. CASE ReworkAnswered(p)
  <2>1. UNCHANGED <<status, stored, signed>>
    BY <1>1 DEF ReworkAnswered, platform
  <2>2. Set(p, Record("build", 0, {})) \/ Set(p, Record("none", 0, {}))
    BY <1>1 DEF ReworkAnswered, NoPub
  <2> QED BY <2>1, <2>2, PubEnds
<1>2. CASE PublishFails(p)
  BY <1>2, PubOutcomes DEF PublishFails
<1>3. CASE DeliveryRefused(p)
  BY <1>3, PubOutcomes DEF DeliveryRefused
<1> QED BY <1>1, <1>2, <1>3, PubUpload, PubDeliver, PubList, PubDelete DEF Publication

\* No step of a session moves a job that was delivered: only a job in progress
\* is paused, only a paused one resumed.
LEMMA SessionKeepsDone ==
    ASSUME InSession, status \in Done
    PROVE  status' = status
<1>1. CASE HireIsAnswered \/ HireHasNoAnswer \/ HireMeetsOutage
           \/ HireIsSkipped(first.status, first.delivered)
  BY <1>1 DEF HireIsAnswered, HireHasNoAnswer, HireMeetsOutage, HireIsSkipped, OpenSession
<1>2. CASE RetryHire \/ RetryEnds \/ Answer \/ Reconnect \/ Resume
  BY <1>2 DEF RetryHire, RetryEnds, Answer, Reconnect, Resume, Done, POST_DELIVERY_STATUSES
<1>3. ASSUME NEW m \in Msgs, Post(m) \/ SocketBrings(m) \/ PollFinds(m)
      PROVE  status' = status
  BY <1>3 DEF Post, SocketBrings, PollFinds, Take
<1>4. CASE quietDeliverReady \/ QuietIsRead \/ QuietIsNotRead \/ IdleTooLong
  BY <1>4 DEF quietDeliverReady, QuietIsRead, QuietIsNotRead, IdleTooLong
<1>5. CASE PauseAnswered \/ RefusalIsRead
  BY <1>5 DEF PauseAnswered, RefusalIsRead, NotTheClose, Done, POST_DELIVERY_STATUSES
<1>6. CASE EndAsked \/ SessionEnds \/ SessionThrows
  BY <1>6 DEF EndAsked, SessionEnds, SessionThrows
<1> QED BY <1>1, <1>2, <1>3, <1>4, <1>5, <1>6 DEF InSession, SessionStep

\* The reworks of an agreement are entered as work to do.
LEMMA PubReworks ==
    ASSUME PubInv, NEW n \in {1, 2}, StartReworks(n),
           UNCHANGED <<status, stored, signed>>
    PROVE  PubInv'
<1>1. \A q \in Pubs : pub'[q] = Record("work", 0, {}) \/ pub'[q] = pub[q]
  BY DEF StartReworks
<1>2. \A q \in Pubs : \/ pub'[q] = pub[q]
                      \/ /\ pub'[q].step = "work" /\ pub'[q].pkg = 0 /\ pub'[q].stale = {}
                         /\ pub'[q] = Record("work", 0, {})
  BY <1>1, RecordFields
<1>3. PubShape'
  <2>1. pub' = [q \in Pubs |-> pub'[q]]
    BY DEF StartReworks
  <2> QED BY <2>1, <1>2 DEF PubInv, PubShape
<1> QED BY <1>2, <1>3 DEF PubInv, PubSafe, DeliveredIsStored, Settled

\* A message of the dispatcher starts reworks or publishes nothing.
LEMMA PubMessage ==
    ASSUME PubInv, NEW m, NEW n \in {1, 2}, NEW rest, handleMessage(m, n, rest)
    PROVE  PubInv'
<1>1. UNCHANGED <<status, stored, signed>>
  BY DEF handleMessage, platform
<1>2. UNCHANGED pub \/ StartReworks(n)
  BY DEF handleMessage
<1> QED BY <1>1, <1>2, PubReworks, PubStays DEF Settled

\* The dispatcher's messages and the waiting of the worker.
LEMMA PubWaits ==
    ASSUME PubInv, Waits
    PROVE  PubInv'
<1>1. CASE surfaceDispute \/ EnterWait
  BY <1>1, PubStays DEF surfaceDispute, EnterWait, NoSessionChange, platform, Settled
<1>2. CASE DrainQueue
  BY <1>2, PubMessage DEF DrainQueue
<1>3. CASE ReceiveAfterDelivery
  BY <1>3, PubMessage DEF ReceiveAfterDelivery
<1>4. CASE Receive
  BY <1>4, PubStays DEF Receive, platform, Settled
<1> QED BY <1>1, <1>2, <1>3, <1>4 DEF Waits

\* The start of a worker.
LEMMA PubBoots ==
    ASSUME PubInv, Spawn \/ Boots \/ StartFails
    PROVE  PubInv'
<1>1. CASE Spawn \/ ReadJob \/ AcceptJob \/ connectChat
  BY <1>1, PubStays DEF Spawn, ReadJob, AcceptJob, connectChat, NoSessionChange, platform, Settled
<1>2. CASE AcceptRefused \/ StartFails
  BY <1>2, PubExits DEF AcceptRefused, StartFails
<1>3. CASE DeliverChatFailure
  <2>1. PubShape' /\ \A q \in Pubs : pub'[q].step = "none"
    BY <1>3, NoneLeft DEF DeliverChatFailure, Exits
  <2>2. 0 \notin Pkgs
    BY WorkerAssumption DEF Pkgs
  <2>3. UNCHANGED stored /\ (signed' = 0 \/ UNCHANGED signed)
    BY <1>3 DEF DeliverChatFailure
  <2> QED BY <2>1, <2>2, <2>3 DEF PubInv, PubSafe, DeliveredIsStored
<1> QED BY <1>1, <1>2, <1>3 DEF Boots

\* Nothing is being published when the buyer disputes.
LEMMA PubDispute ==
    ASSUME PubInv, DisputeFiled
    PROVE  PubInv'
<1>1. \A q \in Pubs : pub[q].step = "none"
  BY DEF DisputeFiled, Publishing
<1>2. UNCHANGED <<pub, stored, signed>>
  BY DEF DisputeFiled, NoProcess
<1> QED BY <1>1, <1>2 DEF PubInv, PubShape, PubSafe, DeliveredIsStored

\* Every step keeps what was delivered.
LEMMA PubNext == PubInv /\ [Next]_vars => PubInv'
<1> SUFFICES ASSUME PubInv, [Next]_vars PROVE PubInv'
  OBVIOUS
<1>1. CASE InSession
  <2>1. Settled => Settled'
    BY <1>1, SessionKeepsDone DEF Settled, Done, POST_DELIVERY_STATUSES
  <2> QED BY <1>1, <2>1, PubStays DEF InSession, platform
<1>2. CASE HearShutdown \/ Shutdown \/ LoseLine \/ SafetyTimeout \/ HoldPasses \/ PollSends
  BY <1>2, PubStays DEF HearShutdown, Shutdown, LoseLine, SafetyTimeout, HoldPasses,
       PollSends, NoSessionChange, platform, Settled
<1>3. CASE performCleanup \/ HardTimeout \/ Killed
  BY <1>3, PubExits DEF performCleanup, HardTimeout, Killed
<1>4. CASE PlatformMoves
  <2>1. Settled => Settled'
    BY <1>4 DEF PlatformMoves, Settled, Live
  <2> QED BY <1>4, <2>1, PubStays DEF PlatformMoves, NoProcess
<1>5. CASE UNCHANGED vars
  BY <1>5, PubStays DEF vars, platform, sessionVars, Settled
<1> QED BY <1>1, <1>2, <1>3, <1>4, <1>5, PubBoots, PubWaits, PubPublication, PubDispute DEF Next

\* At the start nothing is delivered.
LEMMA PubStart == Init => PubInv
<1> SUFFICES ASSUME Init PROVE PubInv
  OBVIOUS
<1>1. pub = [p \in Pubs |-> NoPub]
  BY DEF Init, NoPubs
<1>2. \A p \in Pubs : pub[p] = Record("none", 0, {})
  BY <1>1 DEF NoPub
<1>3. \A p \in Pubs : /\ pub[p].step = "none"
                      /\ pub[p] = Record(pub[p].step, pub[p].pkg, pub[p].stale)
  BY <1>2, RecordFields
<1>4. signed \notin Pkgs
  BY WorkerAssumption DEF Init, Pkgs
<1> QED BY <1>1, <1>3, <1>4 DEF PubInv, PubShape, PubSafe, DeliveredIsStored

\* The package of the last accepted delivery stays on the platform: an accepted
\* delivery excludes everybody who could be deleting, and who deletes later
\* lists the files after it and leaves out what it delivered.
THEOREM DeliveredStays == Spec => []DeliveredIsStored
<1>1. PubInv => DeliveredIsStored
  BY DEF PubInv
<1> QED BY <1>1, PubStart, PubNext, PTL DEF Spec

-----------------------------------------------------------------------------
(* The work of a delivered job. *)

Early == {"off", "boot", "accept", "connect", "chatfail"}

\* A session step leaves pc alone, or comes from the hire or the session.
LEMMA SessionPlace ==
    ASSUME InSession
    PROVE  /\ \/ pc' = pc
              \/ pc \in {"hire", "session"} /\ pc' \in {"hire", "session", "leave", "publish"}
           /\ pc \in Early /\ tick = "rest" => tick' = "rest"
           /\ pc \in Early => status = "paused" \/ tick # "rest"
<1>1. CASE HireIsAnswered \/ HireHasNoAnswer \/ HireMeetsOutage
           \/ HireIsSkipped(first.status, first.delivered)
  <2>1. pc = "hire"
    BY <1>1 DEF HireIsAnswered, HireHasNoAnswer, HireMeetsOutage, HireIsSkipped
  <2>2. pc' \in {"hire", "session"}
    BY <1>1, <2>1 DEF HireIsAnswered, HireHasNoAnswer, HireMeetsOutage, HireIsSkipped, OpenSession
  <2> QED BY <2>1, <2>2 DEF Early
<1>2. CASE RetryHire \/ RetryEnds \/ Answer \/ Reconnect \/ Resume
  BY <1>2 DEF RetryHire, RetryEnds, Answer, Reconnect, Resume, NotTheClose, Early
<1>3. ASSUME NEW m \in Msgs, Post(m) \/ SocketBrings(m) \/ PollFinds(m)
      PROVE  /\ UNCHANGED <<pc, tick>>
             /\ pc \notin Early
  BY <1>3 DEF Post, SocketBrings, PollFinds, Take, Early
<1>4. CASE quietDeliverReady \/ QuietIsRead \/ QuietIsNotRead \/ IdleTooLong
  BY <1>4 DEF quietDeliverReady, QuietIsRead, QuietIsNotRead, IdleTooLong, Ticks, NotTheClose, Early
<1>5. CASE PauseAnswered \/ RefusalIsRead
  BY <1>5 DEF PauseAnswered, RefusalIsRead, NotTheClose, Early
<1>6. CASE EndAsked \/ SessionEnds \/ SessionThrows
  BY <1>6 DEF EndAsked, SessionEnds, SessionThrows, NotTheClose, Early
<1> QED BY <1>1, <1>2, <1>3, <1>4, <1>5, <1>6 DEF InSession, SessionStep

\* A session step keeps the invariant: a worker of a delivered job is not in
\* the hire or the session, and its job is not paused.
LEMMA WorkSession ==
    ASSUME WorkInv, InSession
    PROVE  WorkInv'
<1>1. UNCHANGED <<signed, before>>
  BY DEF InSession, platform, ends
<1>2. status \in Done => status' = status
  BY SessionKeepsDone
<1>3. before => UNCHANGED pc /\ pc # "connect"
  BY SessionPlace DEF WorkInv, Early, Done, POST_DELIVERY_STATUSES
<1>4. pc' \in Early => tick' = "rest"
  BY SessionPlace DEF WorkInv, Early
<1> QED BY <1>1, <1>2, <1>3, <1>4 DEF WorkInv, Early

\* The end of the process forgets what the worker was started for.
LEMMA WorkExits ==
    ASSUME WorkInv, Exits, signed' # None => signed' = signed \/ status' \in Done,
           status \in Done => status' \in Done
    PROVE  WorkInv'
BY DEF WorkInv, Exits

\* A worker stays where it is, and a delivered job delivered.
LEMMA WorkStays ==
    ASSUME WorkInv, UNCHANGED <<signed, before, pc, tick, first>>,
           status \in Done => status' \in Done,
           status = "completed" => status' = "completed"
    PROVE  WorkInv'
BY DEF WorkInv

\* A worker of a delivered job leaves.
LEMMA WorkLeaves ==
    ASSUME WorkInv, UNCHANGED <<signed, before, status>>, Leave
    PROVE  WorkInv'
BY DEF WorkInv, Leave, Done

\* The start of a worker.
LEMMA WorkBoots ==
    ASSUME WorkInv, Spawn \/ Boots \/ StartFails
    PROVE  WorkInv'
<1> USE DEF platform, Elsewhere, NoSessionChange, ends
<1>1. CASE Spawn
  BY <1>1 DEF Spawn, WorkInv, Done, Live, POST_DELIVERY_STATUSES
<1>2. CASE ReadJob
  <2>1. first'.status = status
    BY <1>2 DEF ReadJob
  <2> QED BY <1>2, <2>1 DEF ReadJob, WorkInv, Done, Live, POST_DELIVERY_STATUSES, isPostDeliveryReconnect
<1>3. CASE AcceptJob
  BY <1>3 DEF AcceptJob, WorkInv, Done, POST_DELIVERY_STATUSES
<1>4. CASE connectChat
  BY <1>4 DEF connectChat, AfterConnect, isPostDeliveryReconnect, WorkInv, Done, POST_DELIVERY_STATUSES
<1>5. CASE AcceptRefused \/ StartFails
  BY <1>5, WorkExits DEF AcceptRefused, StartFails
<1>6. CASE DeliverChatFailure
  <2>1. status' \in Done \/ UNCHANGED <<status, signed>>
    BY <1>6 DEF DeliverChatFailure, Done, POST_DELIVERY_STATUSES
  <2> QED BY <1>6, <2>1, WorkExits DEF DeliverChatFailure
<1> QED BY <1>1, <1>2, <1>3, <1>4, <1>5, <1>6 DEF Boots

\* The publications: main's leads on to the wait, a rework's moves nobody.
LEMMA WorkPublication ==
    ASSUME WorkInv, NEW p \in Pubs, Publication(p)
    PROVE  WorkInv'
<1>1. Under(p)
  BY DEF Publication, ReworkAnswered, uploadFileData, PublishFails, deliverJob,
         DeliveryRefused, ListFiles, DeleteFiles, At, Builds
<1>2. p = Main => pc = "publish" /\ ~before
  BY <1>1 DEF Under, WorkInv
<1>3. \/ Exits
      \/ UNCHANGED <<before, tick>> /\ first' = first
         /\ (pc' = pc \/ (p = Main /\ pc' \in {"flush", "leave"}))
  BY DEF Publication, ReworkAnswered, uploadFileData, PublishFails, deliverJob,
         DeliveryRefused, ListFiles, DeleteFiles, Published, Refused, Failed,
         SessionKept, Elsewhere, Leave, ends
<1>4. /\ status' = "delivered" \/ UNCHANGED <<status, signed>>
      /\ status' # status => status \in Deliverable
  BY DEF Publication, ReworkAnswered, uploadFileData, PublishFails, deliverJob,
         DeliveryRefused, ListFiles, DeleteFiles, platform
<1>5. status \in Done => status' \in Done
  BY <1>4 DEF Done, POST_DELIVERY_STATUSES
<1>6. CASE Exits
  BY <1>4, <1>5, <1>6, WorkExits DEF Done, POST_DELIVERY_STATUSES
<1>7. CASE UNCHANGED <<before, tick, first, pc>>
  BY <1>4, <1>5, <1>7 DEF WorkInv, Done, POST_DELIVERY_STATUSES, Deliverable, Live
<1>8. CASE p = Main /\ pc' \in {"flush", "leave"} /\ UNCHANGED <<before, tick, first>>
  BY <1>2, <1>4, <1>5, <1>8 DEF WorkInv, Done, POST_DELIVERY_STATUSES
<1> QED BY <1>3, <1>6, <1>7, <1>8

\* A worker that waits, waits or leaves.
LEMMA WorkWaits ==
    ASSUME WorkInv, Waits
    PROVE  WorkInv'
<1> USE DEF platform, Elsewhere, NoSessionChange, ends
<1>1. CASE surfaceDispute
  BY <1>1 DEF surfaceDispute, WorkInv
<1>2. CASE EnterWait
  BY <1>2 DEF EnterWait, Leave, WorkInv
<1>3. CASE DrainQueue \/ ReceiveAfterDelivery
  <2>1. PICK m, n, rest : handleMessage(m, n, rest)
    BY <1>3 DEF DrainQueue, ReceiveAfterDelivery
  <2>2. UNCHANGED <<signed, before, status, tick, first>>
    BY <2>1 DEF handleMessage
  <2>3. UNCHANGED pc \/ Leave
    BY <2>1 DEF handleMessage, StartReworks
  <2> QED BY <2>2, <2>3, WorkStays, WorkLeaves
<1>4. CASE Receive
  BY <1>4, WorkStays DEF Receive, NotTheClose
<1> QED BY <1>1, <1>2, <1>3, <1>4 DEF Waits

\* Every step keeps the invariant.
LEMMA WorkNext == WorkInv /\ [Next]_vars => WorkInv'
<1> SUFFICES ASSUME WorkInv, [Next]_vars PROVE WorkInv'
  OBVIOUS
<1> USE DEF platform, Elsewhere, NoSessionChange, ends
<1>1. CASE HearShutdown \/ Shutdown
  <2>1. UNCHANGED <<signed, before, status, tick, first>>
    BY <1>1 DEF HearShutdown, Shutdown
  <2>2. UNCHANGED pc \/ Leave
    BY <1>1 DEF HearShutdown, Shutdown, Hears
  <2> QED BY <2>1, <2>2, WorkStays, WorkLeaves
<1>2. CASE LoseLine \/ HoldPasses \/ PollSends
  BY <1>2, WorkStays DEF LoseLine, HoldPasses, PollSends
<1>3. CASE SafetyTimeout
  BY <1>3, WorkLeaves DEF SafetyTimeout
<1>4. CASE performCleanup \/ HardTimeout \/ Killed
  BY <1>4, WorkExits DEF performCleanup, HardTimeout, Killed
<1>5. CASE PlatformMoves \/ DisputeFiled
  <2>1. UNCHANGED <<signed, before, pc, tick, first>>
    BY <1>5 DEF PlatformMoves, DisputeFiled, NoProcess
  <2>2. status \in Done => status' \in Done
    BY <1>5 DEF PlatformMoves, DisputeFiled, Done, POST_DELIVERY_STATUSES, Live
  <2>3. status = "completed" => status' = "completed"
    BY <1>5 DEF PlatformMoves, DisputeFiled, Live
  <2> QED BY <2>1, <2>2, <2>3, WorkStays
<1>6. CASE UNCHANGED vars
  BY <1>6, WorkStays DEF vars, sessionVars
<1> QED BY <1>1, <1>2, <1>3, <1>4, <1>5, <1>6,
           WorkBoots, WorkSession, WorkPublication, WorkWaits DEF Next

\* At the start nothing is delivered and nobody works.
LEMMA WorkStart == Init => WorkInv
BY DEF Init, SessionInit, WorkInv

\* No worker of a delivered job hires again or asks to accept it, whatever the
\* platform, the buyer and the timers do after its start.
THEOREM WorkStaysDone == Spec => []WorkIsNotRedone
<1>1. WorkInv => WorkIsNotRedone
  BY DEF WorkInv, WorkIsNotRedone, POST_DELIVERY_STATUSES
<1> QED BY <1>1, WorkStart, WorkNext, PTL DEF Spec
=============================================================================
