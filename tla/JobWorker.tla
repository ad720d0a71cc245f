----------------------------- MODULE JobWorker -----------------------------
(***************************************************************************)
(* The job worker, the process a job has in its container                  *)
(* (src/job-agent.js), from its start to its exit: the job is read and     *)
(* accepted, the chat is connected, the session runs (JobSession), the     *)
(* result is packed, uploaded, signed and delivered, and the worker waits  *)
(* for disputes and reworks until it is told to leave.  With it the poll   *)
(* of the dispatcher that tells it what became of the job (src/cli.js).    *)
(*                                                                         *)
(* A worker may die anywhere and a new one be started for the same job.    *)
(* It knows the job only from what the platform tells.  It is a child       *)
(* process of the dispatcher or runs in a container, where it reads its     *)
(* messages from a file the dispatcher appends to: what either can do, the  *)
(* model may do.                                                            *)
(***************************************************************************)
EXTENDS JobSession

CONSTANTS
    None,
    MaxCycles,   \* maxReworkCycles of the dispute policy
    MaxPkgs,     \* bound: packages of the job stored at a time
    MaxMail,     \* bound: messages on the way; the worker looks far more often
    MaxSpawns,   \* bound: workers started for the job
    MaxDisputes  \* bound: disputes the buyer files

ASSUME WorkerAssumption ==
    /\ {MaxCycles, MaxPkgs, MaxMail, MaxSpawns, MaxDisputes} \subseteq Nat
    /\ None \notin Nat

VARIABLES
    stored,     \* delivery.zip uploads the platform keeps for the job
    signed,     \* the package of the last accepted delivery, 0 for a text alone
    first,      \* fullJob: what main read of the job
    pub,        \* publishFinishedJob: main's and those of the reworks
    count,      \* _reworkCount
    mail,       \* on the way from the dispatcher to the worker
    waiting,    \* ipcQueue
    hold,       \* _disputeHoldUntilMs lies ahead
    heard,      \* _shuttingDown
    stopping,   \* the dispatcher shuts down
    sent,       \* _lastSentStatus
    spawns, disputes,
    before,     \* history: the job had been delivered when the worker started
    lost        \* history: a line was lost in the file

platform == <<stored, signed, disputes>>
ipc == <<mail, waiting>>
ends == <<spawns, before, stopping, sent>>
after == <<count, hold, heard>>
vars == <<sessionVars, platform, first, pub, ipc, ends, after, lost>>

Main == 1
Pubs == 1..(1 + MaxCycles)
Pkgs == 1..MaxPkgs
Record(s, k, t) == [step |-> s, pkg |-> k, stale |-> t]
NoPub == Record("none", 0, {})
NoPubs == [p \in Pubs |-> NoPub]
NoJob == [status |-> "none", delivered |-> FALSE]
Deliverable == Live \cup {"rework"}

Init ==
    /\ SessionInit
    /\ stored = {} /\ signed = None /\ disputes = 0
    /\ first = NoJob /\ pub = NoPubs
    /\ mail = <<>> /\ waiting = <<>>
    /\ sent = None
    /\ spawns = 0 /\ before = FALSE /\ stopping = FALSE
    /\ count = 0 /\ hold = FALSE /\ heard = FALSE /\ lost = FALSE

-----------------------------------------------------------------------------
(* Start. *)

\* A mutant of ForgetSent: a new worker inherits what the old one was told.
KeepSent == sent' = sent

\* _lastSentStatus of a job is deleted with its worker.
ForgetSent == sent' = None

\* A mutant of isPostDeliveryReconnect: a job in rework is worked like a new one.
ReworkIsNew(s) == s \in POST_DELIVERY_STATUSES \ {"rework"}

isPostDeliveryReconnect(s) == s \in POST_DELIVERY_STATUSES

\* The process is gone with its memory and, in a container, its files.
Exits ==
    /\ pc' = "off" /\ NoSession /\ tick' = "rest"
    /\ first' = NoJob /\ pub' = NoPubs
    /\ mail' = <<>> /\ waiting' = <<>>
    /\ count' = 0 /\ hold' = FALSE /\ heard' = FALSE
    /\ before' = FALSE
    /\ UNCHANGED <<spawns, stopping, sent, disputes, lost>>

Spawn ==
    /\ pc = "off" /\ ~stopping /\ spawns < MaxSpawns
    /\ status \in {"requested", "disputed", "rework"} \cup Live
    /\ pc' = "boot" /\ spawns' = spawns + 1
    /\ before' = (signed # None \/ status \in POST_DELIVERY_STATUSES)
    /\ ForgetSent
    /\ UNCHANGED <<status, chat, hire, close, tick, faults, platform, first,
                   pub, ipc, stopping, after, lost>>

NoSessionChange == UNCHANGED <<status, chat, hire, close, tick, faults>>
Elsewhere == UNCHANGED <<ipc, ends, lost>>

\* The wait is over: no message and no hold matters any more.
Leave == pc' = "leave" /\ hold' = FALSE /\ waiting' = <<>>

\* authenticate and getJob, each with its retries.
ReadJob ==
    /\ pc = "boot"
    /\ first' = [status |-> status, delivered |-> signed # None]
    /\ pc' = IF isPostDeliveryReconnect(status) \/ status \in Live
             THEN "connect" ELSE "accept"
    /\ NoSessionChange /\ Elsewhere
    /\ UNCHANGED <<platform, pub, after>>

AcceptJob ==
    /\ pc = "accept" /\ status = "requested"
    /\ status' = "accepted"
    /\ \/ pc' = "connect" /\ UNCHANGED faults
       \/ Fault /\ UNCHANGED pc            \* the answer is lost; it is asked again
    /\ UNCHANGED <<chat, hire, close, tick, first, platform, pub, after>>
    /\ Elsewhere

AcceptRefused ==
    /\ pc = "accept" /\ status # "requested"
    /\ Exits
    /\ UNCHANGED <<status, stored, signed, faults>>

StartFails ==
    /\ pc \in {"boot", "accept"}
    /\ Exits
    /\ UNCHANGED <<status, stored, signed, faults>>

AfterConnect ==
    IF ~isPostDeliveryReconnect(first.status) THEN "hire"
    ELSE IF first.status = "disputed" THEN "surface" ELSE "flush"

connectChat ==
    /\ pc = "connect"
    /\ \/ pc' = AfterConnect
       \/ ~isPostDeliveryReconnect(first.status) /\ pc' = "chatfail"
    /\ first' = IF pc' = "hire" THEN first ELSE NoJob
    /\ UNCHANGED <<status, chat, hire, close, tick, faults, platform, pub, after>>
    /\ Elsewhere

\* Without a chat the job is delivered as failed; after a delivery the worker
\* waits all the same.
DeliverChatFailure ==
    /\ pc = "chatfail"
    /\ IF status \in Deliverable
       THEN status' = "delivered" /\ signed' = 0
       ELSE UNCHANGED <<status, signed>>
    /\ Exits
    /\ UNCHANGED <<stored, faults>>

-----------------------------------------------------------------------------
(* publishFinishedJob.  Main publishes once; each rework does on its own, and  *)
(* goes on while the worker cleans up.                                         *)

Under(p) == IF p = Main THEN pc = "publish" ELSE pc \in {"wait", "leave"}
Builds(p) == Under(p) /\ pub[p].step = IF p = Main THEN "none" ELSE "build"
At(p, step) == Under(p) /\ pub[p].step = step
Set(p, new) == pub' = [pub EXCEPT ![p] = new]

SessionKept == UNCHANGED <<chat, hire, close, tick, first, disputes>>

\* What an accepted, a refused and a failed publication leads to.
Published(p) ==
    /\ Set(p, NoPub)
    /\ pc' = IF p = Main THEN "flush" ELSE pc
    /\ SessionKept /\ Elsewhere /\ UNCHANGED after

Refused(p) ==
    /\ Set(p, NoPub)
    /\ IF p = Main THEN Leave ELSE UNCHANGED <<pc, hold, waiting>>
    /\ SessionKept /\ UNCHANGED <<mail, ends, lost, count, heard>>

Failed(p) ==
    IF p = Main THEN Exits
    ELSE Set(p, NoPub) /\ SessionKept /\ Elsewhere /\ UNCHANGED <<pc, after>>

InUse == stored \cup {signed} \cup UNION {{pub[p].pkg} \cup pub[p].stale : p \in Pubs}
Unused == {i \in Pkgs : i \notin InUse}
NewPkg == CHOOSE i \in Unused : \A j \in Unused : i <= j

\* A lost answer leaves a copy behind when the upload is repeated.  A result
\* that is too large, or empty, is not uploaded.
uploadFileData(p) ==
    /\ Builds(p)
    /\ \/ /\ Unused # {}
          /\ stored' = stored \cup {NewPkg}
          /\ \/ Set(p, Record("deliver", NewPkg, {})) /\ UNCHANGED faults
             \/ Fault /\ UNCHANGED pub
       \/ /\ Set(p, Record("deliver", 0, {}))
          /\ UNCHANGED <<stored, faults>>
    /\ SessionKept /\ Elsewhere
    /\ UNCHANGED <<pc, status, signed, after>>

\* Upload, signature or delivery fails to the last try.
PublishFails(p) ==
    /\ Builds(p) \/ At(p, "deliver")
    /\ Failed(p)
    /\ UNCHANGED <<status, stored, signed, faults>>

\* The platform takes a delivery of work that is under way.  When its answer
\* is lost the delivery is sent again, and refused.
deliverJob(p) ==
    /\ At(p, "deliver") /\ status \in Deliverable
    /\ status' = "delivered" /\ signed' = pub[p].pkg
    /\ \/ /\ pub[p].pkg # 0 /\ Set(p, Record("list", pub[p].pkg, {}))
          /\ UNCHANGED <<pc, faults, after>> /\ SessionKept /\ Elsewhere
       \/ pub[p].pkg = 0 /\ Published(p) /\ UNCHANGED faults
       \/ Fault /\ UNCHANGED <<pc, pub, after>> /\ SessionKept /\ Elsewhere
    /\ UNCHANGED stored

\* A mutant of DeliveryRefused: what is stored is replaced all the same.
RefusedDrops(p) ==
    /\ At(p, "deliver") /\ status \notin Deliverable
    /\ Refused(p)
    /\ stored' = stored \cap {pub[p].pkg}
    /\ UNCHANGED <<status, signed, faults>>

DeliveryRefused(p) ==
    /\ At(p, "deliver") /\ status \notin Deliverable
    /\ Refused(p)
    /\ UNCHANGED <<status, stored, signed, faults>>

\* dropReplacedPackages: list, then delete one after the other; one may stay.
ListFiles(p) ==
    /\ At(p, "list")
    /\ \/ /\ Set(p, Record("drop", pub[p].pkg, stored \ {pub[p].pkg}))
          /\ UNCHANGED <<pc, after, faults>> /\ SessionKept /\ Elsewhere
       \/ Published(p) /\ Fault
    /\ UNCHANGED <<status, stored, signed>>

DeleteFiles(p) ==
    /\ At(p, "drop")
    /\ \/ stored' = stored \ pub[p].stale /\ UNCHANGED faults
       \/ Fault /\ stored' \in {stored \ S : S \in SUBSET pub[p].stale}
    /\ Published(p)
    /\ UNCHANGED <<status, signed>>

Publishing == \E p \in Pubs : pub[p].step # "none"

-----------------------------------------------------------------------------
(* After the delivery. *)

\* The dispute of a job that was disputed at the start is shown, and held for.
surfaceDispute ==
    /\ pc = "surface"
    /\ pc' = "flush" /\ hold' = TRUE
    /\ NoSessionChange /\ Elsewhere
    /\ UNCHANGED <<platform, first, pub, count, heard>>

\* A pause still asked for is refused from the delivery on.
EnterWait ==
    /\ pc = "flush"
    /\ IF heard THEN Leave ELSE pc' = "wait" /\ UNCHANGED <<hold, waiting>>
    /\ tick' = "rest"
    /\ UNCHANGED <<status, chat, hire, close, faults, platform, first, pub, mail, ends, lost, count, heard>>

\* n copies of the handler of 'dispute.rework_accepted'.  The ones past the
\* limit of the policy tell the buyer so and stop.
StartReworks(n) ==
    /\ count' = count + n
    /\ pub' = [p \in Pubs |->
                  IF p \in {Main + count + i : i \in 1..n} /\ p <= Main + MaxCycles
                  THEN Record("work", 0, {}) ELSE pub[p]]
    /\ UNCHANGED <<pc, hold>>

\* The handler of the time after the delivery, n copies of it; rest is what
\* waits behind the message.
handleMessage(m, n, rest) ==
    /\ \/ /\ m = "disputed"
          /\ hold' \in {hold, TRUE}    \* planDisputeHold may find the window long enough
          /\ waiting' = rest /\ UNCHANGED <<pc, pub, count>>
       \/ m \in {"completed", "resolved"} /\ Leave /\ UNCHANGED <<pub, count>>
       \/ m = "rework" /\ StartReworks(n) /\ waiting' = rest
    /\ UNCHANGED <<status, chat, hire, close, tick, faults, platform, first,
                   ends, heard, lost>>

\* Messages that came before the handler was set.
DrainQueue ==
    /\ pc = "wait" /\ waiting # <<>>
    /\ handleMessage(Head(waiting), 1, Tail(waiting))
    /\ UNCHANGED mail

\* The handlers of a worker are set from here on.
Handling == pc \in {"hire", "session", "publish", "flush", "surface", "wait"}

\* handleIpcMessage passes a message on to the handler of the time after the
\* delivery; a child process has that handler on its channel besides, and runs
\* it twice.
ReceiveAfterDelivery ==
    /\ pc = "wait" /\ waiting = <<>> /\ mail # <<>> /\ Head(mail) # "delivered"
    /\ mail' = Tail(mail)
    /\ \E n \in {1, 2} : handleMessage(Head(mail), n, <<>>)

\* An end of the session matters while it runs; other messages are kept.
Receive ==
    /\ Handling /\ mail # <<>>
    /\ mail' = Tail(mail)
    /\ \/ /\ Head(mail) = "delivered"
          /\ IF pc \in {"hire", "session"} THEN EndSession ELSE UNCHANGED over
          /\ UNCHANGED waiting
       \/ /\ Head(mail) # "delivered" /\ pc # "wait"
          /\ waiting' = Append(waiting, Head(mail))
          /\ UNCHANGED over
    /\ UNCHANGED <<NotTheClose, status, paused, skip, tick, checked, faults, platform,
                   first, pub, ends, after, lost>>

\* A line appended between the read and the unlink of the file is lost.
LoseLine ==
    /\ Handling /\ mail # <<>>
    /\ Fault
    /\ mail' = Tail(mail) /\ lost' = TRUE
    /\ UNCHANGED <<status, pc, chat, hire, close, tick, platform, first, pub,
                   waiting, ends, after>>

\* A mutant of Hears: only a session is woken.
HearsInSession ==
    /\ heard' = TRUE
    /\ IF pc \in {"hire", "session"} THEN EndSession ELSE UNCHANGED over
    /\ UNCHANGED <<pc, hold, waiting>>

\* 'shutdown' ends the session and wakes a worker that waits.
Hears ==
    /\ heard' = TRUE
    /\ IF pc \in {"hire", "session"} THEN EndSession ELSE UNCHANGED over
    /\ IF pc = "wait" THEN Leave ELSE UNCHANGED <<pc, hold, waiting>>

\* A worker that has no handlers yet finds the message when it has them.
HearShutdown ==
    /\ stopping /\ ~heard /\ Handling
    /\ Hears
    /\ UNCHANGED <<chat, hire, status, paused, skip, tick, checked, faults, platform,
                   first, pub, mail, ends, count, lost>>

\* The dispatcher shuts down and tells the worker.
Shutdown ==
    /\ ~stopping
    /\ stopping' = TRUE
    /\ IF Handling THEN Hears ELSE UNCHANGED <<pc, heard, over, hold, waiting>>
    /\ UNCHANGED <<chat, hire, status, paused, skip, tick, checked, faults, platform,
                   first, pub, mail, spawns, before, sent, count, lost>>

\* resumeJob: the rework is answered, or the model is out twice.
ReworkAnswered(p) ==
    /\ At(p, "work")
    /\ \/ Set(p, Record("build", 0, {})) /\ UNCHANGED faults
       \/ Set(p, NoPub) /\ Fault
    /\ UNCHANGED <<pc, status, chat, hire, close, tick, first, platform, after>>
    /\ Elsewhere

\* The window after the delivery, or the hold of a dispute, has passed.
SafetyTimeout ==
    /\ pc = "wait" /\ ~hold
    /\ Leave
    /\ NoSessionChange
    /\ UNCHANGED <<platform, first, pub, mail, ends, lost, count, heard>>

HoldPasses ==
    /\ hold
    /\ hold' = FALSE
    /\ NoSessionChange /\ Elsewhere
    /\ UNCHANGED <<pc, platform, first, pub, count, heard>>

\* Attestation, release of the canary, deletion of the job's files; each may
\* fail and the next goes on.
performCleanup ==
    /\ pc = "leave"
    /\ Exits
    /\ UNCHANGED <<status, stored, signed, faults>>

\* The job clock, which stands still for a dispute.
HardTimeout ==
    /\ pc # "off" /\ ~hold
    /\ Exits
    /\ UNCHANGED <<status, stored, signed, faults>>

\* SIGTERM, a kill, the end of the machine.
Killed ==
    /\ pc # "off"
    /\ Exits
    /\ UNCHANGED <<status, stored, signed, faults>>

-----------------------------------------------------------------------------
(* The platform, the buyer and the dispatcher. *)

NoProcess == UNCHANGED <<pc, chat, hire, close, tick, faults, first, pub, ipc,
                         ends, after, lost, stored, signed>>

\* A payment, a delivery by the platform itself, a cancellation.
PlatformMoves ==
    /\ \/ status = "accepted" /\ status' = "in_progress"
       \/ status \in Live \cup {"paused"} /\ status' \in {"delivered", "cancelled"}
       \/ status = "delivered" /\ status' = "completed"
       \/ status \in {"disputed", "rework"} /\ status' = "resolved"
       \/ status = "disputed" /\ status' = "rework"
    /\ NoProcess /\ UNCHANGED disputes

\* The buyer files it after the package has settled.
DisputeFiled ==
    /\ status = "delivered" /\ disputes < MaxDisputes /\ ~Publishing
    /\ status' = "disputed" /\ disputes' = disputes + 1
    /\ NoProcess

\* The dispatcher's poll tells the worker what it did not tell it last.  What
\* it read may be old when it arrives.
PollSends ==
    /\ pc # "off" /\ status \in POST_DELIVERY_STATUSES \cup {"completed"}
    /\ status # sent /\ Len(mail) < MaxMail
    /\ sent' = status
    /\ mail' = Append(mail, status)
    /\ NoSessionChange
    /\ UNCHANGED <<pc, platform, first, pub, waiting, spawns, before, stopping, after, lost>>

-----------------------------------------------------------------------------
InSession ==
    /\ SessionStep \/ HireIsSkipped(first.status, first.delivered)
    /\ first' = IF pc' = "hire" THEN first ELSE NoJob
    /\ UNCHANGED <<platform, pub, ipc, ends, after, lost>>

Publication(p) ==
    \/ ReworkAnswered(p) \/ uploadFileData(p) \/ PublishFails(p) \/ deliverJob(p)
    \/ DeliveryRefused(p) \/ ListFiles(p) \/ DeleteFiles(p)

Boots == ReadJob \/ AcceptJob \/ AcceptRefused \/ connectChat \/ DeliverChatFailure
Waits == surfaceDispute \/ EnterWait \/ DrainQueue \/ ReceiveAfterDelivery \/ Receive

Next ==
    \/ Spawn \/ Boots \/ StartFails
    \/ InSession
    \/ \E p \in Pubs : Publication(p)
    \/ Waits \/ HearShutdown \/ LoseLine
    \/ SafetyTimeout \/ HoldPasses \/ performCleanup \/ HardTimeout \/ Killed
    \/ PlatformMoves \/ DisputeFiled \/ PollSends \/ Shutdown

Spec == Init /\ [][Next]_vars

\* Main goes on: its calls end, by their answer or their timeout, and so does
\* every call of the model.  The worker's polls and the dispatcher's go on.
\* Nobody has to speak, to pay or to shut down, and no clock has to run out.
Session == <<platform, pub, ipc, ends, after, lost>>
MainGoesOn ==
    \/ Boots \/ surfaceDispute \/ EnterWait \/ performCleanup \/ Publication(Main)
    \/ /\ HireIsAnswered \/ HireHasNoAnswer \/ HireMeetsOutage \/ SessionEnds
       /\ first' = NoJob /\ UNCHANGED Session
ReadsMail == DrainQueue \/ ReceiveAfterDelivery \/ Receive \/ HearShutdown
Fairness ==
    /\ WF_vars(MainGoesOn) /\ WF_vars(ReadsMail) /\ WF_vars(PollSends)
    /\ WF_vars(Answer /\ first' = NoJob /\ UNCHANGED Session)
    /\ \A m \in Msgs : WF_vars((PollFinds(m) \/ SocketBrings(m)) /\ first' = NoJob /\ UNCHANGED Session)

FairSpec == Spec /\ Fairness

-----------------------------------------------------------------------------
(* Properties. *)

\* The package whose hash the last accepted delivery carries is on the
\* platform: no upload, refusal, lost answer or clean-up of an earlier package
\* takes it away (publishFinishedJob, dropReplacedPackages).
DeliveredIsStored == signed \in Pkgs => signed \in stored

\* A worker started for a job that had been delivered does not do the hire
\* again, whatever the status moves to meanwhile, and does not ask to accept
\* it, which the platform refuses (POST_DELIVERY_STATUSES).
WorkIsNotRedone ==
    before => /\ pc \notin {"hire", "session", "publish"}
              /\ pc = "accept" => status \notin POST_DELIVERY_STATUSES

\* A worker that is told of the shutdown ends, wherever it was: in the hire, in
\* the session, delivering, or waiting on an open dispute.
ShutdownIsHeard == stopping ~> pc = "off"

\* A rework that was agreed reaches the worker that has delivered, or was
\* started since, unless a line is lost in the file (the poll of cli.js with
\* _lastSentStatus, ipcQueue and its drain).
ReworkIsTakenUp ==
    LET InTheHire == pc \in {"off", "hire", "session"}
    IN  (status = "rework" /\ ~InTheHire) ~> (status # "rework" \/ InTheHire \/ count > 0 \/ lost)

\* A message of the buyer that the socket or the poll's window brings is
\* answered, or the session is over (processBuyerMessage, the message poll).
\* In a pause only the socket is listened to.
MessageIsSettled ==
    \A m \in Msgs :
        msg[m] \in {"posted", "late", "queued"} /\ pc = "session"
            ~> \/ msg[m] = "done" \/ pc # "session"
               \/ paused /\ (m \notin Pushed \/ msg[m] = "late")
=============================================================================
