------------------------------ MODULE Dispatch ------------------------------
(***************************************************************************)
(* The job dispatcher of src/cli.js, in the Docker runtime and for labour  *)
(* jobs: who starts a worker for a paid job, who stops it, and where a job *)
(* is written down meanwhile.                                              *)
(*                                                                         *)
(* One Node process runs the actors: the poll, the 10-second cleanup, the  *)
(* timer of a job, the webhook handlers.  Code between two awaits is one   *)
(* step; a task is a call that waits at an await, and everything it has    *)
(* read before may be stale when it goes on.                               *)
(*                                                                         *)
(* A job is first seen here when it is paid, and the platform has it       *)
(* in_progress.  Left out: acceptance and payment, disputes, rentals,      *)
(* datasets, memory pressure, extensions and workspaces.                   *)
(***************************************************************************)
EXTENDS Naturals, FiniteSets

CONSTANTS
    Jobs, Agents,
    SellerOf,     \* the agent a job was bought from
    MaxAgents,    \* MAX_AGENTS, the number of slots
    Hooks,        \* webhook handlers that may be under way at one time
    MaxRetries, MaxRevives,
    MaxTroubles   \* bound: webhooks, pauses, failed starts, bad exits, timeouts,
                  \* expiries and deaths of the dispatcher, all together

ASSUME DispatchAssumption ==
    /\ SellerOf \in [Jobs -> Agents]
    /\ MaxAgents \in Nat \ {0}
    /\ IsFiniteSet(Hooks) /\ Hooks \cap {"poll", "cleanup", "timer"} = {}
    /\ {MaxRetries, MaxRevives, MaxTroubles} \subseteq Nat

VARIABLES
    status,       \* of a job, at the platform
    pausedOnce,   \* the jobs the platform has sent a pause event for
    container,    \* the container with a job's name: its generation, running?
    active, available, queued, seen, rqueue, retries, revives,  \* state.*
    seenFile, rowFile, rqFile, owed,                            \* on disk
    task,         \* the calls under way
    boot, todo, refunding, keep,                                \* crash recovery
    troubles

platform == <<status, pausedOnce>>
pool == <<active, available>>
memory == <<queued, seen, rqueue, retries, revives>>
disk == <<seenFile, rowFile, rqFile, owed>>
recovery == <<boot, todo, refunding, keep>>
vars == <<platform, container, pool, memory, disk, task, recovery, troubles>>

Over == {"delivered", "cancelled"}
Statuses == {"in_progress", "paused"} \cup Over
Waiting == {"no", "waiting", "ready"}
Tasks == {"poll", "cleanup", "timer"} \cup Hooks

None == [gen |-> 0, up |-> FALSE]
Idle == [at |-> "idle"]
NoEntry == [gen |-> 0]

\* The jobs in a map of entries, and the active ones.
Listed(map) == {j \in Jobs : map[j] # NoEntry}
HasSlot == Cardinality(Listed(active)) < MaxAgents

Init ==
    /\ status = [j \in Jobs |-> "in_progress"] /\ pausedOnce = {}
    /\ container = [j \in Jobs |-> None]
    /\ active = [j \in Jobs |-> NoEntry] /\ available = Agents
    /\ queued = [j \in Jobs |-> 0] /\ seen = {}
    /\ rqueue = [j \in Jobs |-> "no"]
    /\ retries = [j \in Jobs |-> 0] /\ revives = [j \in Jobs |-> 0]
    /\ seenFile = {} /\ rowFile = {} /\ rqFile = rqueue /\ owed = {}
    /\ task = [t \in Tasks |-> Idle]
    /\ boot = "up" /\ todo = {} /\ refunding = {} /\ keep = {}
    /\ troubles = 0

Goto(t, point) == task' = [task EXCEPT ![t] = point]
Trouble == troubles < MaxTroubles /\ troubles' = troubles + 1

\* Mutant: the map is saved before it is changed.
persistBefore == rowFile' = Listed(active)
persistActiveJobs == rowFile' = Listed(active')

\* A generation is named again when nobody refers to it any more.
Referred(j) ==
    {container[j].gen, active[j].gen} \cup
    {task[t].gen : t \in {u \in Tasks : task[u] # Idle /\ task[u].job = j}}

Fresh(j) == CHOOSE g \in 1..(Cardinality(Tasks) + 3) : g \notin Referred(j)

\* The container of a job is stopped and removed, if it is of this generation.
Kill(j, gen) == container' = [container EXCEPT ![j] = IF @.gen = gen THEN None ELSE @]

-----------------------------------------------------------------------------
(* startJobContainer *)

At(t, at, j, agent, for, gen) ==
    Goto(t, [at |-> at, job |-> j, agent |-> agent, for |-> for, gen |-> gen])

Starting(t, j, agent, for) == At(t, "prepare", j, agent, for, 0)

Move(t, at, gen) == At(t, at, task[t].job, task[t].agent, task[t].for, gen)

\* docker rm -f, after the canary and the signing channel are set up.
RemoveStale(t) ==
    LET j == task[t].job IN
    /\ task[t].at = "prepare"
    /\ Kill(j, container[j].gen)
    /\ Move(t, "create", 0)
    /\ UNCHANGED <<platform, pool, memory, disk, recovery, troubles>>

\* docker.createContainer: a name is given once.
CreateContainer(t) ==
    LET j == task[t].job IN
    /\ task[t].at = "create"
    /\ IF container[j] = None
       THEN /\ container' = [container EXCEPT ![j] = [gen |-> Fresh(j), up |-> FALSE]]
            /\ Move(t, "launch", Fresh(j))
       ELSE container' = container /\ Move(t, "failed", 0)
    /\ UNCHANGED <<platform, pool, memory, disk, recovery, troubles>>

LaunchContainer(t) ==
    LET j == task[t].job IN
    /\ task[t].at = "launch"
    /\ IF container[j].gen = task[t].gen
       THEN /\ container' = [container EXCEPT ![j].up = TRUE]
            /\ Move(t, "payee", task[t].gen)
       ELSE container' = container /\ Move(t, "failed", 0)
    /\ UNCHANGED <<platform, pool, memory, disk, recovery, troubles>>

StartFails(t) ==
    /\ task[t].at \in {"create", "launch"}
    /\ Move(t, "failed", 0)
    /\ Trouble
    /\ UNCHANGED <<platform, container, pool, memory, disk, recovery>>

\* After ensurePayee: the entry is set, and seen and active jobs are saved.
\* Only the poll and the respawn look at what came of it, after the log stream
\* is attached.
Place(t) ==
    LET j == task[t].job IN
    /\ task[t].at = "payee"
    /\ active' = [active EXCEPT ![j] =
                     [gen |-> task[t].gen, agent |-> task[t].agent, pausing |-> FALSE, stopping |-> FALSE]]
    /\ available' = available \ {task[t].agent}
    /\ seen' = seen \cup {j} /\ seenFile' = seen'
    /\ persistActiveJobs
    /\ IF task[t].for \in {"new", "respawn"} THEN Move(t, "return", 0) ELSE Goto(t, Idle)
    /\ UNCHANGED <<queued, rqueue, retries, revives, rqFile, owed>>
    /\ UNCHANGED <<platform, container, recovery, troubles>>

\* The job did not get a worker: the poll forgets it, a resume is queued again.
NotPlaced(t) ==
    LET j == task[t].job IN
    /\ seen' = IF task[t].for = "new" THEN seen \ {j} ELSE seen
    /\ seenFile' = IF task[t].for = "new" THEN seen' ELSE seenFile
    /\ IF task[t].for = "respawn"
       THEN /\ rqueue' = [rqueue EXCEPT ![j] = IF @ = "no" THEN "ready" ELSE @]
            /\ rqFile' = rqueue'
       ELSE UNCHANGED <<rqueue, rqFile>>
    /\ Goto(t, Idle)

Return(t) ==
    LET j == task[t].job IN
    /\ task[t].at = "return"
    /\ IF active[j] = NoEntry
       THEN NotPlaced(t)
       ELSE /\ seenFile' = IF task[t].for = "new" THEN seen ELSE seenFile
            /\ IF task[t].for = "respawn" THEN Move(t, "respawned", 0) ELSE Goto(t, Idle)
            /\ UNCHANGED <<seen, rqueue, rqFile>>
    /\ UNCHANGED <<queued, retries, revives, rowFile, owed>>
    /\ UNCHANGED <<platform, container, pool, recovery, troubles>>

\* The catch of startJobContainer swallows the error: the caller finds no entry,
\* or one that is not its own.
GiveUp(t) ==
    /\ task[t].at = "failed"
    /\ available' = available \cup {task[t].agent}
    /\ IF active[task[t].job] = NoEntry
       THEN NotPlaced(t)
       ELSE UNCHANGED <<seen, seenFile, rqueue, rqFile>> /\ Goto(t, Idle)
    /\ UNCHANGED <<active, queued, retries, revives, rowFile, owed>>
    /\ UNCHANGED <<platform, container, recovery, troubles>>

\* An error before the try block is thrown at the caller.
StartThrows(t) ==
    LET j == task[t].job IN
    /\ task[t].at = "prepare"
    /\ NotPlaced(t)
    /\ IF task[t].for = "drain"
       THEN /\ available' = available \cup {task[t].agent}
            /\ queued' = [queued EXCEPT ![j] = @ + 1]
       ELSE UNCHANGED <<available, queued>>
    /\ Trouble
    /\ UNCHANGED <<active, retries, revives, rowFile, owed, platform, container, recovery>>

-----------------------------------------------------------------------------
(* stopJobContainer *)

\* Whoever stopped the worker of j goes on: cleanup retries, the webhook of a
\* cancellation takes the job out of the queue, and marks it as seen.
Then(t, j, agent, for) ==
    /\ IF for = "retry" THEN Starting(t, j, agent, "retry") ELSE Goto(t, Idle)
    /\ IF for = "cancel"
       THEN /\ queued' = [queued EXCEPT ![j] = 0]
            /\ seen' = seen \cup {j} /\ seenFile' = seen'
       ELSE UNCHANGED <<queued, seen, seenFile>>

\* The call: t waits for container.stop, unless another call stops the entry.
StopCall(t, j, agent, for) ==
    IF active[j] # NoEntry /\ ~active[j].stopping
    THEN /\ active' = [active EXCEPT ![j].stopping = TRUE]
         /\ At(t, "stop", j, agent, for, active[j].gen)
         /\ UNCHANGED <<queued, seen, seenFile>>
    ELSE active' = active /\ Then(t, j, agent, for)

\* Mutant: whatever entry the job has now is taken for the one that was stopped.
OwnsById(t) == active[task[t].job] # NoEntry
Owns(t) == active[task[t].job].gen = task[t].gen

\* A resume may have taken the id while the container was stopped.
StopContainer(t) ==
    LET j == task[t].job IN
    /\ task[t].at = "stop"
    /\ Kill(j, task[t].gen)
    /\ IF Owns(t)
       THEN Move(t, "flush", task[t].gen) /\ UNCHANGED <<queued, seen, seenFile>>
       ELSE Then(t, j, task[t].agent, task[t].for)
    /\ UNCHANGED <<rqueue, retries, revives, rowFile, rqFile, owed>>
    /\ UNCHANGED <<platform, pool, recovery, troubles>>

\* Broker and log are closed; a resume may have taken the id meanwhile.
FinishStop(t) ==
    LET j == task[t].job IN
    /\ task[t].at = "flush"
    /\ IF Owns(t)
       THEN /\ active' = [active EXCEPT ![j] = NoEntry]
            /\ persistActiveJobs
            /\ IF task[t].for = "retry"
               THEN UNCHANGED <<available, retries>>
               ELSE /\ available' = available \cup {active[j].agent}
                    /\ retries' = [retries EXCEPT ![j] = 0]
       ELSE UNCHANGED <<pool, rowFile, retries>>
    /\ Then(t, j, task[t].agent, task[t].for)
    /\ UNCHANGED <<rqueue, revives, rqFile, owed>>
    /\ UNCHANGED <<platform, container, recovery, troubles>>

TimerFires(j) ==
    /\ task["timer"] = Idle
    /\ active[j] # NoEntry /\ ~active[j].stopping
    /\ StopCall("timer", j, active[j].agent, "none")
    /\ Trouble
    /\ UNCHANGED <<available, rqueue, retries, revives, rowFile, rqFile, owed>>
    /\ UNCHANGED <<platform, container, recovery>>

-----------------------------------------------------------------------------
(* The reactivation queue *)

\* moveJobToReactivationQueue: queued and saved first, then the slot is freed,
\* then the container is stopped.
MoveJob(t, j) ==
    /\ IF active[j] = NoEntry
       THEN UNCHANGED <<active, rowFile, rqueue, rqFile>> /\ Goto(t, Idle)
       ELSE /\ rqueue' = [rqueue EXCEPT ![j] = IF @ = "no" THEN "waiting" ELSE @]
            /\ rqFile' = rqueue'
            /\ active' = [active EXCEPT ![j] = NoEntry]
            /\ persistActiveJobs
            /\ At(t, "halt", j, active[j].agent, "none", active[j].gen)
    /\ UNCHANGED <<available, queued, seen, retries, revives, seenFile, owed>>
    /\ UNCHANGED <<platform, container, recovery>>

Halt(t) ==
    /\ task[t].at = "halt"
    /\ Kill(task[t].job, task[t].gen)
    /\ Goto(t, Idle)
    /\ UNCHANGED <<platform, pool, memory, disk, recovery, troubles>>

\* Mutant: the flag is set in memory only.
FlagUnsaved(j) == rqueue' = [rqueue EXCEPT ![j] = "ready"] /\ rqFile' = rqFile
Flag(j) == rqueue' = [rqueue EXCEPT ![j] = "ready"] /\ rqFile' = rqueue'

\* A resume is flagged, and the scheduler called.
MarkReady(t, j) ==
    /\ IF rqueue[j] = "no"
       THEN UNCHANGED <<rqueue, rqFile>> /\ Goto(t, Idle)
       ELSE /\ Flag(j)
            /\ At(t, "respawn", j, SellerOf[j], "none", 0)
    /\ UNCHANGED <<queued, seen, retries, revives, seenFile, rowFile, owed>>
    /\ UNCHANGED <<platform, container, pool, recovery>>

\* respawnReadyResumes takes an entry out of memory, not out of the file.
Respawn(t, j) ==
    /\ task[t].at \in {"respawn", "respawned"}
    /\ HasSlot /\ rqueue[j] = "ready"
    /\ rqueue' = [rqueue EXCEPT ![j] = "no"]
    /\ Starting(t, j, SellerOf[j], "respawn")
    /\ UNCHANGED <<queued, seen, retries, revives>>
    /\ UNCHANGED <<platform, container, pool, disk, recovery, troubles>>

RespawnEnds(t) ==
    /\ task[t].at \in {"respawn", "respawned"}
    /\ HasSlot => \A j \in Jobs : rqueue[j] # "ready"
    /\ rqFile' = IF task[t].at = "respawned" THEN rqueue ELSE rqFile
    /\ Goto(t, Idle)
    /\ UNCHANGED <<seenFile, rowFile, owed>>
    /\ UNCHANGED <<platform, container, pool, memory, recovery, troubles>>

-----------------------------------------------------------------------------
(* pollForJobs.  One poll runs at a time, and goes through these phases; a   *)
(* phase may find nothing to do.                                             *)

Poll == task["poll"] = Idle

\* The job lists of the agents are fetched.
PollFetch(j) ==
    /\ Poll
    /\ status[j] = "in_progress"
    /\ At("poll", "listed", j, SellerOf[j], "none", 0)
    /\ UNCHANGED <<platform, container, pool, memory, disk, recovery, troubles>>

\* A job that nobody has seen is started, or queued when all slots are taken.
\* It is seen in memory before the start.
TakeUp(j) ==
    IF active[j] # NoEntry \/ queued[j] > 0
    THEN queued' = queued /\ Goto("poll", Idle)
    ELSE IF HasSlot
         THEN queued' = queued /\ Starting("poll", j, SellerOf[j], "new")
         ELSE queued' = [queued EXCEPT ![j] = 1] /\ Goto("poll", Idle)

Marks(j) == IF active[j] # NoEntry \/ queued[j] > 0 THEN {} ELSE {j}

PollUnseen ==
    LET j == task["poll"].job IN
    /\ task["poll"].at = "listed"
    /\ j \notin seen
    /\ TakeUp(j)
    /\ seen' = seen \cup Marks(j)
    /\ UNCHANGED <<rqueue, retries, revives, platform, container, pool, disk, recovery, troubles>>

\* openStrandedInProgress: a job that was seen and has no worker.
PollSeen ==
    LET j == task["poll"].job IN
    /\ task["poll"].at = "listed"
    /\ j \in seen
    /\ IF /\ active[j] = NoEntry /\ queued[j] = 0 /\ rqueue[j] = "no"
          /\ revives[j] < MaxRevives
       THEN Move("poll", "confirm", 0)
       ELSE Goto("poll", Idle)
    /\ UNCHANGED <<platform, container, pool, memory, disk, recovery, troubles>>

\* It is read again: the delivery is not in the list.
PollConfirm ==
    LET j == task["poll"].job IN
    /\ task["poll"].at = "confirm"
    /\ IF status[j] = "in_progress" /\ active[j] = NoEntry /\ j \in seen
       THEN /\ revives' = [revives EXCEPT ![j] = @ + 1]
            /\ seenFile' = seen \ {j}
            /\ seen' = (seen \ {j}) \cup Marks(j)
            /\ TakeUp(j)
       ELSE UNCHANGED <<revives, seenFile, seen, queued>> /\ Goto("poll", Idle)
    /\ UNCHANGED <<rqueue, retries, rowFile, rqFile, owed>>
    /\ UNCHANGED <<platform, container, pool, recovery, troubles>>

\* A job with a worker, and a paused one without, are read from the platform.
PollReads(j) ==
    /\ Poll
    /\ \/ /\ status[j] = "paused" /\ active[j] # NoEntry
          /\ At("poll", "sawpaused", j, SellerOf[j], "none", 0)
       \/ /\ status[j] = "in_progress" /\ rqueue[j] = "waiting" /\ HasSlot
          /\ At("poll", "sawresumed", j, SellerOf[j], "none", 0)
    /\ UNCHANGED <<platform, container, pool, memory, disk, recovery, troubles>>

PollPauses ==
    LET j == task["poll"].job IN
    /\ task["poll"].at = "sawpaused"
    /\ IF active[j] # NoEntry /\ ~active[j].pausing
       THEN MoveJob("poll", j)
       ELSE Goto("poll", Idle) /\ UNCHANGED <<platform, container, pool, memory, disk, recovery>>
    /\ UNCHANGED troubles

PollResumes ==
    /\ task["poll"].at = "sawresumed"
    /\ MarkReady("poll", task["poll"].job)
    /\ UNCHANGED troubles

\* sweepExpiredQueue: pause_ttl has elapsed.
SweepExpired(j) ==
    /\ Poll
    /\ rqueue[j] # "no"
    /\ rqueue' = [rqueue EXCEPT ![j] = "no"] /\ rqFile' = rqueue'
    /\ Trouble
    /\ UNCHANGED <<queued, seen, retries, revives, seenFile, rowFile, owed>>
    /\ UNCHANGED <<platform, container, pool, task, recovery>>

PollRespawns ==
    /\ Poll
    /\ \E j \in Jobs : rqueue[j] = "ready" /\ At("poll", "respawn", j, SellerOf[j], "none", 0)
    /\ UNCHANGED <<platform, container, pool, memory, disk, recovery, troubles>>

\* The queue is drained into free slots, with any idle agent.
Drain(j) ==
    /\ Poll
    /\ HasSlot /\ queued[j] > 0
    /\ queued' = [queued EXCEPT ![j] = @ - 1]
    /\ \E a \in available :
          available' = available \ {a} /\ Starting("poll", j, a, "drain")
    /\ UNCHANGED <<active, seen, rqueue, retries, revives>>
    /\ UNCHANGED <<platform, container, disk, recovery, troubles>>

-----------------------------------------------------------------------------
(* cleanupCompletedJobs *)

CleanupInspects(j) ==
    /\ task["cleanup"] = Idle
    /\ active[j] # NoEntry /\ ~active[j].pausing
    /\ At("cleanup", "inspect", j, active[j].agent, "none", 0)
    /\ UNCHANGED <<platform, container, pool, memory, disk, recovery, troubles>>

\* The container with the job's name runs.
CleanupLeaves ==
    /\ task["cleanup"].at = "inspect"
    /\ container[task["cleanup"].job].up
    /\ Goto("cleanup", Idle)
    /\ UNCHANGED <<platform, container, pool, memory, disk, recovery, troubles>>

MayRetry(j) == retries[j] < MaxRetries

\* It has ended.  The exit code is read from the entry, where it may not have
\* arrived yet.  A crash is retried, and at the end refunded.
CleanupDecides ==
    LET j == task["cleanup"].job IN
    /\ task["cleanup"].at = "inspect" /\ ~container[j].up
    /\ \/ /\ MayRetry(j)
          /\ retries' = [retries EXCEPT ![j] = @ + 1]
          /\ At("cleanup", "refetch", j, task["cleanup"].agent, retries[j], 0)
          /\ UNCHANGED <<active, owed, queued, seen, seenFile>>
       \/ /\ ~MayRetry(j) /\ owed' = owed \cup {j}
          /\ StopCall("cleanup", j, task["cleanup"].agent, "none")
          /\ UNCHANGED retries
       \/ StopCall("cleanup", j, task["cleanup"].agent, "none") /\ UNCHANGED <<owed, retries>>
    /\ UNCHANGED <<available, rqueue, revives, rowFile, rqFile>>
    /\ UNCHANGED <<platform, container, recovery, troubles>>

\* A job that is over is not retried.
CleanupRetries ==
    LET j == task["cleanup"].job IN
    /\ task["cleanup"].at = "refetch"
    /\ StopCall("cleanup", j, task["cleanup"].agent,
                IF status[j] \in Over THEN "none" ELSE "retry")
    /\ UNCHANGED <<available, rqueue, retries, revives, rowFile, rqFile, owed>>
    /\ UNCHANGED <<platform, container, recovery, troubles>>

RefetchFails ==
    LET j == task["cleanup"].job IN
    /\ task["cleanup"].at = "refetch"
    /\ retries' = [retries EXCEPT ![j] = task["cleanup"].for]
    /\ Goto("cleanup", Idle)
    /\ Trouble
    /\ UNCHANGED <<queued, seen, rqueue, revives, pool, platform, container, disk, recovery>>

-----------------------------------------------------------------------------
(* handleWebhookEvent.  Events are late, repeated, and never taken back.     *)

Hook(h) == task[h] = Idle

\* job.started, before and after the job is read.
HookStarted(h, j) ==
    /\ Hook(h)
    /\ active[j] = NoEntry /\ j \notin seen
    /\ At(h, "started", j, SellerOf[j], "none", 0)
    /\ Trouble
    /\ UNCHANGED <<platform, container, pool, memory, disk, recovery>>

HookStarts(h) ==
    LET j == task[h].job IN
    /\ task[h].at = "started"
    /\ IF status[j] # "in_progress"
       THEN queued' = queued /\ Goto(h, Idle)
       ELSE IF HasSlot
            THEN queued' = queued /\ Starting(h, j, SellerOf[j], "hook")
            ELSE queued' = [queued EXCEPT ![j] = @ + 1] /\ Goto(h, Idle)
    /\ UNCHANGED <<seen, rqueue, retries, revives, platform, container, pool, disk, recovery, troubles>>

\* job.paused: a job without a reactivation fee is extended first.
HookPaused(h, j) ==
    /\ Hook(h) /\ j \in pausedOnce
    /\ active[j] # NoEntry /\ ~active[j].pausing
    /\ \/ MoveJob(h, j)
       \/ /\ active' = [active EXCEPT ![j].pausing = TRUE]
          /\ At(h, "extended", j, SellerOf[j], "none", 0)
          /\ UNCHANGED <<available, memory, disk, platform, container, recovery>>
    /\ Trouble

\* Mutant: a job that the buyer has resumed meanwhile is left as it is.
HookPausesIfPaused(h) ==
    /\ task[h].at = "extended" /\ status[task[h].job] # "paused"
    /\ Goto(h, Idle)
    /\ UNCHANGED <<platform, container, pool, memory, disk, recovery, troubles>>

HookPauses(h) ==
    /\ task[h].at = "extended"
    /\ MoveJob(h, task[h].job)
    /\ UNCHANGED troubles

HookResumed(h, j) ==
    /\ Hook(h) /\ j \in pausedOnce /\ status[j] # "paused"
    /\ rqueue[j] # "no"
    /\ MarkReady(h, j)
    /\ Trouble

HookCancelled(h, j) ==
    /\ Hook(h) /\ status[j] = "cancelled"
    /\ active[j] # NoEntry \/ queued[j] > 0
    /\ StopCall(h, j, SellerOf[j], "cancel")
    /\ Trouble
    /\ UNCHANGED <<available, rqueue, retries, revives, rowFile, rqFile, owed>>
    /\ UNCHANGED <<platform, container, recovery>>

-----------------------------------------------------------------------------
(* The dispatcher dies; containers run on.  handleCrashRecovery runs at the  *)
(* next start, when timers and webhooks run already.                         *)

Crash ==
    /\ Trouble
    /\ active' = [j \in Jobs |-> NoEntry] /\ available' = Agents
    /\ queued' = [j \in Jobs |-> 0] /\ seen' = seenFile /\ rqueue' = rqFile
    /\ retries' = [j \in Jobs |-> 0] /\ revives' = [j \in Jobs |-> 0]
    /\ task' = [t \in Tasks |-> Idle]
    /\ boot' = "recovery" /\ todo' = rowFile /\ refunding' = {} /\ keep' = {}
    /\ UNCHANGED <<platform, container, disk>>

\* A paused job and a refund on record are skipped, a job that is over is
\* cleared; what cannot be judged stays.
Recover(j) ==
    /\ boot = "recovery" /\ j \in todo
    /\ todo' = todo \ {j}
    /\ IF rqueue[j] # "no" \/ j \in owed \/ status[j] \in Over
       THEN UNCHANGED <<refunding, keep, container>>
       ELSE \/ /\ refunding' = refunding \cup {j} /\ keep' = keep
               /\ Kill(j, container[j].gen)
            \/ keep' = keep \cup {j} /\ UNCHANGED <<refunding, container>>
    /\ UNCHANGED <<boot, platform, pool, memory, disk, task, troubles>>

RecoveryEnds ==
    /\ boot = "recovery" /\ todo = {}
    /\ boot' = "up"
    /\ owed' = owed \cup refunding
    /\ rowFile' = keep
    /\ UNCHANGED <<todo, refunding, keep, seenFile, rqFile>>
    /\ UNCHANGED <<platform, container, pool, memory, task, troubles>>

-----------------------------------------------------------------------------
(* The platform, the buyer, the worker *)

Becomes(j, from, to) ==
    /\ status[j] \in from /\ status' = [status EXCEPT ![j] = to]
    /\ UNCHANGED <<container, pool, memory, disk, task, recovery>>

Resume(j) == Becomes(j, {"paused"}, "in_progress") /\ UNCHANGED <<pausedOnce, troubles>>
Cancel(j) == Becomes(j, {"in_progress", "paused"}, "cancelled") /\ UNCHANGED <<pausedOnce, troubles>>
Deliver(j) == container[j].up /\ Becomes(j, {"in_progress"}, "delivered") /\ UNCHANGED <<pausedOnce, troubles>>
Pause(j) == Becomes(j, {"in_progress"}, "paused") /\ pausedOnce' = pausedOnce \cup {j} /\ Trouble

\* A worker ends with its job, or before.  Docker removes the container.
WorkerEnds(j) ==
    /\ container[j].up
    /\ container' = [container EXCEPT ![j] = None]
    /\ IF status[j] \in Over THEN UNCHANGED troubles ELSE Trouble
    /\ UNCHANGED <<platform, pool, memory, disk, task, recovery>>

-----------------------------------------------------------------------------
(* The specification *)

Start(t) ==
    \/ RemoveStale(t) \/ CreateContainer(t) \/ LaunchContainer(t) \/ Place(t)
    \/ GiveUp(t) \/ Return(t)

Continue(t) ==
    \/ Start(t) \/ StopContainer(t) \/ FinishStop(t) \/ Halt(t)
    \/ \E j \in Jobs : Respawn(t, j)
    \/ RespawnEnds(t)

PollGoesOn == PollUnseen \/ PollSeen \/ PollConfirm \/ PollPauses \/ PollResumes

Act(j) ==
    \/ PollFetch(j) \/ PollReads(j) \/ SweepExpired(j) \/ Drain(j)
    \/ TimerFires(j) \/ CleanupInspects(j) \/ Recover(j)
    \/ \E h \in Hooks : HookStarted(h, j) \/ HookPaused(h, j) \/ HookResumed(h, j) \/ HookCancelled(h, j)

World(j) ==
    \/ Pause(j) \/ Resume(j) \/ Cancel(j) \/ Deliver(j) \/ WorkerEnds(j)

Next ==
    \/ \E j \in Jobs : Act(j) \/ World(j)
    \/ \E t \in Tasks : Continue(t) \/ StartFails(t) \/ StartThrows(t)
    \/ \E h \in Hooks : HookStarts(h) \/ HookPauses(h)
    \/ PollGoesOn \/ PollRespawns \/ CleanupLeaves \/ CleanupDecides \/ CleanupRetries \/ RefetchFails
    \/ Crash \/ RecoveryEnds

Spec == Init /\ [][Next]_vars

\* Docker, the platform and the disk answer; the poll and the cleanup come again
\* and go through all their phases; jobs and workers come to an end.
Fairness ==
    /\ \A t \in Tasks : WF_vars(Continue(t))
    /\ \A h \in Hooks : WF_vars(HookStarts(h) \/ HookPauses(h))
    /\ WF_vars(PollGoesOn) /\ SF_vars(PollRespawns)
    /\ WF_vars(CleanupLeaves \/ CleanupDecides \/ CleanupRetries)
    /\ WF_vars(RecoveryEnds)
    /\ \A j \in Jobs :
          /\ SF_vars(PollFetch(j)) /\ SF_vars(PollReads(j)) /\ SF_vars(Drain(j))
          /\ SF_vars(CleanupInspects(j)) /\ WF_vars(Recover(j))
          /\ SF_vars(Deliver(j)) /\ WF_vars(status[j] = "paused" /\ (Resume(j) \/ Cancel(j)))
          /\ WF_vars(status[j] \in Over /\ WorkerEnds(j))

FairSpec == Spec /\ Fairness

-----------------------------------------------------------------------------
(* Properties *)

\* The shape of the maps, the files and the containers; a running container has
\* a generation, and so has every entry.
TypeOK ==
    /\ status \in [Jobs -> Statuses]
    /\ \A j \in Jobs :
          /\ container[j].up \in BOOLEAN /\ container[j].up => container[j].gen > 0
          /\ active[j] # NoEntry => active[j].gen > 0 /\ active[j].agent \in Agents
    /\ available \subseteq Agents
    /\ seen \subseteq Jobs /\ seenFile \subseteq Jobs /\ rowFile \subseteq Jobs /\ owed \subseteq Jobs
    /\ {rqueue, rqFile} \subseteq [Jobs -> Waiting]
    /\ retries \in [Jobs -> 0..MaxRetries] /\ revives \in [Jobs -> 0..MaxRevives]

\* A paused or resumed job is in the file as it is in memory: a death of the
\* dispatcher does not lose it.
PausedIsOnDisk == \A j \in Jobs : rqueue[j] # "no" => rqFile[j] = rqueue[j]

\* Crash recovery finds a row for every job that has a worker: only the end of
\* an earlier recovery, which writes the rows it read at its start, drops one.
RowIsKept ==
    [][Listed(active) \subseteq rowFile
       => Listed(active)' \subseteq rowFile' \/ (boot = "recovery" /\ boot' = "up")]_vars

\* An entry that is marked as being stopped or paused has a call that will take
\* it out.  Without one it would be skipped by cleanup, timer and webhooks.
MarkIsServed ==
    \A j \in Listed(active) :
        /\ active[j].stopping =>
              \E t \in Tasks : /\ task[t].at \in {"stop", "flush"}
                               /\ task[t].job = j /\ task[t].gen = active[j].gen
        /\ active[j].pausing => \E h \in Hooks : task[h].at = "extended" /\ task[h].job = j

\* A call that stops a worker does not take out a later worker of the job: an
\* entry goes only when its own container has, or when the job is paused.
ReplacedIsSpared ==
    [][\A j \in Jobs :
          active[j] # NoEntry /\ active'[j] = NoEntry
          => Crash \/ rqueue'[j] # "no" \/ container[j].gen # active[j].gen]_vars

\* A job in the capacity queue gets a worker when the jobs before it have ended.
QueuedIsTakenUp ==
    \A j \in Jobs : queued[j] > 0 ~> active[j] # NoEntry \/ status[j] \in Over
=============================================================================
