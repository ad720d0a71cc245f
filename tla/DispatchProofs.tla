--------------------------- MODULE DispatchProofs ---------------------------
(***************************************************************************)
(* Proofs about Dispatch, for any number of jobs, agents, slots and        *)
(* webhook handlers, whatever the interleaving of the handlers with the    *)
(* poll, the cleanup, the timer, crash recovery and deaths.                *)
(*                                                                         *)
(* Types (the state and the calls under way) is the invariant the others   *)
(* rest on; StoppedIsGone says that a call which has stopped its container *)
(* never meets a container of that generation again.                       *)
(***************************************************************************)
EXTENDS Dispatch, FiniteSetTheorems, TLAPS

-----------------------------------------------------------------------------
(* Types *)

Points ==
    {"prepare", "create", "launch", "failed", "payee", "return", "respawned", "respawn",
     "stop", "flush", "halt", "listed", "confirm", "sawpaused", "sawresumed",
     "inspect", "refetch", "started", "extended"}

\* Where a call is about a container, and not about what the job's is called.
OwnPoints == {"launch", "payee", "stop", "flush"}

Reasons == {"none", "retry", "cancel", "new", "respawn", "drain", "hook"}

\* A refetch keeps the number of retries that it will restore.
Refetches == [at : {"refetch"}, job : Jobs, agent : Agents, for : 0..MaxRetries, gen : Nat]

Calls ==
    [at : Points \ {"refetch"}, job : Jobs, agent : Agents, for : Reasons, gen : Nat] \cup Refetches

Entries == [gen : Nat \ {0}, agent : Agents, pausing : BOOLEAN, stopping : BOOLEAN]

Containers == [gen : Nat, up : BOOLEAN]

\* A call t may be c when the jobs have been revived this often: only the poll
\* revives a job.
Sound(t, c, revived) ==
    /\ c.at \in OwnPoints => c.gen > 0
    /\ c.at = "confirm" => t = "poll" /\ revived[c.job] < MaxRevives

PlatformOk == status \in [Jobs -> Statuses]

ContainerOk ==
    /\ container \in [Jobs -> Containers]
    /\ \A j \in Jobs : container[j].up => container[j].gen > 0

PoolOk == active \in [Jobs -> {NoEntry} \cup Entries] /\ available \subseteq Agents

MemoryOk ==
    /\ queued \in [Jobs -> Nat] /\ seen \subseteq Jobs /\ rqueue \in [Jobs -> Waiting]
    /\ retries \in [Jobs -> 0..MaxRetries] /\ revives \in [Jobs -> 0..MaxRevives]

DiskOk ==
    /\ seenFile \subseteq Jobs /\ rowFile \subseteq Jobs /\ owed \subseteq Jobs
    /\ rqFile \in [Jobs -> Waiting]

TaskOk ==
    /\ task \in [Tasks -> {Idle} \cup Calls]
    /\ \A t \in Tasks : Sound(t, task[t], revives)

RecoveryOk == todo \subseteq Jobs /\ refunding \subseteq Jobs /\ keep \subseteq Jobs

Types ==
    /\ PlatformOk /\ ContainerOk /\ PoolOk /\ MemoryOk /\ DiskOk /\ TaskOk /\ RecoveryOk

\* A call that has stopped its container: no container of that generation exists
\* any more, nor will one be named so while the call goes on.
StoppedIsGone ==
    \A t \in Tasks : task[t].at = "flush" => container[task[t].job].gen # task[t].gen

-----------------------------------------------------------------------------
(* Lemmas about the operators *)

\* A call that does something is a call.
LEMMA CallFields ==
    ASSUME Types, NEW t \in Tasks, task[t].at # "idle"
    PROVE  /\ task[t] \in Calls /\ task[t] # Idle
           /\ task[t].at \in Points /\ task[t].job \in Jobs /\ task[t].agent \in Agents
           /\ task[t].at # "refetch" => task[t].for \in Reasons
           /\ task[t].at = "refetch" => task[t].for \in 0..MaxRetries
           /\ task[t].gen \in Nat
BY DEF Types, TaskOk, Calls, Refetches, Points, Idle

\* An entry has a generation, and so is not the missing one.
LEMMA EntryFields ==
    ASSUME Types, NEW j \in Jobs, active[j] # NoEntry
    PROVE  /\ active[j] \in Entries /\ active[j].gen \in Nat /\ active[j].gen > 0
           /\ active[j].agent \in Agents
BY DEF Types, PoolOk, Entries

\* A call that ends...
LEMMA IdleTyped ==
    ASSUME TaskOk, NEW t \in Tasks, Goto(t, Idle), revives' = revives \/ t = "poll"
    PROVE  TaskOk'
BY DEF TaskOk, Goto, Idle, Sound, OwnPoints

\* ... and one that goes on to a point.
LEMMA AtTyped ==
    ASSUME TaskOk, NEW t \in Tasks, NEW at \in Points, NEW j \in Jobs, NEW agent \in Agents,
           NEW for, NEW gen \in Nat, At(t, at, j, agent, for, gen),
           revives' = revives \/ t = "poll",
           at \in OwnPoints => gen > 0,
           IF at = "refetch" THEN for \in 0..MaxRetries ELSE for \in Reasons,
           at = "confirm" => t = "poll" /\ revives'[j] < MaxRevives
    PROVE  TaskOk'
<1> DEFINE c == [at |-> at, job |-> j, agent |-> agent, for |-> for, gen |-> gen]
<1>1. c \in Calls
  BY DEF Calls, Refetches
<1>2. Sound(t, c, revives')
  BY DEF Sound
<1>3. task' = [task EXCEPT ![t] = c]
  BY DEF At, Goto
<1> HIDE DEF c
<1> QED BY <1>1, <1>2, <1>3 DEF TaskOk, Sound

\* A set grows by one element at most.
LEMMA OneMore ==
    ASSUME NEW S, NEW x, IsFiniteSet(S)
    PROVE  /\ IsFiniteSet(S \cup {x}) /\ Cardinality(S \cup {x}) \in Nat
           /\ Cardinality(S \cup {x}) <= Cardinality(S) + 1
<1>1. Cardinality(S) \in Nat
  BY FS_CardinalityType
<1>2. /\ IsFiniteSet(S \cup {x})
      /\ Cardinality(S \cup {x}) = IF x \in S THEN Cardinality(S) ELSE Cardinality(S) + 1
  BY FS_AddElement
<1> QED BY <1>1, <1>2

\* Some generation is not referred to, so that a new container has a new one.
LEMMA FreshIsNew ==
    ASSUME NEW j \in Jobs
    PROVE  Fresh(j) \in Nat /\ Fresh(j) > 0 /\ Fresh(j) \notin Referred(j)
<1> DEFINE U == {u \in Tasks : task[u] # Idle /\ task[u].job = j}
           G == {task[t].gen : t \in U}
           f == [u \in U |-> task[u].gen]
           N == Cardinality(Tasks) + 3
<1>1. IsFiniteSet(Tasks) /\ Cardinality(Tasks) \in Nat
  <2>1. IsFiniteSet({"poll", "cleanup", "timer"})
    <3>1. IsFiniteSet({"poll"})
      BY FS_Singleton
    <3>2. IsFiniteSet({"poll"} \cup {"cleanup"})
      BY <3>1, FS_AddElement
    <3>3. IsFiniteSet(({"poll"} \cup {"cleanup"}) \cup {"timer"})
      BY <3>2, FS_AddElement
    <3> QED BY <3>3, {"poll", "cleanup", "timer"} = ({"poll"} \cup {"cleanup"}) \cup {"timer"}
  <2>2. IsFiniteSet(Tasks)
    BY <2>1, FS_Union, DispatchAssumption DEF Tasks
  <2> QED BY <2>2, FS_CardinalityType
<1>2. IsFiniteSet(U) /\ Cardinality(U) <= Cardinality(Tasks) /\ Cardinality(U) \in Nat
  BY <1>1, FS_Subset, FS_CardinalityType, U \in SUBSET Tasks
<1>3. f \in Surjection(U, G)
  BY DEF Surjection
<1>4. IsFiniteSet(G) /\ Cardinality(G) <= Cardinality(U) /\ Cardinality(G) \in Nat
  BY <1>2, <1>3, FS_Surjection, FS_CardinalityType
<1>5. Referred(j) = (G \cup {container[j].gen}) \cup {active[j].gen}
  BY DEF Referred
<1> DEFINE H == G \cup {container[j].gen}
<1> HIDE DEF G, U, f
<1>6. IsFiniteSet(H) /\ Cardinality(H) \in Nat /\ Cardinality(H) <= Cardinality(G) + 1
  BY <1>4, OneMore
<1> HIDE DEF H
<1>7. /\ IsFiniteSet(Referred(j)) /\ Cardinality(Referred(j)) \in Nat
      /\ Cardinality(Referred(j)) <= Cardinality(G) + 2
  <2>1. /\ IsFiniteSet(H \cup {active[j].gen}) /\ Cardinality(H \cup {active[j].gen}) \in Nat
        /\ Cardinality(H \cup {active[j].gen}) <= Cardinality(H) + 1
    BY <1>6, OneMore
  <2>2. Referred(j) = H \cup {active[j].gen}
    BY <1>5 DEF H
  <2> QED BY <1>4, <1>6, <2>1, <2>2
<1>8. Cardinality(1..N) = N /\ N \in Nat
  BY <1>1, FS_Interval
<1>9. ~ (1..N \subseteq Referred(j))
  BY <1>1, <1>2, <1>4, <1>7, <1>8, FS_Subset
<1>10. \E g \in 1..N : g \notin Referred(j)
  BY <1>9
<1> QED BY <1>1, <1>10 DEF Fresh
-----------------------------------------------------------------------------
(* Every step keeps the state typed *)

\* A part of the state that a step leaves alone stays typed.
LEMMA KeptTyped ==
    ASSUME Types
    PROVE  /\ UNCHANGED status => PlatformOk'
           /\ UNCHANGED container => ContainerOk'
           /\ UNCHANGED pool => PoolOk'
           /\ UNCHANGED memory => MemoryOk'
           /\ UNCHANGED disk => DiskOk'
           /\ UNCHANGED <<task, revives>> => TaskOk'
           /\ UNCHANGED recovery => RecoveryOk'
BY DEF Types, PlatformOk, ContainerOk, PoolOk, MemoryOk, DiskOk, TaskOk, RecoveryOk,
       pool, memory, disk, recovery

\* A container is removed.
LEMMA KillTyped ==
    ASSUME Types, NEW j \in Jobs, NEW gen, Kill(j, gen)
    PROVE  ContainerOk'
BY DEF Types, ContainerOk, Containers, Kill, None

\* A job that was not placed.
LEMMA NotPlacedTyped ==
    ASSUME Types, NEW t \in Tasks, task[t].at # "idle", NotPlaced(t), revives' = revives
    PROVE  /\ TaskOk' /\ seen' \subseteq Jobs /\ seenFile' \subseteq Jobs
           /\ rqueue' \in [Jobs -> Waiting] /\ rqFile' \in [Jobs -> Waiting]
<1>1. task[t].job \in Jobs
  BY CallFields
<1>2. TaskOk'
  BY IdleTyped DEF Types, NotPlaced
<1> QED BY <1>1, <1>2 DEF Types, NotPlaced, MemoryOk, DiskOk, Waiting

\* What the caller of a stop does next...
LEMMA ThenTyped ==
    ASSUME Types, NEW t \in Tasks, NEW j \in Jobs, NEW agent \in Agents, NEW for \in Reasons,
           Then(t, j, agent, for), revives' = revives
    PROVE  /\ TaskOk' /\ queued' \in [Jobs -> Nat]
           /\ seen' \subseteq Jobs /\ seenFile' \subseteq Jobs
<1>1. TaskOk'
  <2>1. CASE for = "retry"
    <3>1. At(t, "prepare", j, agent, "retry", 0)
      BY <2>1 DEF Then, Starting
    <3> QED BY <3>1, AtTyped, "retry" \in Reasons, "prepare" \in Points DEF Types, OwnPoints, Reasons, Points
  <2>2. CASE for # "retry"
    BY <2>2, IdleTyped DEF Types, Then
  <2> QED BY <2>1, <2>2
<1> QED BY <1>1 DEF Types, Then, MemoryOk, DiskOk

\* ... and the call of the stop.
LEMMA StopCallTyped ==
    ASSUME Types, NEW t \in Tasks, NEW j \in Jobs, NEW agent \in Agents, NEW for \in Reasons,
           StopCall(t, j, agent, for), revives' = revives
    PROVE  /\ TaskOk' /\ queued' \in [Jobs -> Nat]
           /\ seen' \subseteq Jobs /\ seenFile' \subseteq Jobs
           /\ active' \in [Jobs -> {NoEntry} \cup Entries]
<1>1. CASE active[j] # NoEntry /\ ~active[j].stopping
  <2>1. At(t, "stop", j, agent, for, active[j].gen) /\ UNCHANGED <<queued, seen, seenFile>>
    BY <1>1 DEF StopCall
  <2>2. TaskOk'
    BY <1>1, <2>1, AtTyped, EntryFields DEF Types, Points
  <2>3. [active[j] EXCEPT !.stopping = TRUE] \in Entries
    BY <1>1, EntryFields DEF Entries
  <2>4. active' = [active EXCEPT ![j] = [active[j] EXCEPT !.stopping = TRUE]]
    BY <1>1 DEF StopCall, Types, PoolOk
  <2> QED BY <2>1, <2>2, <2>3, <2>4 DEF Types, PoolOk, MemoryOk, DiskOk
<1>2. CASE ~(active[j] # NoEntry /\ ~active[j].stopping)
  BY <1>2, ThenTyped DEF StopCall, Types, PoolOk
<1> QED BY <1>1, <1>2

\* A job goes to the reactivation queue.
LEMMA MoveJobTyped ==
    ASSUME Types, NEW t \in Tasks, NEW j \in Jobs, MoveJob(t, j)
    PROVE  Types'
<1>1. revives' = revives /\ UNCHANGED <<status, container, recovery>>
  BY DEF MoveJob, platform
<1>2. TaskOk'
  <2>1. CASE active[j] = NoEntry
    BY <1>1, <2>1, IdleTyped DEF MoveJob, Types
  <2>2. CASE active[j] # NoEntry
    <3>1. At(t, "halt", j, active[j].agent, "none", active[j].gen)
      BY <2>2 DEF MoveJob
    <3> QED BY <1>1, <2>2, <3>1, AtTyped, EntryFields DEF Types, Points, Reasons, OwnPoints
  <2> QED BY <2>1, <2>2
<1>3. PoolOk'
  BY DEF MoveJob, Types, PoolOk
<1>4. rqueue' \in [Jobs -> Waiting] /\ rqFile' \in [Jobs -> Waiting]
  BY DEF MoveJob, Types, MemoryOk, DiskOk, Waiting
<1>5. MemoryOk' /\ DiskOk'
  BY <1>4 DEF MoveJob, Types, MemoryOk, DiskOk, persistActiveJobs, Listed
<1> QED BY <1>1, <1>2, <1>3, <1>5, KeptTyped DEF Types

\* A paused job may be resumed.
LEMMA MarkReadyTyped ==
    ASSUME Types, NEW t \in Tasks, NEW j \in Jobs, MarkReady(t, j)
    PROVE  Types'
<1>1. revives' = revives /\ UNCHANGED <<status, container, pool, recovery>>
  BY DEF MarkReady, platform
<1>2. TaskOk'
  <2>1. CASE rqueue[j] = "no"
    BY <1>1, <2>1, IdleTyped DEF MarkReady, Types
  <2>2. CASE rqueue[j] # "no"
    <3>1. At(t, "respawn", j, SellerOf[j], "none", 0) /\ SellerOf[j] \in Agents
      BY <2>2, DispatchAssumption DEF MarkReady
    <3> QED BY <1>1, <3>1, AtTyped DEF Types, Points, Reasons, OwnPoints
  <2> QED BY <2>1, <2>2
<1>3. MemoryOk' /\ DiskOk'
  BY DEF MarkReady, Flag, Types, MemoryOk, DiskOk, Waiting
<1> QED BY <1>1, <1>2, <1>3, KeptTyped DEF Types

\* The poll starts a job, queues it or leaves it.
LEMMA TakeUpTyped ==
    ASSUME Types, NEW j \in Jobs, TakeUp(j)
    PROVE  TaskOk' /\ queued' \in [Jobs -> Nat]
<1>1. "poll" \in Tasks /\ SellerOf[j] \in Agents
  BY DispatchAssumption DEF Tasks
<1>2. CASE Goto("poll", Idle)
  BY <1>1, <1>2, IdleTyped DEF TakeUp, Types, MemoryOk
<1>3. CASE At("poll", "prepare", j, SellerOf[j], "new", 0)
  <2>1. TaskOk'
    BY <1>1, <1>3, AtTyped DEF Types, Points, Reasons, OwnPoints
  <2> QED BY <2>1 DEF TakeUp, Types, MemoryOk
<1> QED BY <1>2, <1>3 DEF TakeUp, Starting
LEMMA TypeNext == Types /\ [Next]_vars => Types'
<1> SUFFICES ASSUME Types, [Next]_vars PROVE Types'
  OBVIOUS
<1> USE DEF platform, memory, disk, pool, recovery
<1>a. "poll" \in Tasks /\ "cleanup" \in Tasks /\ "timer" \in Tasks /\ Hooks \subseteq Tasks
  BY DEF Tasks
<1>b. \A j \in Jobs : SellerOf[j] \in Agents
  BY DispatchAssumption
<1>c. PlatformOk /\ ContainerOk /\ PoolOk /\ MemoryOk /\ DiskOk /\ TaskOk /\ RecoveryOk
  BY DEF Types
\* A call begins or goes on, and nothing else happens.
<1>d. ASSUME NEW t \in Tasks, NEW at \in Points \ (OwnPoints \cup {"refetch", "confirm"}),
             NEW j \in Jobs, NEW agent \in Agents, NEW for \in Reasons,
             At(t, at, j, agent, for, 0), revives' = revives \/ t = "poll"
      PROVE  TaskOk'
  BY <1>c, <1>d, AtTyped
<1>e. ASSUME NEW t \in Tasks, task[t].at \notin {"idle", "refetch"},
             NEW at \in Points \ (OwnPoints \cup {"refetch", "confirm"}), Move(t, at, 0), revives' = revives
      PROVE  TaskOk'
  BY <1>d, <1>e, CallFields DEF Move
<1>f. ASSUME NEW t \in Tasks, task[t].at \notin {"idle", "refetch"}, NEW at \in OwnPoints,
             NEW gen \in Nat, gen > 0, Move(t, at, gen), revives' = revives
      PROVE  TaskOk'
  BY <1>c, <1>f, AtTyped, CallFields DEF Move, OwnPoints, Points
<1>1. ASSUME NEW t \in Tasks, RemoveStale(t) PROVE Types'
  BY <1>1, <1>e, KillTyped, CallFields, KeptTyped DEF RemoveStale, Types, Points, OwnPoints
<1>2. ASSUME NEW t \in Tasks, CreateContainer(t) PROVE Types'
  <2>1. task[t].job \in Jobs
    BY <1>2, CallFields DEF CreateContainer
  <2>2. CASE container[task[t].job] = None
    <3>1. TaskOk'
      BY <1>2, <2>1, <2>2, <1>f, FreshIsNew DEF CreateContainer, OwnPoints
    <3>2. Fresh(task[t].job) \in Nat
      BY <2>1, FreshIsNew
    <3>3. container' = [container EXCEPT ![task[t].job] = [gen |-> Fresh(task[t].job), up |-> FALSE]]
      BY <1>2, <2>2 DEF CreateContainer
    <3>4. ContainerOk'
      BY <2>1, <3>2, <3>3, <1>c DEF ContainerOk, Containers
    <3> QED BY <1>2, <3>1, <3>4, KeptTyped DEF CreateContainer, Types
  <2>3. CASE container[task[t].job] # None
    <3>1. TaskOk'
      BY <1>2, <2>3, <1>e DEF CreateContainer, OwnPoints, Points
    <3> QED BY <1>2, <2>3, <3>1, KeptTyped DEF CreateContainer, Types
  <2> QED BY <2>2, <2>3
<1>3. ASSUME NEW t \in Tasks, LaunchContainer(t) PROVE Types'
  <2>1. task[t].job \in Jobs /\ task[t].gen \in Nat /\ task[t].gen > 0
    BY <1>3, <1>c, CallFields DEF LaunchContainer, TaskOk, Sound, OwnPoints
  <2>2. CASE container[task[t].job].gen = task[t].gen
    <3>1. TaskOk'
      BY <1>3, <2>1, <2>2, <1>f DEF LaunchContainer, OwnPoints
    <3>2. ContainerOk'
      BY <1>3, <2>1, <2>2, <1>c DEF LaunchContainer, ContainerOk, Containers
    <3> QED BY <1>3, <3>1, <3>2, KeptTyped DEF LaunchContainer, Types
  <2>3. CASE container[task[t].job].gen # task[t].gen
    <3>1. TaskOk'
      BY <1>3, <2>3, <1>e DEF LaunchContainer, OwnPoints, Points
    <3> QED BY <1>3, <2>3, <3>1, KeptTyped DEF LaunchContainer, Types
  <2> QED BY <2>2, <2>3
<1>4. ASSUME NEW t \in Tasks, StartFails(t) PROVE Types'
  <2>1. TaskOk'
    BY <1>4, <1>e DEF StartFails, OwnPoints, Points
  <2> QED BY <1>4, <2>1, KeptTyped DEF StartFails, Types
<1>5. ASSUME NEW t \in Tasks, Place(t) PROVE Types'
  <2>1. /\ task[t].job \in Jobs /\ task[t].gen \in Nat /\ task[t].gen > 0
        /\ task[t].agent \in Agents
    BY <1>5, <1>c, CallFields DEF Place, TaskOk, Sound, OwnPoints
  <2>2. TaskOk'
    <3>1. CASE task[t].for \in {"new", "respawn"}
      BY <1>5, <3>1, <1>e DEF Place, OwnPoints, Points
    <3>2. CASE task[t].for \notin {"new", "respawn"}
      BY <1>5, <3>2, <1>c, IdleTyped DEF Place
    <3> QED BY <3>1, <3>2
  <2>3. PoolOk'
    <3>1. [gen |-> task[t].gen, agent |-> task[t].agent, pausing |-> FALSE, stopping |-> FALSE] \in Entries
      BY <2>1 DEF Entries
    <3> QED BY <1>5, <2>1, <3>1, <1>c DEF Place, PoolOk
  <2>4. MemoryOk' /\ DiskOk'
    BY <1>5, <2>1, <1>c DEF Place, MemoryOk, DiskOk, persistActiveJobs, Listed
  <2> QED BY <1>5, <2>2, <2>3, <2>4, KeptTyped DEF Place, Types
<1>6. ASSUME NEW t \in Tasks, Return(t) PROVE Types'
  <2>1. CASE active[task[t].job] = NoEntry
    <3>1. NotPlaced(t) /\ task[t].at # "idle" /\ revives' = revives
      BY <1>6, <2>1 DEF Return
    <3>2. MemoryOk' /\ DiskOk' /\ TaskOk'
      BY <1>6, <3>1, <1>c, NotPlacedTyped DEF Return, MemoryOk, DiskOk
    <3> QED BY <1>6, <3>2, KeptTyped DEF Return, Types
  <2>2. CASE active[task[t].job] # NoEntry
    <3>1. CASE task[t].for = "respawn"
      <4>1. TaskOk'
        BY <1>6, <2>2, <3>1, <1>e DEF Return, OwnPoints, Points
      <4> QED BY <1>6, <2>2, <4>1, <1>c, KeptTyped DEF Return, Types, MemoryOk, DiskOk
    <3>2. CASE task[t].for # "respawn"
      <4>1. TaskOk'
        BY <1>6, <2>2, <3>2, <1>c, IdleTyped DEF Return
      <4> QED BY <1>6, <2>2, <4>1, <1>c, KeptTyped DEF Return, Types, MemoryOk, DiskOk
    <3> QED BY <3>1, <3>2
  <2> QED BY <2>1, <2>2
<1>7. ASSUME NEW t \in Tasks, GiveUp(t) PROVE Types'
  <2>1. task[t].at # "idle" /\ task[t].agent \in Agents /\ revives' = revives
    BY <1>7, CallFields DEF GiveUp
  <2>2. PoolOk'
    BY <1>7, <2>1, <1>c DEF GiveUp, PoolOk
  <2>3. CASE active[task[t].job] = NoEntry
    <3>1. MemoryOk' /\ DiskOk' /\ TaskOk'
      BY <1>7, <2>1, <2>3, <1>c, NotPlacedTyped DEF GiveUp, MemoryOk, DiskOk
    <3> QED BY <1>7, <2>2, <3>1, KeptTyped DEF GiveUp, Types
  <2>4. CASE active[task[t].job] # NoEntry
    <3>1. TaskOk'
      BY <1>7, <2>1, <2>4, <1>c, IdleTyped DEF GiveUp
    <3> QED BY <1>7, <2>2, <2>4, <3>1, KeptTyped DEF GiveUp, Types
  <2> QED BY <2>3, <2>4
<1>8. ASSUME NEW t \in Tasks, StartThrows(t) PROVE Types'
  <2>1. /\ task[t].at # "idle" /\ task[t].agent \in Agents /\ task[t].job \in Jobs
        /\ revives' = revives /\ NotPlaced(t)
    BY <1>8, CallFields DEF StartThrows
  <2>2. PoolOk' /\ queued' \in [Jobs -> Nat]
    BY <1>8, <2>1, <1>c DEF StartThrows, PoolOk, MemoryOk
  <2>3. MemoryOk' /\ DiskOk' /\ TaskOk'
    BY <1>8, <2>1, <2>2, <1>c, NotPlacedTyped DEF StartThrows, MemoryOk, DiskOk
  <2> QED BY <1>8, <2>2, <2>3, KeptTyped DEF StartThrows, Types
<1>9. ASSUME NEW t \in Tasks, StopContainer(t) PROVE Types'
  <2>1. /\ task[t].at = "stop" /\ task[t].job \in Jobs /\ task[t].agent \in Agents
        /\ task[t].for \in Reasons /\ task[t].gen \in Nat /\ task[t].gen > 0
    BY <1>9, <1>c, CallFields DEF StopContainer, TaskOk, Sound, OwnPoints
  <2>2. ContainerOk' /\ revives' = revives
    BY <1>9, <2>1, KillTyped DEF StopContainer
  <2>3. TaskOk' /\ queued' \in [Jobs -> Nat] /\ seen' \subseteq Jobs /\ seenFile' \subseteq Jobs
    <3>1. CASE Owns(t)
      BY <1>9, <2>1, <2>2, <3>1, <1>c, <1>f DEF StopContainer, OwnPoints, MemoryOk, DiskOk
    <3>2. CASE ~Owns(t)
      BY <1>9, <2>1, <2>2, <3>2, ThenTyped DEF StopContainer
    <3> QED BY <3>1, <3>2
  <2>4. MemoryOk' /\ DiskOk'
    BY <1>9, <2>3, <1>c DEF StopContainer, MemoryOk, DiskOk
  <2> QED BY <1>9, <2>2, <2>3, <2>4, KeptTyped DEF StopContainer, Types
<1>10. ASSUME NEW t \in Tasks, FinishStop(t) PROVE Types'
  <2>1. /\ task[t].at = "flush" /\ task[t].job \in Jobs /\ task[t].agent \in Agents
        /\ task[t].for \in Reasons /\ task[t].gen \in Nat /\ task[t].gen > 0
    BY <1>10, <1>c, CallFields DEF FinishStop, TaskOk, Sound, OwnPoints
  <2>2. TaskOk' /\ queued' \in [Jobs -> Nat] /\ seen' \subseteq Jobs /\ seenFile' \subseteq Jobs
    BY <1>10, <2>1, ThenTyped DEF FinishStop
  <2>3. Owns(t) => active[task[t].job] # NoEntry /\ active[task[t].job].agent \in Agents
    BY <2>1, EntryFields DEF Owns, NoEntry
  <2>4. PoolOk'
    BY <1>10, <2>1, <2>3, <1>c DEF FinishStop, PoolOk
  <2>5. rowFile' \subseteq Jobs /\ retries' \in [Jobs -> 0..MaxRetries]
    BY <1>10, <2>1, <1>c, DispatchAssumption DEF FinishStop, persistActiveJobs, Listed, MemoryOk, DiskOk
  <2>6. MemoryOk' /\ DiskOk'
    BY <1>10, <2>2, <2>5, <1>c DEF FinishStop, MemoryOk, DiskOk
  <2> QED BY <1>10, <2>2, <2>4, <2>6, KeptTyped DEF FinishStop, Types
<1>11. ASSUME NEW j \in Jobs, TimerFires(j) PROVE Types'
  <2>1. /\ active[j].agent \in Agents /\ "none" \in Reasons /\ revives' = revives
        /\ StopCall("timer", j, active[j].agent, "none")
    BY <1>11, EntryFields DEF TimerFires, Reasons
  <2>2. /\ TaskOk' /\ queued' \in [Jobs -> Nat] /\ seen' \subseteq Jobs /\ seenFile' \subseteq Jobs
        /\ active' \in [Jobs -> {NoEntry} \cup Entries]
    BY <2>1, <1>a, StopCallTyped
  <2> QED BY <1>11, <2>2, <1>c, KeptTyped DEF TimerFires, Types, PoolOk, MemoryOk, DiskOk
<1>12. ASSUME NEW t \in Tasks, Halt(t) PROVE Types'
  <2>1. TaskOk' /\ ContainerOk'
    BY <1>12, <1>c, IdleTyped, KillTyped, CallFields DEF Halt
  <2> QED BY <1>12, <2>1, KeptTyped DEF Halt, Types
<1>13. ASSUME NEW t \in Tasks, NEW j \in Jobs, Respawn(t, j) PROVE Types'
  <2>1. TaskOk'
    BY <1>13, <1>b, <1>d DEF Respawn, Starting, Points, OwnPoints, Reasons
  <2>2. MemoryOk'
    BY <1>13, <1>c DEF Respawn, MemoryOk, Waiting
  <2> QED BY <1>13, <2>1, <2>2, KeptTyped DEF Respawn, Types
<1>14. ASSUME NEW t \in Tasks, RespawnEnds(t) PROVE Types'
  <2>1. TaskOk'
    BY <1>14, <1>c, IdleTyped DEF RespawnEnds
  <2>2. DiskOk'
    BY <1>14, <1>c DEF RespawnEnds, DiskOk, MemoryOk
  <2> QED BY <1>14, <2>1, <2>2, KeptTyped DEF RespawnEnds, Types
<1>15. ASSUME NEW j \in Jobs, PollFetch(j) PROVE Types'
  <2>1. TaskOk'
    BY <1>15, <1>a, <1>b, <1>d DEF PollFetch, Points, OwnPoints, Reasons
  <2> QED BY <1>15, <2>1, KeptTyped DEF PollFetch, Types
<1>16. CASE PollUnseen
  <2>1. task["poll"].job \in Jobs
    BY <1>16, <1>a, CallFields DEF PollUnseen
  <2>2. TaskOk' /\ queued' \in [Jobs -> Nat]
    BY <1>16, <2>1, TakeUpTyped DEF PollUnseen
  <2>3. MemoryOk'
    BY <1>16, <2>1, <2>2, <1>c DEF PollUnseen, MemoryOk, Marks
  <2> QED BY <1>16, <2>2, <2>3, KeptTyped DEF PollUnseen, Types
<1>17. CASE PollSeen
  <2>1. /\ task["poll"].at = "listed" /\ task["poll"].job \in Jobs
        /\ task["poll"].agent \in Agents /\ task["poll"].for \in Reasons
    BY <1>17, <1>a, CallFields DEF PollSeen
  <2>2. CASE Goto("poll", Idle)
    <3>1. TaskOk'
      BY <1>17, <2>2, <1>a, <1>c, IdleTyped DEF PollSeen
    <3> QED BY <1>17, <3>1, KeptTyped DEF PollSeen, Types
  <2>3. CASE revives[task["poll"].job] < MaxRevives /\ Move("poll", "confirm", 0)
    <3>1. At("poll", "confirm", task["poll"].job, task["poll"].agent, task["poll"].for, 0)
          /\ revives' = revives
      BY <1>17, <2>3 DEF PollSeen, Move
    <3>2. TaskOk'
      BY <2>1, <2>3, <3>1, <1>a, <1>c, AtTyped DEF Points, OwnPoints
    <3> QED BY <1>17, <3>2, KeptTyped DEF PollSeen, Types
  <2> QED BY <1>17, <2>2, <2>3 DEF PollSeen
<1>18. CASE PollConfirm
  <2>1. /\ task["poll"].job \in Jobs /\ revives[task["poll"].job] < MaxRevives
    BY <1>18, <1>a, <1>c, CallFields DEF PollConfirm, TaskOk, Sound
  <2>2. TaskOk' /\ queued' \in [Jobs -> Nat]
    BY <1>18, <2>1, <1>a, <1>c, TakeUpTyped, IdleTyped DEF PollConfirm, MemoryOk
  <2>3. revives' \in [Jobs -> 0..MaxRevives]
    BY <1>18, <2>1, <1>c, DispatchAssumption DEF PollConfirm, MemoryOk
  <2>4. MemoryOk' /\ DiskOk'
    BY <1>18, <2>1, <2>2, <2>3, <1>c DEF PollConfirm, MemoryOk, DiskOk, Marks
  <2> QED BY <1>18, <2>2, <2>4, KeptTyped DEF PollConfirm, Types
<1>19. ASSUME NEW j \in Jobs, PollReads(j) PROVE Types'
  <2>1. TaskOk'
    BY <1>19, <1>a, <1>b, <1>d DEF PollReads, Points, OwnPoints, Reasons
  <2> QED BY <1>19, <2>1, KeptTyped DEF PollReads, Types
<1>20. CASE PollPauses
  <2>1. task["poll"].job \in Jobs
    BY <1>20, <1>a, CallFields DEF PollPauses
  <2>2. CASE MoveJob("poll", task["poll"].job)
    BY <2>1, <2>2, <1>a, MoveJobTyped
  <2>3. CASE Goto("poll", Idle) /\ UNCHANGED <<platform, container, pool, memory, disk, recovery>>
    <3>1. TaskOk'
      BY <2>3, <1>a, <1>c, IdleTyped
    <3> QED BY <2>3, <3>1, KeptTyped DEF Types
  <2> QED BY <1>20, <2>2, <2>3 DEF PollPauses
<1>21. CASE PollResumes
  BY <1>21, <1>a, CallFields, MarkReadyTyped DEF PollResumes
<1>22. ASSUME NEW j \in Jobs, SweepExpired(j) PROVE Types'
  <2>1. MemoryOk' /\ DiskOk'
    BY <1>22, <1>c DEF SweepExpired, MemoryOk, DiskOk, Waiting
  <2> QED BY <1>22, <2>1, KeptTyped DEF SweepExpired, Types
<1>23. CASE PollRespawns
  <2>1. TaskOk'
    BY <1>23, <1>a, <1>b, <1>d DEF PollRespawns, Points, OwnPoints, Reasons
  <2> QED BY <1>23, <2>1, KeptTyped DEF PollRespawns, Types
<1>24. ASSUME NEW j \in Jobs, Drain(j) PROVE Types'
  <2>1. PICK a \in available : available' = available \ {a} /\ Starting("poll", j, a, "drain")
    BY <1>24 DEF Drain
  <2>2. TaskOk'
    BY <1>24, <2>1, <1>a, <1>c, <1>d DEF Starting, PoolOk, Points, OwnPoints, Reasons
  <2>3. PoolOk' /\ MemoryOk'
    BY <1>24, <2>1, <1>c DEF Drain, PoolOk, MemoryOk
  <2> QED BY <1>24, <2>2, <2>3, KeptTyped DEF Drain, Types
<1>25. ASSUME NEW j \in Jobs, CleanupInspects(j) PROVE Types'
  <2>1. TaskOk'
    BY <1>25, <1>a, <1>d, EntryFields DEF CleanupInspects, Points, OwnPoints, Reasons
  <2> QED BY <1>25, <2>1, KeptTyped DEF CleanupInspects, Types
<1>26. CASE CleanupLeaves
  <2>1. TaskOk'
    BY <1>26, <1>a, <1>c, IdleTyped DEF CleanupLeaves
  <2> QED BY <1>26, <2>1, KeptTyped DEF CleanupLeaves, Types
<1>27. CASE CleanupDecides
  <2> DEFINE j == task["cleanup"].job
             a == task["cleanup"].agent
  <2>1. j \in Jobs /\ a \in Agents
    BY <1>27, <1>a, CallFields DEF CleanupDecides
  <2>2. CASE /\ MayRetry(j) /\ retries' = [retries EXCEPT ![j] = @ + 1]
             /\ At("cleanup", "refetch", j, a, retries[j], 0)
             /\ UNCHANGED <<active, owed, queued, seen, seenFile>>
    <3>1. retries[j] \in 0..MaxRetries
      BY <2>1, <1>c DEF MemoryOk
    <3>2. TaskOk'
      BY <1>27, <2>1, <2>2, <3>1, <1>a, <1>c, AtTyped DEF CleanupDecides, Points, OwnPoints
    <3>3. retries' \in [Jobs -> 0..MaxRetries]
      BY <2>1, <2>2, <1>c, DispatchAssumption DEF MayRetry, MemoryOk
    <3> QED BY <1>27, <2>2, <3>2, <3>3, <1>c, KeptTyped DEF CleanupDecides, Types, PoolOk, MemoryOk, DiskOk
  <2>3. CASE StopCall("cleanup", j, a, "none") /\ owed' \in {owed, owed \cup {j}} /\ UNCHANGED retries
    <3>1. revives' = revives /\ "none" \in Reasons
      BY <1>27 DEF CleanupDecides, Reasons
    <3>2. /\ TaskOk' /\ queued' \in [Jobs -> Nat] /\ seen' \subseteq Jobs /\ seenFile' \subseteq Jobs
          /\ active' \in [Jobs -> {NoEntry} \cup Entries]
      BY <2>1, <2>3, <3>1, <1>a, StopCallTyped
    <3> QED BY <1>27, <2>1, <2>3, <3>2, <1>c, KeptTyped DEF CleanupDecides, Types, PoolOk, MemoryOk, DiskOk
  <2> HIDE DEF j, a
  <2> QED BY <1>27, <2>2, <2>3 DEF CleanupDecides, j, a
<1>28. CASE CleanupRetries
  <2> DEFINE j == task["cleanup"].job
             for == IF status[j] \in Over THEN "none" ELSE "retry"
  <2>1. /\ j \in Jobs /\ task["cleanup"].agent \in Agents /\ for \in Reasons /\ revives' = revives
        /\ StopCall("cleanup", j, task["cleanup"].agent, for)
    BY <1>28, <1>a, CallFields DEF CleanupRetries, Reasons
  <2> HIDE DEF j, for
  <2>2. /\ TaskOk' /\ queued' \in [Jobs -> Nat] /\ seen' \subseteq Jobs /\ seenFile' \subseteq Jobs
        /\ active' \in [Jobs -> {NoEntry} \cup Entries]
    BY <2>1, <1>a, StopCallTyped
  <2> QED BY <1>28, <2>2, <1>c, KeptTyped DEF CleanupRetries, Types, PoolOk, MemoryOk, DiskOk
<1>29. CASE RefetchFails
  <2>1. task["cleanup"].job \in Jobs /\ task["cleanup"].for \in 0..MaxRetries
    BY <1>29, <1>a, CallFields DEF RefetchFails
  <2>2. TaskOk' /\ MemoryOk'
    BY <1>29, <2>1, <1>a, <1>c, IdleTyped DEF RefetchFails, MemoryOk
  <2> QED BY <1>29, <2>2, KeptTyped DEF RefetchFails, Types
<1>30. ASSUME NEW h \in Hooks, NEW j \in Jobs, HookStarted(h, j) PROVE Types'
  <2>1. TaskOk'
    BY <1>30, <1>a, <1>b, <1>d DEF HookStarted, Points, OwnPoints, Reasons
  <2> QED BY <1>30, <2>1, KeptTyped DEF HookStarted, Types
<1>31. ASSUME NEW h \in Hooks, HookStarts(h) PROVE Types'
  <2>1. task[h].job \in Jobs /\ h \in Tasks
    BY <1>31, <1>a, CallFields DEF HookStarts
  <2>2. CASE Goto(h, Idle)
    <3>1. TaskOk' /\ MemoryOk'
      BY <1>31, <2>1, <2>2, <1>c, IdleTyped DEF HookStarts, MemoryOk
    <3> QED BY <1>31, <3>1, KeptTyped DEF HookStarts, Types
  <2>3. CASE Starting(h, task[h].job, SellerOf[task[h].job], "hook")
    <3>1. TaskOk'
      BY <1>31, <2>1, <2>3, <1>b, <1>d DEF HookStarts, Starting, Points, OwnPoints, Reasons
    <3>2. MemoryOk'
      BY <1>31, <2>1, <1>c DEF HookStarts, MemoryOk
    <3> QED BY <1>31, <3>1, <3>2, KeptTyped DEF HookStarts, Types
  <2> QED BY <1>31, <2>2, <2>3 DEF HookStarts
<1>32. ASSUME NEW h \in Hooks, NEW j \in Jobs, HookPaused(h, j) PROVE Types'
  <2>1. CASE MoveJob(h, j)
    BY <2>1, <1>a, MoveJobTyped
  <2>2. CASE /\ active' = [active EXCEPT ![j].pausing = TRUE]
             /\ At(h, "extended", j, SellerOf[j], "none", 0)
             /\ UNCHANGED <<available, memory, disk, platform, container, recovery>>
    <3>1. TaskOk'
      BY <2>2, <1>a, <1>b, <1>d DEF Points, OwnPoints, Reasons
    <3>2. [active[j] EXCEPT !.pausing = TRUE] \in Entries
      BY <1>32, EntryFields DEF HookPaused, Entries
    <3>3. active' = [active EXCEPT ![j] = [active[j] EXCEPT !.pausing = TRUE]]
      BY <2>2, <1>c DEF PoolOk
    <3>4. PoolOk'
      BY <2>2, <3>2, <3>3, <1>c DEF PoolOk
    <3> QED BY <2>2, <3>1, <3>4, KeptTyped DEF Types
  <2> QED BY <1>32, <2>1, <2>2 DEF HookPaused
<1>33. ASSUME NEW h \in Hooks, HookPauses(h) PROVE Types'
  BY <1>33, <1>a, CallFields, MoveJobTyped DEF HookPauses
<1>34. ASSUME NEW h \in Hooks, NEW j \in Jobs, HookResumed(h, j) PROVE Types'
  BY <1>34, <1>a, MarkReadyTyped DEF HookResumed
<1>35. ASSUME NEW h \in Hooks, NEW j \in Jobs, HookCancelled(h, j) PROVE Types'
  <2>1. "cancel" \in Reasons /\ revives' = revives
    BY <1>35 DEF HookCancelled, Reasons
  <2>2. /\ TaskOk' /\ queued' \in [Jobs -> Nat] /\ seen' \subseteq Jobs /\ seenFile' \subseteq Jobs
        /\ active' \in [Jobs -> {NoEntry} \cup Entries]
    BY <1>35, <2>1, <1>a, <1>b, StopCallTyped DEF HookCancelled
  <2> QED BY <1>35, <2>2, <1>c, KeptTyped DEF HookCancelled, Types, PoolOk, MemoryOk, DiskOk
<1>36. CASE Crash
  <2>1. TaskOk'
    BY <1>36 DEF Crash, TaskOk, Idle, Sound, OwnPoints
  <2>2. PoolOk' /\ MemoryOk' /\ RecoveryOk'
    BY <1>36, <1>c, DispatchAssumption DEF Crash, PoolOk, MemoryOk, DiskOk, RecoveryOk
  <2> QED BY <1>36, <2>1, <2>2, KeptTyped DEF Crash, Types
<1>37. ASSUME NEW j \in Jobs, Recover(j) PROVE Types'
  <2>1. ContainerOk'
    BY <1>37, KillTyped, KeptTyped DEF Recover
  <2>2. RecoveryOk'
    BY <1>37, <1>c DEF Recover, RecoveryOk
  <2> QED BY <1>37, <2>1, <2>2, KeptTyped DEF Recover, Types
<1>38. CASE RecoveryEnds
  <2>1. DiskOk' /\ RecoveryOk'
    BY <1>38, <1>c DEF RecoveryEnds, DiskOk, RecoveryOk
  <2> QED BY <1>38, <2>1, KeptTyped DEF RecoveryEnds, Types
<1>39. ASSUME NEW j \in Jobs, Resume(j) \/ Cancel(j) \/ Deliver(j) \/ Pause(j) PROVE Types'
  <2>1. PlatformOk'
    BY <1>39, <1>c DEF Resume, Cancel, Deliver, Pause, Becomes, PlatformOk, Statuses, Over
  <2> QED BY <1>39, <2>1, KeptTyped DEF Resume, Cancel, Deliver, Pause, Becomes, Types
<1>40. ASSUME NEW j \in Jobs, WorkerEnds(j) PROVE Types'
  <2>1. ContainerOk'
    BY <1>40, <1>c DEF WorkerEnds, ContainerOk, Containers, None
  <2> QED BY <1>40, <2>1, KeptTyped DEF WorkerEnds, Types
<1>41. CASE UNCHANGED vars
  BY <1>41, KeptTyped DEF vars, Types
<1> QED
  BY <1>1, <1>2, <1>3, <1>4, <1>5, <1>6, <1>7, <1>8, <1>9, <1>10, <1>11, <1>12, <1>13, <1>14, <1>15,
     <1>16, <1>17, <1>18, <1>19, <1>20, <1>21, <1>22, <1>23, <1>24, <1>25, <1>26, <1>27, <1>28, <1>29,
     <1>30, <1>31, <1>32, <1>33, <1>34, <1>35, <1>36, <1>37, <1>38, <1>39, <1>40, <1>41
  DEF Next, Act, World, Continue, Start, PollGoesOn
\* The first state is typed.
LEMMA TypeInit == Init => Types /\ StoppedIsGone /\ PausedIsOnDisk /\ MarkIsServed
<1> SUFFICES ASSUME Init PROVE Types /\ StoppedIsGone /\ PausedIsOnDisk /\ MarkIsServed
  OBVIOUS
<1>1. PlatformOk /\ ContainerOk /\ PoolOk
  BY DEF Init, PlatformOk, ContainerOk, PoolOk, Statuses, Containers, None
<1>2. MemoryOk /\ DiskOk /\ RecoveryOk
  BY DispatchAssumption DEF Init, MemoryOk, DiskOk, RecoveryOk, Waiting
<1>3. TaskOk
  BY DEF Init, TaskOk, Idle, Sound, OwnPoints
<1>4. StoppedIsGone /\ PausedIsOnDisk /\ MarkIsServed
  BY DEF Init, StoppedIsGone, Idle, PausedIsOnDisk, MarkIsServed, Listed
<1> QED BY <1>1, <1>2, <1>3, <1>4 DEF Types

-----------------------------------------------------------------------------
(* What a step does to the entries *)

\* A call marks an entry as being stopped or paused, or moves a job to the
\* reactivation queue.
MarksEntry ==
    \E j \in Jobs : /\ active[j] # NoEntry /\ rowFile' = rowFile
                   /\ \/ active' = [active EXCEPT ![j].stopping = TRUE]
                      \/ active' = [active EXCEPT ![j].pausing = TRUE]

MovesJob == \E t \in Tasks, j \in Jobs : MoveJob(t, j)

\* A step leaves the entries and their rows alone, or it is one of a few.
LEMMA EntrySteps ==
    ASSUME Types, [Next]_vars
    PROVE  \/ UNCHANGED <<active, rowFile>> \/ MarksEntry \/ MovesJob \/ Crash \/ RecoveryEnds
           \/ \E t \in Tasks : Place(t) \/ FinishStop(t)
<1> USE DEF pool, disk
<1>a. "poll" \in Tasks /\ "cleanup" \in Tasks /\ Hooks \subseteq Tasks
  BY DEF Tasks
<1>1. ASSUME NEW t \in Tasks,
             \/ RemoveStale(t) \/ CreateContainer(t) \/ LaunchContainer(t) \/ StartFails(t)
             \/ Return(t) \/ GiveUp(t) \/ StartThrows(t) \/ StopContainer(t) \/ Halt(t)
             \/ RespawnEnds(t) \/ \E j \in Jobs : Respawn(t, j)
      PROVE  UNCHANGED <<active, rowFile>>
  BY <1>1 DEF RemoveStale, CreateContainer, LaunchContainer, StartFails, Return, GiveUp,
              StartThrows, StopContainer, Halt, RespawnEnds, Respawn
<1>2. ASSUME NEW j \in Jobs, NEW t, NEW agent, NEW for, StopCall(t, j, agent, for), rowFile' = rowFile
      PROVE  UNCHANGED <<active, rowFile>> \/ MarksEntry
  BY <1>2 DEF StopCall, MarksEntry
<1>3. ASSUME NEW j \in Jobs, Act(j) PROVE UNCHANGED <<active, rowFile>> \/ MarksEntry \/ MovesJob
  <2>1. ASSUME \/ PollFetch(j) \/ PollReads(j) \/ SweepExpired(j) \/ Drain(j) \/ CleanupInspects(j)
               \/ Recover(j) \/ \E h \in Hooks : HookStarted(h, j) \/ HookResumed(h, j)
        PROVE  UNCHANGED <<active, rowFile>>
    BY <2>1 DEF PollFetch, PollReads, SweepExpired, Drain, CleanupInspects, Recover,
                HookStarted, HookResumed, MarkReady
  <2>2. CASE TimerFires(j) \/ \E h \in Hooks : HookCancelled(h, j)
    BY <1>2, <2>2 DEF TimerFires, HookCancelled
  <2>3. ASSUME NEW h \in Hooks, HookPaused(h, j) PROVE MarksEntry \/ MovesJob
    BY <2>3, <1>a DEF HookPaused, MarksEntry, MovesJob
  <2> QED BY <1>3, <2>1, <2>2, <2>3 DEF Act
<1>4. ASSUME \/ PollGoesOn \/ PollRespawns \/ CleanupLeaves \/ CleanupDecides \/ CleanupRetries \/ RefetchFails
             \/ \E h \in Hooks : HookStarts(h) \/ HookPauses(h)
      PROVE  UNCHANGED <<active, rowFile>> \/ MarksEntry \/ MovesJob
  <2>1. ASSUME \/ PollUnseen \/ PollSeen \/ PollConfirm \/ PollResumes \/ PollRespawns \/ CleanupLeaves
               \/ RefetchFails \/ \E h \in Hooks : HookStarts(h)
        PROVE  UNCHANGED <<active, rowFile>>
    BY <2>1 DEF PollUnseen, PollSeen, PollConfirm, PollResumes, MarkReady, PollRespawns, CleanupLeaves,
                RefetchFails, HookStarts
  <2>2. CASE CleanupDecides
    <3>1. task["cleanup"].job \in Jobs /\ rowFile' = rowFile
      BY <1>a, <2>2, CallFields DEF CleanupDecides
    <3> QED BY <1>2, <2>2, <3>1 DEF CleanupDecides
  <2>3. CASE CleanupRetries
    <3>1. task["cleanup"].job \in Jobs /\ rowFile' = rowFile
      BY <1>a, <2>3, CallFields DEF CleanupRetries
    <3> QED BY <1>2, <2>3, <3>1 DEF CleanupRetries
  <2>4. CASE PollPauses
    BY <1>a, <2>4, CallFields DEF PollPauses, MovesJob
  <2>5. ASSUME NEW h \in Hooks, HookPauses(h) PROVE MovesJob
    BY <1>a, <2>5, CallFields DEF HookPauses, MovesJob
  <2> QED BY <1>4, <2>1, <2>2, <2>3, <2>4, <2>5 DEF PollGoesOn
<1>5. ASSUME NEW j \in Jobs, World(j) PROVE UNCHANGED <<active, rowFile>>
  BY <1>5 DEF World, Pause, Resume, Cancel, Deliver, WorkerEnds, Becomes
<1>6. CASE UNCHANGED vars
  BY <1>6 DEF vars
<1> QED
  BY <1>1, <1>3, <1>4, <1>5, <1>6 DEF Next, Continue, Start

\* The row of an entry is dropped at the end of crash recovery only.
LEMMA RowNext ==
    ASSUME Types, [Next]_vars, Listed(active) \subseteq rowFile
    PROVE  Listed(active)' \subseteq rowFile' \/ (boot = "recovery" /\ boot' = "up")
<1>1. ASSUME NEW t \in Tasks, Place(t) \/ FinishStop(t) PROVE Listed(active)' \subseteq rowFile'
  BY <1>1 DEF Place, FinishStop, persistActiveJobs, Listed, pool
<1>2. ASSUME NEW t \in Tasks, NEW j \in Jobs, MoveJob(t, j) PROVE Listed(active)' \subseteq rowFile'
  BY <1>2 DEF MoveJob, persistActiveJobs, Listed
<1>3. ASSUME NEW j \in Jobs, active[j] # NoEntry, rowFile' = rowFile,
             \/ active' = [active EXCEPT ![j].stopping = TRUE]
             \/ active' = [active EXCEPT ![j].pausing = TRUE]
      PROVE  Listed(active)' \subseteq rowFile'
  BY <1>3 DEF Types, PoolOk, Listed
<1>4. CASE Crash
  BY <1>4 DEF Crash, Listed
<1>5. CASE RecoveryEnds
  BY <1>5 DEF RecoveryEnds
<1>6. CASE UNCHANGED <<active, rowFile>>
  BY <1>6 DEF Listed
<1> QED BY <1>1, <1>2, <1>3, <1>4, <1>5, <1>6, EntrySteps DEF MarksEntry, MovesJob

\* An entry is taken out with its container, or for the reactivation queue.
LEMMA SparedNext ==
    ASSUME Types, StoppedIsGone, [Next]_vars, NEW j \in Jobs, active[j] # NoEntry, active'[j] = NoEntry
    PROVE  Crash \/ rqueue'[j] # "no" \/ container[j].gen # active[j].gen
<1>1. ASSUME NEW t \in Tasks, Place(t) PROVE FALSE
  <2>1. task[t].gen > 0
    BY <1>1, CallFields DEF Place, Types, TaskOk, Sound, OwnPoints
  <2> QED BY <1>1, <2>1, CallFields DEF Place, Types, PoolOk, NoEntry
<1>2. ASSUME NEW t \in Tasks, FinishStop(t) PROVE container[j].gen # active[j].gen
  <2>1. task[t].at = "flush" /\ task[t].job \in Jobs
    BY <1>2, CallFields DEF FinishStop
  <2>2. Owns(t) /\ task[t].job = j
    BY <1>2, <2>1 DEF FinishStop, pool, Types, PoolOk
  <2> QED BY <2>1, <2>2 DEF StoppedIsGone, Owns
<1>3. ASSUME NEW t \in Tasks, NEW k \in Jobs, MoveJob(t, k) PROVE rqueue'[j] # "no"
  BY <1>3 DEF MoveJob, Types, PoolOk, MemoryOk
<1>4. ASSUME NEW k \in Jobs, active[k] # NoEntry,
             \/ active' = [active EXCEPT ![k].stopping = TRUE]
             \/ active' = [active EXCEPT ![k].pausing = TRUE]
      PROVE  FALSE
  <2>1. k = j
    BY <1>4 DEF Types, PoolOk
  <2>2. active'[j] \in {[active[j] EXCEPT !.stopping = TRUE], [active[j] EXCEPT !.pausing = TRUE]}
    BY <1>4, <2>1 DEF Types, PoolOk
  <2>3. active'[j] \in Entries
    BY <2>2, EntryFields DEF Entries
  <2> QED BY <2>3 DEF Entries, NoEntry
<1>5. CASE RecoveryEnds
  BY <1>5 DEF RecoveryEnds, pool
<1> QED BY <1>1, <1>2, <1>3, <1>4, <1>5, EntrySteps DEF MarksEntry, MovesJob
-----------------------------------------------------------------------------
(* What a step does to the containers *)

\* A step leaves the containers alone, or it is one of a few.
LEMMA ContainerSteps ==
    ASSUME Types, [Next]_vars
    PROVE  \/ container' = container
           \/ \E t \in Tasks : CreateContainer(t) \/ LaunchContainer(t)
           \/ \E j \in Jobs : \E gen : Kill(j, gen)
           \/ \E j \in Jobs : WorkerEnds(j)
<1>1. ASSUME NEW t \in Tasks,
             \/ StartFails(t) \/ Place(t) \/ Return(t) \/ GiveUp(t) \/ StartThrows(t) \/ FinishStop(t)
             \/ RespawnEnds(t) \/ \E j \in Jobs : Respawn(t, j)
      PROVE  container' = container
  BY <1>1 DEF StartFails, Place, Return, GiveUp, StartThrows, FinishStop, RespawnEnds, Respawn
<1>2. ASSUME NEW t \in Tasks, RemoveStale(t) \/ StopContainer(t) \/ Halt(t)
      PROVE  \E j \in Jobs : \E gen : Kill(j, gen)
  BY <1>2, CallFields DEF RemoveStale, StopContainer, Halt
<1>3. ASSUME NEW j \in Jobs,
             \/ PollFetch(j) \/ PollReads(j) \/ SweepExpired(j) \/ Drain(j) \/ TimerFires(j) \/ CleanupInspects(j)
             \/ \E h \in Hooks : HookStarted(h, j) \/ HookPaused(h, j) \/ HookResumed(h, j) \/ HookCancelled(h, j)
      PROVE  container' = container
  BY <1>3 DEF PollFetch, PollReads, SweepExpired, Drain, TimerFires, CleanupInspects, HookStarted,
              HookPaused, HookResumed, HookCancelled, MoveJob, MarkReady
<1>4. ASSUME NEW j \in Jobs, Recover(j)
      PROVE  container' = container \/ \E k \in Jobs : \E gen : Kill(k, gen)
  BY <1>4 DEF Recover
<1>5. ASSUME \/ PollGoesOn \/ PollRespawns \/ CleanupLeaves \/ CleanupDecides \/ CleanupRetries \/ RefetchFails
             \/ \E h \in Hooks : HookStarts(h) \/ HookPauses(h)
             \/ Crash \/ RecoveryEnds \/ UNCHANGED vars
      PROVE  container' = container
  BY <1>5 DEF PollGoesOn, PollUnseen, PollSeen, PollConfirm, PollPauses, PollResumes, PollRespawns,
              CleanupLeaves, CleanupDecides, CleanupRetries, RefetchFails, HookStarts, HookPauses,
              MoveJob, MarkReady, Crash, RecoveryEnds, vars
<1>6. ASSUME NEW j \in Jobs, Pause(j) \/ Resume(j) \/ Cancel(j) \/ Deliver(j) PROVE container' = container
  BY <1>6 DEF Pause, Resume, Cancel, Deliver, Becomes
<1> QED
  BY <1>1, <1>2, <1>3, <1>4, <1>5, <1>6 DEF Next, Act, World, Continue, Start

-----------------------------------------------------------------------------
(* What a step does to the calls *)

\* The calls that others wait for, or that hold a generation.
BusyPoints == {"stop", "flush", "extended"}

\* A step is one of a few, or it begins, ends and moves no such call.
LEMMA BusySteps ==
    ASSUME Types, [Next]_vars
    PROVE  \/ /\ \A t \in Tasks : task[t].at \in BusyPoints \/ task'[t].at \in BusyPoints
                                 => task'[t] = task[t]
              /\ \/ active' = active
                 \/ \E t \in Tasks : Place(t)
                 \/ \E j \in Jobs : active' = [active EXCEPT ![j] = NoEntry]
           \/ \E t \in Tasks : StopContainer(t) \/ FinishStop(t)
           \/ \E t \in Tasks, j \in Jobs : \E agent, for :
                 /\ StopCall(t, j, agent, for) /\ container' = container
                 /\ task[t].at \in {"idle", "inspect", "refetch"}
           \/ \E h \in Hooks, j \in Jobs : HookPaused(h, j)
           \/ \E h \in Hooks : HookPauses(h)
           \/ Crash
<1> DEFINE Calm == \A t \in Tasks : task[t].at \in BusyPoints \/ task'[t].at \in BusyPoints
                                 => task'[t] = task[t]
           Kept == Calm /\ \/ active' = active
                           \/ \E t \in Tasks : Place(t)
                           \/ \E j \in Jobs : active' = [active EXCEPT ![j] = NoEntry]
           Stopped == \E t \in Tasks, j \in Jobs : \E agent, for :
                         /\ StopCall(t, j, agent, for) /\ container' = container
                         /\ task[t].at \in {"idle", "inspect", "refetch"}
<1> USE DEF pool
<1>a. "poll" \in Tasks /\ "cleanup" \in Tasks /\ "timer" \in Tasks /\ Hooks \subseteq Tasks
  BY DEF Tasks
<1>b. ASSUME NEW t \in Tasks, task[t].at \notin BusyPoints, Goto(t, Idle) PROVE Calm
  BY <1>b DEF Goto, Idle, BusyPoints, Types, TaskOk
<1>c. ASSUME NEW t \in Tasks, task[t].at \notin BusyPoints, NEW at, at \notin BusyPoints,
             NEW j, NEW agent, NEW for, NEW gen, At(t, at, j, agent, for, gen)
      PROVE  Calm
  BY <1>c DEF At, Goto, BusyPoints, Types, TaskOk
<1>d. ASSUME NEW t \in Tasks, task[t].at \notin BusyPoints, NEW at, at \notin BusyPoints,
             NEW gen, Move(t, at, gen)
      PROVE  Calm
  BY <1>c, <1>d DEF Move
<1>e. ASSUME task' = task PROVE Calm
  BY <1>e
<1>f. ASSUME NEW t \in Tasks, task[t].at \notin BusyPoints, NotPlaced(t) PROVE Calm
  BY <1>b, <1>f DEF NotPlaced
<1>g. ASSUME NEW t \in Tasks, task[t].at \notin BusyPoints, NEW j, MarkReady(t, j) PROVE Calm
  BY <1>b, <1>c, <1>g DEF MarkReady, BusyPoints
<1>h. ASSUME NEW j, task["poll"].at \notin BusyPoints, TakeUp(j) PROVE Calm
  BY <1>a, <1>b, <1>c, <1>h DEF TakeUp, Starting, BusyPoints
<1>i. ASSUME NEW t \in Tasks, task[t].at \notin BusyPoints, NEW j \in Jobs, MoveJob(t, j) PROVE Kept
  <2>1. Calm
    BY <1>b, <1>c, <1>i DEF MoveJob, BusyPoints
  <2>2. active' = active \/ active' = [active EXCEPT ![j] = NoEntry]
    BY <1>i DEF MoveJob
  <2> HIDE DEF Calm
  <2> QED BY <2>1, <2>2
<1> HIDE DEF Calm
<1>1. ASSUME NEW t \in Tasks,
             \/ RemoveStale(t) \/ CreateContainer(t) \/ LaunchContainer(t) \/ StartFails(t)
      PROVE  Kept
  BY <1>1, <1>d DEF RemoveStale, CreateContainer, LaunchContainer, StartFails, BusyPoints
<1>2. ASSUME NEW t \in Tasks, Place(t) PROVE Kept
  BY <1>2, <1>b, <1>d DEF Place, BusyPoints
<1>3. ASSUME NEW t \in Tasks, Return(t) \/ GiveUp(t) \/ StartThrows(t) PROVE Kept
  BY <1>3, <1>b, <1>d, <1>f DEF Return, GiveUp, StartThrows, BusyPoints
<1>4. ASSUME NEW t \in Tasks, Halt(t) \/ RespawnEnds(t) \/ \E j \in Jobs : Respawn(t, j) PROVE Kept
  BY <1>4, <1>b, <1>c DEF Halt, RespawnEnds, Respawn, Starting, BusyPoints
<1>5. ASSUME NEW j \in Jobs, \/ PollFetch(j) \/ PollReads(j) \/ SweepExpired(j) \/ Drain(j)
                             \/ CleanupInspects(j) \/ Recover(j)
      PROVE  Kept
  BY <1>5, <1>a, <1>c, <1>e DEF PollFetch, PollReads, SweepExpired, Drain, CleanupInspects, Recover, Poll,
         Starting, Idle, BusyPoints
<1>6. ASSUME NEW j \in Jobs, NEW h \in Hooks, HookStarted(h, j) \/ HookResumed(h, j) \/ HookStarts(h)
      PROVE  Kept
  BY <1>6, <1>a, <1>b, <1>c, <1>g DEF HookStarted, HookResumed, HookStarts, MarkReady, Starting, Hook, Idle, BusyPoints
<1>7. ASSUME PollUnseen \/ PollSeen \/ PollConfirm \/ PollRespawns PROVE Kept
  BY <1>7, <1>a, <1>b, <1>c, <1>d, <1>h DEF PollUnseen, PollSeen, PollConfirm, PollRespawns, Poll, Idle, BusyPoints
<1>8. ASSUME PollPauses \/ PollResumes PROVE Kept
  BY <1>8, <1>a, <1>b, <1>g, <1>i, CallFields DEF PollPauses, PollResumes, MarkReady, BusyPoints
<1>9. ASSUME CleanupLeaves \/ RefetchFails PROVE Kept
  BY <1>9, <1>a, <1>b DEF CleanupLeaves, RefetchFails, BusyPoints
<1>10. ASSUME CleanupDecides PROVE Kept \/ Stopped
  <2>1. task["cleanup"].job \in Jobs /\ container' = container /\ task["cleanup"].at = "inspect"
    BY <1>10, <1>a, CallFields DEF CleanupDecides
  <2>2. CASE \E for : StopCall("cleanup", task["cleanup"].job, task["cleanup"].agent, for)
    BY <2>1, <2>2, <1>a
  <2>3. CASE /\ active' = active
             /\ At("cleanup", "refetch", task["cleanup"].job, task["cleanup"].agent, retries[task["cleanup"].job], 0)
    BY <2>1, <2>3, <1>a, <1>c DEF BusyPoints
  <2> QED BY <1>10, <2>2, <2>3 DEF CleanupDecides
<1>11. ASSUME CleanupRetries PROVE Stopped
  <2>1. task["cleanup"].job \in Jobs /\ container' = container /\ task["cleanup"].at = "refetch"
    BY <1>11, <1>a, CallFields DEF CleanupRetries
  <2>2. \E for : StopCall("cleanup", task["cleanup"].job, task["cleanup"].agent, for)
    BY <1>11 DEF CleanupRetries
  <2> QED BY <2>1, <2>2, <1>a
<1>12. ASSUME NEW j \in Jobs, NEW h \in Hooks, TimerFires(j) \/ HookCancelled(h, j) PROVE Stopped
  BY <1>12, <1>a DEF TimerFires, HookCancelled, Hook, Idle
<1>13. ASSUME NEW j \in Jobs, TimerFires(j) PROVE Stopped
  BY <1>13, <1>a DEF TimerFires, Idle
<1>14. ASSUME NEW j \in Jobs, World(j) PROVE Kept
  BY <1>14, <1>e DEF World, Pause, Resume, Cancel, Deliver, WorkerEnds, Becomes
<1>15. ASSUME UNCHANGED vars \/ RecoveryEnds PROVE Kept
  BY <1>15, <1>e DEF vars, RecoveryEnds
<1> HIDE DEF Kept, Stopped
<1>16. \/ Kept \/ Stopped \/ Crash
       \/ \E t \in Tasks : StopContainer(t) \/ FinishStop(t)
       \/ \E h \in Hooks, j \in Jobs : HookPaused(h, j)
       \/ \E h \in Hooks : HookPauses(h)
  <2>1. ASSUME NEW h \in Hooks, HookStarts(h) PROVE Kept
    <3>1. task[h].job \in Jobs
      BY <2>1, <1>a, CallFields DEF HookStarts
    <3> QED BY <2>1, <3>1, <1>6
  <2> QED
    BY <2>1, <1>1, <1>2, <1>3, <1>4, <1>5, <1>6, <1>7, <1>8, <1>9, <1>10, <1>11, <1>12, <1>13, <1>14, <1>15
    DEF Next, Act, Continue, Start, PollGoesOn
<1> QED BY <1>16 DEF Kept, Stopped, Calm
\* No step leaves a marked entry without its call.
LEMMA MarkNext == Types /\ MarkIsServed /\ [Next]_vars => MarkIsServed'
<1> SUFFICES ASSUME Types, MarkIsServed, [Next]_vars PROVE MarkIsServed'
  OBVIOUS
<1>a. Hooks \subseteq Tasks
  BY DEF Tasks
<1>1. ASSUME \A t \in Tasks : task[t].at \in BusyPoints => task'[t] = task[t],
             \/ active' = active
             \/ \E t \in Tasks : Place(t)
             \/ \E j \in Jobs : active' = [active EXCEPT ![j] = NoEntry]
      PROVE  MarkIsServed'
  <2> SUFFICES ASSUME NEW j \in Jobs, active'[j] # NoEntry, active'[j] # active[j]
               PROVE  ~active'[j].stopping /\ ~active'[j].pausing
    BY <1>1, <1>a DEF MarkIsServed, Listed, BusyPoints
  <2>1. ASSUME NEW t \in Tasks, Place(t) PROVE ~active'[j].stopping /\ ~active'[j].pausing
    <3>1. active'[j] = [gen |-> task[t].gen, agent |-> task[t].agent, pausing |-> FALSE, stopping |-> FALSE]
      BY <2>1, CallFields DEF Place, Types, PoolOk
    <3> QED BY <3>1
  <2>2. ~ \E k \in Jobs : active' = [active EXCEPT ![k] = NoEntry]
    BY DEF Types, PoolOk
  <2> QED BY <1>1, <2>1, <2>2
<1>2. ASSUME NEW t \in Tasks, StopContainer(t) PROVE MarkIsServed'
  <2>1. /\ task[t].at = "stop" /\ task[t].job \in Jobs /\ active' = active
        /\ \A u \in Tasks \ {t} : task'[u] = task[u]
    BY <1>2, CallFields DEF StopContainer, Move, At, Goto, Then, Starting, Types, TaskOk, pool
  <2>2. Owns(t) => task'[t] = [at |-> "flush", job |-> task[t].job, agent |-> task[t].agent,
                               for |-> task[t].for, gen |-> task[t].gen]
    BY <1>2 DEF StopContainer, Move, At, Goto, Types, TaskOk
  <2> QED BY <2>1, <2>2, <1>a DEF MarkIsServed, Listed, Owns
<1>3. ASSUME NEW t \in Tasks, FinishStop(t) PROVE MarkIsServed'
  <2>1. /\ task[t].at = "flush" /\ task[t].job \in Jobs
        /\ \A u \in Tasks \ {t} : task'[u] = task[u]
    BY <1>3, CallFields DEF FinishStop, At, Goto, Then, Starting, Types, TaskOk
  <2>2. IF Owns(t) THEN active' = [active EXCEPT ![task[t].job] = NoEntry] ELSE active' = active
    BY <1>3 DEF FinishStop, pool
  <2> QED BY <2>1, <2>2, <1>a DEF MarkIsServed, Listed, Owns, Types, PoolOk
<1>4. ASSUME NEW t \in Tasks, NEW j \in Jobs, NEW agent, NEW for, StopCall(t, j, agent, for),
             task[t].at \in {"idle", "inspect", "refetch"}
      PROVE  MarkIsServed'
  <2>1. \A u \in Tasks \ {t} : task'[u] = task[u]
    BY <1>4 DEF StopCall, At, Goto, Then, Starting, Types, TaskOk
  <2>2. CASE active' = active
    BY <1>4, <2>1, <2>2, <1>a DEF MarkIsServed, Listed
  <2>3. CASE /\ active[j] # NoEntry /\ active' = [active EXCEPT ![j].stopping = TRUE]
             /\ At(t, "stop", j, agent, for, active[j].gen)
    <3>1. task'[t].at = "stop" /\ task'[t].job = j /\ task'[t].gen = active[j].gen
      BY <2>3 DEF At, Goto, Types, TaskOk
    <3>2. active'[j] = [active[j] EXCEPT !.stopping = TRUE] /\ \A k \in Jobs \ {j} : active'[k] = active[k]
      BY <2>3 DEF Types, PoolOk
    <3>3. active'[j].gen = active[j].gen /\ active'[j].pausing = active[j].pausing
      BY <2>3, <3>2, EntryFields DEF Entries
    <3> QED BY <1>4, <2>1, <2>3, <3>1, <3>2, <3>3, <1>a DEF MarkIsServed, Listed
  <2> QED BY <1>4, <2>2, <2>3 DEF StopCall
<1>5. ASSUME NEW t \in Tasks, NEW j \in Jobs, MoveJob(t, j), task[t].at = "extended" => task[t].job = j,
             task[t].at \notin {"stop", "flush"}
      PROVE  MarkIsServed'
  <2>1. /\ \A u \in Tasks \ {t} : task'[u] = task[u]
        /\ IF active[j] = NoEntry THEN active' = active ELSE active' = [active EXCEPT ![j] = NoEntry]
    BY <1>5 DEF MoveJob, At, Goto, Types, TaskOk
  <2> QED BY <1>5, <2>1, <1>a DEF MarkIsServed, Listed, Types, PoolOk
<1>6. ASSUME NEW h \in Hooks, HookPauses(h) PROVE MarkIsServed'
  BY <1>6, <1>5, <1>a, CallFields DEF HookPauses
<1>7. ASSUME NEW h \in Hooks, NEW j \in Jobs, HookPaused(h, j) PROVE MarkIsServed'
  <2>1. task[h].at = "idle" /\ h \in Tasks /\ active[j] # NoEntry
    BY <1>7, <1>a DEF HookPaused, Hook, Idle
  <2>2. CASE MoveJob(h, j)
    BY <2>1, <2>2, <1>5
  <2>3. CASE /\ active' = [active EXCEPT ![j].pausing = TRUE]
             /\ At(h, "extended", j, SellerOf[j], "none", 0)
    <3>1. task'[h].at = "extended" /\ task'[h].job = j /\ \A u \in Tasks \ {h} : task'[u] = task[u]
      BY <2>1, <2>3 DEF At, Goto, Types, TaskOk
    <3>2. active'[j] = [active[j] EXCEPT !.pausing = TRUE] /\ \A k \in Jobs \ {j} : active'[k] = active[k]
      BY <2>3 DEF Types, PoolOk
    <3>3. active'[j].gen = active[j].gen /\ active'[j].stopping = active[j].stopping
      BY <2>1, <3>2, EntryFields DEF Entries
    <3> SUFFICES ASSUME NEW k \in Jobs, active'[k] # NoEntry
                 PROVE  /\ active'[k].stopping =>
                              \E t \in Tasks : /\ task'[t].at \in {"stop", "flush"}
                                               /\ task'[t].job = k /\ task'[t].gen = active'[k].gen
                        /\ active'[k].pausing => \E g \in Hooks : task'[g].at = "extended" /\ task'[g].job = k
      BY DEF MarkIsServed, Listed
    <3>4. active[k] # NoEntry /\ active'[k].gen = active[k].gen /\ active'[k].stopping = active[k].stopping
      BY <2>1, <3>2, <3>3
    <3>5. active[k].stopping => \E t \in Tasks : /\ task[t].at \in {"stop", "flush"}
                                               /\ task[t].job = k /\ task[t].gen = active[k].gen
      BY <3>4 DEF MarkIsServed, Listed
    <3>6. k # j /\ active[k].pausing => \E g \in Hooks : task[g].at = "extended" /\ task[g].job = k
      BY <3>4 DEF MarkIsServed, Listed
    <3> QED BY <2>1, <3>1, <3>2, <3>4, <3>5, <3>6, <1>a
  <2> QED BY <1>7, <2>2, <2>3 DEF HookPaused
<1>8. CASE Crash
  BY <1>8 DEF Crash, MarkIsServed, Listed
<1> QED BY <1>1, <1>2, <1>3, <1>4, <1>6, <1>7, <1>8, BusySteps

\* No step names a container like one that a call has stopped.
LEMMA GoneNext == Types /\ StoppedIsGone /\ [Next]_vars => StoppedIsGone'
<1> SUFFICES ASSUME Types, StoppedIsGone, [Next]_vars, NEW t \in Tasks, task'[t].at = "flush"
             PROVE  container'[task'[t].job].gen # task'[t].gen
  BY DEF StoppedIsGone
<1>1. CASE task'[t] = task[t]
  <2>1. task[t].job \in Jobs /\ task[t].gen > 0 /\ container[task[t].job].gen # task[t].gen
    BY <1>1, CallFields DEF Types, TaskOk, Sound, OwnPoints, StoppedIsGone
  <2>2. ASSUME NEW u \in Tasks, CreateContainer(u) PROVE container'[task[t].job].gen # task[t].gen
    <3>1. CASE container' = container
      BY <2>1, <3>1
    <3>2. CASE container' = [container EXCEPT ![task[u].job] = [gen |-> Fresh(task[u].job), up |-> FALSE]]
      <4>1. CASE task[u].job = task[t].job
        <5>1. task[t].gen \in Referred(task[t].job)
          BY <1>1 DEF Referred, Idle
        <5>2. Fresh(task[t].job) # task[t].gen
          BY <2>1, <5>1, FreshIsNew
        <5> QED BY <2>1, <3>2, <4>1, <5>2 DEF Types, ContainerOk
      <4>2. CASE task[u].job # task[t].job
        BY <2>1, <3>2, <4>2 DEF Types, ContainerOk
      <4> QED BY <4>1, <4>2
    <3> QED BY <2>2, <3>1, <3>2 DEF CreateContainer
  <2>3. ASSUME NEW u \in Tasks, LaunchContainer(u) PROVE container'[task[t].job].gen # task[t].gen
    BY <2>1, <2>3, CallFields DEF LaunchContainer, Types, ContainerOk, Containers
  <2>4. ASSUME NEW j \in Jobs, NEW gen, Kill(j, gen) PROVE container'[task[t].job].gen # task[t].gen
    BY <2>1, <2>4 DEF Kill, None, Types, ContainerOk
  <2>5. ASSUME NEW j \in Jobs, WorkerEnds(j) PROVE container'[task[t].job].gen # task[t].gen
    BY <2>1, <2>5 DEF WorkerEnds, None, Types, ContainerOk
  <2>6. \/ container' = container
        \/ \E u \in Tasks : CreateContainer(u) \/ LaunchContainer(u)
        \/ \E j \in Jobs : \E gen : Kill(j, gen)
        \/ \E j \in Jobs : WorkerEnds(j)
    BY ContainerSteps
  <2> QED BY <1>1, <2>1, <2>2, <2>3, <2>4, <2>5, <2>6
<1>2. CASE task'[t] # task[t]
  <2>1. ASSUME NEW u \in Tasks, StopContainer(u) PROVE container'[task'[t].job].gen # task'[t].gen
    <3>1. /\ task[u].at = "stop" /\ task[u].job \in Jobs /\ task[u].gen > 0
          /\ Kill(task[u].job, task[u].gen)
      BY <2>1, CallFields DEF StopContainer, Types, TaskOk, Sound, OwnPoints
    <3>2. t = u /\ task'[t].job = task[u].job /\ task'[t].gen = task[u].gen
      BY <1>2, <2>1 DEF StopContainer, Move, At, Goto, Then, Starting, Idle, Types, TaskOk
    <3> QED BY <3>1, <3>2 DEF Kill, None, Types, ContainerOk
  <2>2. ASSUME NEW u \in Tasks, FinishStop(u) PROVE FALSE
    BY <1>2, <2>2 DEF FinishStop, At, Goto, Then, Starting, Idle, Types, TaskOk
  <2>3. ASSUME NEW u \in Tasks, NEW j \in Jobs, NEW agent, NEW for, StopCall(u, j, agent, for) PROVE FALSE
    BY <1>2, <2>3 DEF StopCall, At, Goto, Then, Starting, Idle, Types, TaskOk
  <2>4. ASSUME NEW u \in Tasks, NEW j \in Jobs, MoveJob(u, j) PROVE FALSE
    BY <1>2, <2>4 DEF MoveJob, At, Goto, Idle, Types, TaskOk
  <2>5. ASSUME NEW h \in Hooks, HookPauses(h) PROVE FALSE
    BY <2>4, <2>5, CallFields DEF HookPauses, Tasks
  <2>6. ASSUME NEW h \in Hooks, NEW j \in Jobs, HookPaused(h, j) PROVE FALSE
    <3>1. h \in Tasks
      BY DEF Tasks
    <3> QED BY <1>2, <2>4, <2>6, <3>1 DEF HookPaused, At, Goto, Types, TaskOk
  <2>7. ~Crash
    BY <1>2 DEF Crash, Idle
  <2> QED BY <1>2, <2>1, <2>2, <2>3, <2>5, <2>6, <2>7, BusySteps DEF BusyPoints
<1> QED BY <1>1, <1>2
\* No step changes the reactivation queue in memory without the file, but to
\* take an entry out.
LEMMA PausedNext == Types /\ PausedIsOnDisk /\ [Next]_vars => PausedIsOnDisk'
<1> SUFFICES ASSUME Types, PausedIsOnDisk, [Next]_vars PROVE PausedIsOnDisk'
  OBVIOUS
<1> USE DEF memory, disk, PausedIsOnDisk
<1>1. ASSUME rqFile' = rqueue' \/ (rqueue' = rqueue /\ rqFile' = rqFile) PROVE PausedIsOnDisk'
  BY <1>1
<1>2. ASSUME NEW t \in Tasks, \/ RemoveStale(t) \/ CreateContainer(t) \/ LaunchContainer(t) \/ StartFails(t)
                             \/ Place(t) \/ StopContainer(t) \/ FinishStop(t) \/ Halt(t)
      PROVE  PausedIsOnDisk'
  BY <1>1, <1>2 DEF RemoveStale, CreateContainer, LaunchContainer, StartFails, Place, StopContainer, FinishStop, Halt
<1>3. ASSUME NEW t \in Tasks, Return(t) \/ GiveUp(t) \/ StartThrows(t) PROVE PausedIsOnDisk'
  BY <1>1, <1>3 DEF Return, GiveUp, StartThrows, NotPlaced
<1>4. ASSUME NEW t \in Tasks, NEW j \in Jobs, Respawn(t, j) PROVE PausedIsOnDisk'
  BY <1>4 DEF Respawn, Types, MemoryOk
<1>5. ASSUME NEW t \in Tasks, RespawnEnds(t) PROVE PausedIsOnDisk'
  BY <1>5 DEF RespawnEnds
<1>6. ASSUME NEW t, NEW j, MoveJob(t, j) \/ MarkReady(t, j) PROVE PausedIsOnDisk'
  BY <1>1, <1>6 DEF MoveJob, MarkReady, Flag
<1>7. ASSUME NEW j \in Jobs, Act(j) PROVE PausedIsOnDisk'
  BY <1>1, <1>6, <1>7 DEF Act, PollFetch, PollReads, SweepExpired, Drain, TimerFires, CleanupInspects, Recover,
         HookStarted, HookPaused, HookResumed, HookCancelled
<1>8. CASE \/ PollGoesOn \/ PollRespawns \/ CleanupLeaves \/ CleanupDecides \/ CleanupRetries \/ RefetchFails
           \/ \E h \in Hooks : HookStarts(h) \/ HookPauses(h)
  BY <1>1, <1>6, <1>8 DEF PollGoesOn, PollUnseen, PollSeen, PollConfirm, PollPauses, PollResumes, PollRespawns,
         CleanupLeaves, CleanupDecides, CleanupRetries, RefetchFails, HookStarts, HookPauses
<1>9. ASSUME NEW j \in Jobs, World(j) PROVE PausedIsOnDisk'
  BY <1>1, <1>9 DEF World, Pause, Resume, Cancel, Deliver, WorkerEnds, Becomes
<1>10. CASE Crash \/ RecoveryEnds \/ UNCHANGED vars
  BY <1>1, <1>10 DEF Crash, RecoveryEnds, vars
<1> QED
  BY <1>2, <1>3, <1>4, <1>5, <1>7, <1>8, <1>9, <1>10 DEF Next, Continue, Start

-----------------------------------------------------------------------------
(* The theorems *)

\* The state and the calls under way stay typed: no call acts on a job or a
\* container it does not have, and the counts keep their limits.
THEOREM TypeCorrect == Spec => []TypeOK
<1>1. Init => Types
  BY TypeInit
<1>2. Types /\ [Next]_vars => Types'
  BY TypeNext
<1>3. Types => TypeOK
  BY DEF Types, TypeOK, PlatformOk, ContainerOk, PoolOk, MemoryOk, DiskOk, Containers, Entries
<1> QED BY <1>1, <1>2, <1>3, PTL DEF Spec

\* The invariant that the next theorems rest on.
LEMMA SafeAlways == Spec => [](Types /\ StoppedIsGone)
<1>1. Init => Types /\ StoppedIsGone
  BY TypeInit
<1>2. Types /\ StoppedIsGone /\ [Next]_vars => Types' /\ StoppedIsGone'
  BY TypeNext, GoneNext
<1> QED BY <1>1, <1>2, PTL DEF Spec

\* A paused or resumed job survives a death of the dispatcher at any moment.
THEOREM PausedIsSafe == Spec => []PausedIsOnDisk
<1>1. Init => PausedIsOnDisk
  BY TypeInit
<1>2. Types /\ PausedIsOnDisk /\ [Next]_vars => PausedIsOnDisk'
  BY PausedNext
<1> QED BY <1>1, <1>2, SafeAlways, PTL DEF Spec

\* No entry stays marked as being stopped or paused without the call that will
\* take it out, so none is skipped for ever.
THEOREM MarksAreServed == Spec => []MarkIsServed
<1>1. Init => MarkIsServed
  BY TypeInit
<1>2. Types /\ MarkIsServed /\ [Next]_vars => MarkIsServed'
  BY MarkNext
<1> QED BY <1>1, <1>2, SafeAlways, PTL DEF Spec

\* Every worker has its row in active-jobs.json, until a crash recovery that ran
\* when it was started ends.
THEOREM RowsAreKept == Spec => RowIsKept
<1> DEFINE Step == Listed(active) \subseteq rowFile
                   => Listed(active)' \subseteq rowFile' \/ (boot = "recovery" /\ boot' = "up")
<1>1. Types /\ [Next]_vars => [Step]_vars
  BY RowNext
<1>2. RowIsKept <=> [][Step]_vars
  BY DEF RowIsKept
<1> HIDE DEF Step
<1> QED BY <1>1, <1>2, SafeAlways, PTL DEF Spec

\* No call that stops a worker takes out a later worker of the job, however
\* often the job is paused, resumed, retried and started meanwhile.
THEOREM ReplacementsAreSpared == Spec => ReplacedIsSpared
<1> DEFINE Step == \A j \in Jobs :
                      active[j] # NoEntry /\ active'[j] = NoEntry
                      => Crash \/ rqueue'[j] # "no" \/ container[j].gen # active[j].gen
<1>1. Types /\ StoppedIsGone /\ [Next]_vars => [Step]_vars
  BY SparedNext
<1>2. ReplacedIsSpared <=> [][Step]_vars
  BY DEF ReplacedIsSpared
<1> HIDE DEF Step
<1> QED BY <1>1, <1>2, SafeAlways, PTL DEF Spec
=============================================================================
