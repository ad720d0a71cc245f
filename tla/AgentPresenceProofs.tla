------------------------ MODULE AgentPresenceProofs ------------------------
(***************************************************************************)
(* An agent that a shutdown turned off is remembered until it is on again, *)
(* for any items, failures, crashes, restarts and commands, and also with  *)
(* an inbox sweep during the startup and with effects on the platform that *)
(* are not recorded (Slow, LateRecords); a sweep does not build on its own *)
(* unconfirmed write; and a dispatcher that is up has the agent for hire,  *)
(* or somebody knows that it has not.                                      *)
(***************************************************************************)
EXTENDS AgentPresence, FiniteSetTheorems, TLAPS

\* The records have their fields.
Shape ==
    /\ boot = [marked |-> boot.marked, tx |-> boot.tx, restored |-> boot.restored,
               unresolved |-> boot.unresolved, mode |-> boot.mode, sent |-> boot.sent]
    /\ seen = [platform |-> seen.platform, chain |-> seen.chain]
    /\ cli = [at |-> cli.at, status |-> cli.status, read |-> cli.read]
    /\ sweep = Cycle(sweep.at, sweep.view, sweep.tally, sweep.batch, sweep.tx, sweep.read)
    /\ {boot.marked, boot.restored, boot.unresolved, marker.in} \subseteq BOOLEAN

\* Versions that somebody builds on, and all there are.
Building == draft \cup cli.read \cup sweep.read
Held == {identity} \cup pool \cup Building

\* A transaction makes one version; one version at a time is unconfirmed.
VersionInv ==
    /\ txs \in Nat
    /\ \A v \in Held : v.tx \in Nat \ {0} /\ v.tx <= txs
    /\ \A v, w \in Held : v.tx = w.tx => v.status = w.status
    /\ \A p, q \in pool : p = q

\* What is owed is off, and in the marker.
OwedInv ==
    /\ owed \subseteq {"platform", "chain"}
    /\ "platform" \in owed => platform = "inactive"
    /\ "chain" \in owed => ChainOff
    /\ OffIsRemembered

Acting == {"activate", "chainOn", "repair", "sendOn", "finish"}

\* What a start knows of what is owed: it waits for the deactivate that it does
\* not see yet, has seen the chain's axis inactive or an unresolved wait, and
\* goes on only once the platform's axis is on.
StartInv ==
    /\ at \in Starting => boot.marked = marker.in
    /\ at = "check" => ~boot.restored /\ seen.platform # "active"
    /\ at \in {"check", "wait"} /\ "chain" \in owed /\ ~told /\ identity.status # "inactive"
          => boot.tx # 0 /\ \E p \in pool : p.tx = boot.tx
    /\ at \in Acting /\ boot.restored /\ ~boot.unresolved /\ "chain" \in owed /\ ~told
          => seen.chain = "inactive" /\ identity.status = "inactive"
    /\ at \in Starting /\ seen.platform = "active" => "platform" \notin owed
    /\ at \in Acting \ {"activate"} => "platform" \notin owed \/ told

IInv == Shape /\ VersionInv /\ OwedInv /\ StartInv

-----------------------------------------------------------------------------
(* Versions *)

\* Nothing new is held.
LEMMA VersionsKept ==
    ASSUME VersionInv, txs' = txs, pool' \subseteq pool, Held' \subseteq Held
    PROVE  VersionInv'
BY DEF VersionInv

\* A version is read, or given up.
LEMMA VersionsRead ==
    ASSUME VersionInv, UNCHANGED network, Building' \subseteq Building \cup {identity}
    PROVE  VersionInv'
<1>1. Held' \subseteq Held
  BY DEF Held, network
<1> QED BY <1>1, VersionsKept DEF network

\* A version lands: it has a number of its own.
LEMMA VersionsLand ==
    ASSUME VersionInv, NEW r, NEW s, NEW I, Lands(r, s, I),
           Building' \subseteq Building
    PROVE  VersionInv'
<1> DEFINE new == [tx |-> txs + 1, status |-> s, items |-> I]
<1>1. Held' \subseteq Held \cup {new} /\ pool' = {new} /\ txs' = txs + 1
  BY DEF Held, Lands
<1>2. new.tx = txs + 1 /\ txs \in Nat
  BY DEF VersionInv
<1> HIDE DEF new
<1>3. \A v \in Held : v.tx # new.tx
  BY <1>2 DEF VersionInv
<1>4. \A v \in Held' : v.tx \in Nat \ {0} /\ v.tx <= txs'
  BY <1>1, <1>2 DEF VersionInv
<1>5. \A v, w \in Held' : v.tx = w.tx => v.status = w.status
  BY <1>1, <1>2, <1>3 DEF VersionInv
<1> QED BY <1>1, <1>2, <1>4, <1>5 DEF VersionInv

-----------------------------------------------------------------------------
(* The sweep and the network *)

\* What a step of the sweep does to the versions: it reads the identity, or a
\* version built on what it read lands, with the status it had.
SweepMoves ==
    \/ /\ UNCHANGED network
       /\ sweep'.read \subseteq sweep.read \cup {identity}
    \/ /\ \E r \in sweep.read : \E I : Lands(r, r.status, I)
       /\ sweep'.read \subseteq sweep.read

\* The sweep's record keeps its fields.
SweepShape ==
    sweep = Cycle(sweep.at, sweep.view, sweep.tally, sweep.batch, sweep.tx, sweep.read)

\* A cycle has its fields.
LEMMA CycleFields ==
    ASSUME NEW a, NEW v, NEW t, NEW b, NEW x, NEW r, sweep' = Cycle(a, v, t, b, x, r)
    PROVE  SweepShape' /\ sweep'.read = r
BY DEF Cycle, SweepShape

\* The sweep goes on to its next job, or ends.
LEMMA NextJob ==
    ASSUME NEW T, NEW B, NEW f, Proceed(T, B, f)
    PROVE  SweepShape' /\ sweep'.read = {}
<1>1. CASE sweep' = Quiet
  BY <1>1, CycleFields DEF Quiet
<1>2. CASE sweep' = Cycle("read", sweep.view, T, B, 0, {})
  BY <1>2, CycleFields
<1> QED BY <1>1, <1>2 DEF Proceed, Finish

\* The sweep goes on after a job.
LEMMA AfterAJob ==
    ASSUME NEW f, AfterJob(f)
    PROVE  SweepShape' /\ sweep'.read = {}
BY NextJob DEF AfterJob

\* The sweep begins, or stops at its gate.
LEMMA GateMoves ==
    ASSUME SweepShape, SweepBegins \/ GateDefers \/ GateUnread \/ GatePasses
    PROVE  SweepShape' /\ SweepMoves
<1>1. CASE SweepBegins
  BY <1>1, CycleFields DEF SweepBegins, SweepMoves
<1>2. CASE GateDefers \/ GateUnread
  <2>1. sweep' = Quiet /\ UNCHANGED network
    BY <1>2 DEF GateDefers, GateUnread, Finish
  <2> QED BY <2>1, CycleFields DEF SweepMoves, Quiet
<1>3. CASE GatePasses
  <2>1. UNCHANGED network /\ \E T, B, f : Proceed(T, B, f)
    BY <1>3 DEF GatePasses
  <2> QED BY <2>1, NextJob DEF SweepMoves
<1> QED BY <1>1, <1>2, <1>3

\* The sweep reads the identity.
LEMMA ReadMoves ==
    ASSUME SweepShape, Read \/ ReadFails
    PROVE  SweepShape' /\ SweepMoves
<1>1. CASE \E f : AfterJob(f)
  <2>1. UNCHANGED network
    BY DEF Read, ReadFails
  <2> QED BY <1>1, <2>1, AfterAJob DEF SweepMoves
<1>2. CASE UNCHANGED network /\ sweep' = [sweep EXCEPT !.at = "ack"]
  BY <1>2 DEF SweepShape, SweepMoves, Cycle
<1>3. CASE UNCHANGED network /\ sweep' = [sweep EXCEPT !.at = "send", !.read = {identity}]
  BY <1>3 DEF SweepShape, SweepMoves, Cycle
<1> QED BY <1>1, <1>2, <1>3 DEF Read, ReadFails, Fails

\* The sweep sends.
LEMMA SendMoves ==
    ASSUME SweepShape, Send \/ SendRefused \/ SendPoisoned \/ SendFails
    PROVE  SweepShape' /\ SweepMoves
<1>1. CASE Send
  <2>1. sweep' = [sweep EXCEPT !.at = "ack", !.tx = txs']
    BY <1>1 DEF Send
  <2>2. SweepShape' /\ sweep'.read = sweep.read
    BY <2>1 DEF SweepShape, Cycle
  <2> QED BY <1>1, <2>2 DEF Send, SweepMoves
<1>2. CASE SendRefused \/ SendPoisoned \/ SendFails
  <2>1. \E f : AfterJob(f)
    BY <1>2 DEF SendRefused, SendPoisoned, SendFails, Fails
  <2>2. UNCHANGED network \/ \E r \in sweep.read : \E I : Lands(r, r.status, I)
    BY <1>2 DEF SendRefused, SendPoisoned, SendFails
  <2> QED BY <2>1, <2>2, AfterAJob DEF SweepMoves
<1> QED BY <1>1, <1>2

\* What was written is acknowledged.
LEMMA AckMoves ==
    ASSUME SweepShape, Ack
    PROVE  SweepShape' /\ SweepMoves
<1>1. UNCHANGED network /\ \E f : AfterJob(f)
  BY DEF Ack
<1> QED BY <1>1, AfterAJob DEF SweepMoves

\* The network, under whatever a sweep or the network itself does, keeps what is
\* owed off, and what a start knows of it true.
LEMMA NetworkKeeps ==
    ASSUME VersionInv, OwedInv, StartInv, UNCHANGED presenceVars,
           SweepMoves \/ Confirm \/ Expire
    PROVE  OwedInv' /\ StartInv'
<1>1. UNCHANGED <<platform, marker, at, boot, seen, owed, told>>
  BY DEF presenceVars, daemon, history
<1> DEFINE StaysOff ==
      /\ ChainOff => ChainOff'
      /\ ChainOff /\ identity.status = "inactive" => identity'.status = "inactive"
      /\ ChainOff /\ identity'.status # "inactive" => UNCHANGED <<identity, pool>> \/ pool = {}
<1>2. StaysOff
  <2>1. CASE UNCHANGED network
    BY <2>1 DEF network, ChainOff
  <2>2. ASSUME NEW r \in sweep.read, NEW I, Lands(r, r.status, I)
        PROVE  StaysOff
    <3>1. r.status = identity.status /\ pool = {}
      BY <2>2 DEF Lands, Refused, VersionInv, Held, Building
    <3>2. pool' = {[tx |-> txs + 1, status |-> r.status, items |-> I]} /\ identity' = identity
      BY <2>2 DEF Lands
    <3>3. \A p \in pool' : p.status = r.status
      BY <3>2
    <3> QED BY <3>1, <3>2, <3>3 DEF ChainOff
  <2>3. CASE Confirm
    <3>1. identity' \in pool /\ pool' = {}
      BY <2>3 DEF Confirm
    <3> QED BY <3>1 DEF ChainOff, VersionInv
  <2>4. CASE Expire
    <3>1. PICK p \in pool : p.status = identity.status
      BY <2>4 DEF Expire
    <3>2. pool' = {} /\ identity' = identity
      BY <2>4 DEF Expire
    <3> QED BY <3>1, <3>2 DEF ChainOff, VersionInv
  <2> QED BY <2>1, <2>2, <2>3, <2>4 DEF SweepMoves
<1>3. OwedInv'
  BY <1>1, <1>2 DEF OwedInv, OffIsRemembered
<1>4. at \in {"check", "wait"} /\ "chain" \in owed /\ ~told /\ identity'.status # "inactive"
         => boot.tx # 0 /\ \E p \in pool' : p.tx = boot.tx
  <2> SUFFICES ASSUME at \in {"check", "wait"}, "chain" \in owed, ~told,
                      identity'.status # "inactive"
               PROVE  boot.tx # 0 /\ \E p \in pool' : p.tx = boot.tx
    OBVIOUS
  <2>1. ChainOff
    BY DEF OwedInv
  <2>2. identity.status # "inactive"
    BY <1>2, <2>1
  <2>3. boot.tx # 0 /\ \E p \in pool : p.tx = boot.tx
    BY <2>2 DEF StartInv
  <2> QED BY <1>2, <2>1, <2>3
<1>5. StartInv'
  BY <1>1, <1>2, <1>4 DEF StartInv, OwedInv
<1> QED BY <1>3, <1>5

\* A step of the sweep.
LEMMA SweepKeeps ==
    ASSUME IInv, SweepBegins \/ SweepGoesOn, UNCHANGED presenceVars
    PROVE  IInv'
<1>1. UNCHANGED <<marker, boot, seen, cli, draft>>
  BY DEF presenceVars, daemon
<1>2. SweepShape
  BY DEF IInv, Shape, SweepShape
<1>3. SweepShape' /\ SweepMoves
  BY <1>2, GateMoves, ReadMoves, SendMoves, AckMoves DEF SweepGoesOn
<1>4. Shape'
  BY <1>1, <1>3 DEF IInv, Shape, SweepShape
<1>5. VersionInv'
  <2>1. CASE UNCHANGED network /\ sweep'.read \subseteq sweep.read \cup {identity}
    <3>1. Building' \subseteq Building \cup {identity}
      BY <1>1, <2>1 DEF Building
    <3> QED BY <2>1, <3>1, VersionsRead DEF IInv
  <2>2. CASE (\E r \in sweep.read : \E I : Lands(r, r.status, I)) /\ sweep'.read \subseteq sweep.read
    <3>1. Building' \subseteq Building
      BY <1>1, <2>2 DEF Building
    <3> QED BY <2>2, <3>1, VersionsLand DEF IInv
  <2> QED BY <1>3, <2>1, <2>2 DEF SweepMoves
<1>6. OwedInv' /\ StartInv'
  BY <1>3, NetworkKeeps DEF IInv
<1> QED BY <1>4, <1>5, <1>6 DEF IInv

\* A step of the network.
LEMMA NetworkStep ==
    ASSUME IInv, Network
    PROVE  IInv'
<1>1. UNCHANGED presenceVars /\ UNCHANGED <<marker, boot, seen, cli, draft, sweep, txs>>
  BY DEF Network, presenceVars, daemon, Confirm, Expire, inboxMemory
<1>2. Shape'
  BY <1>1 DEF IInv, Shape
<1>3. pool' = {} /\ (identity' = identity \/ identity' \in pool)
  BY DEF Network, Confirm, Expire
<1>4. Held' \subseteq Held
  BY <1>1, <1>3 DEF Held, Building
<1>5. VersionInv'
  BY <1>1, <1>3, <1>4, VersionsKept DEF IInv
<1>6. OwedInv' /\ StartInv'
  BY <1>1, NetworkKeeps DEF IInv, Network
<1> QED BY <1>2, <1>5, <1>6 DEF IInv

-----------------------------------------------------------------------------
(* Starting and stopping *)

\* A start reads the marker.
LEMMA StartStep ==
    ASSUME IInv, Start
    PROVE  IInv'
<1>1. Shape'
  BY DEF IInv, Shape, Start, Fresh, Unseen, inboxVars, inboxMemory
<1>2. UNCHANGED network /\ Building' \subseteq Building \cup {identity}
  BY DEF Start, Building, inboxVars, inboxMemory
<1>3. VersionInv'
  BY <1>2, VersionsRead DEF IInv
<1>4. OwedInv'
  BY DEF IInv, OwedInv, OffIsRemembered, ChainOff, network, Start, inboxVars,
     history
<1>5. StartInv'
  BY DEF IInv, StartInv, Starting, Acting, Start, VersionInv, Held, OwedInv,
     OffIsRemembered, ChainOff, Settled, Fresh, Unseen, network, inboxVars,
     history
<1> QED BY <1>1, <1>3, <1>4, <1>5 DEF IInv

\* A start skips the agent.
LEMMA CheckSkipsStep ==
    ASSUME IInv, CheckSkips
    PROVE  IInv'
<1>1. Shape'
  BY DEF IInv, Shape, CheckSkips, inboxVars, inboxMemory
<1>2. UNCHANGED network /\ Building' \subseteq Building \cup {identity}
  BY DEF CheckSkips, Building, inboxVars, inboxMemory
<1>3. VersionInv'
  BY <1>2, VersionsRead DEF IInv
<1>4. OwedInv'
  BY DEF IInv, OwedInv, OffIsRemembered, ChainOff, network, CheckSkips,
     inboxVars, history
<1>5. StartInv'
  BY DEF StartInv, Starting, Acting, CheckSkips
<1> QED BY <1>1, <1>3, <1>4, <1>5 DEF IInv

\* A start reads the status.
LEMMA CheckStep ==
    ASSUME IInv, Check
    PROVE  IInv'
<1>1. Shape'
  BY DEF IInv, Shape, Check, inboxVars, inboxMemory
<1>2. UNCHANGED network /\ Building' \subseteq Building \cup {identity}
  BY DEF Check, Building, inboxVars, inboxMemory
<1>3. VersionInv'
  BY <1>2, VersionsRead DEF IInv
<1>4. OwedInv'
  BY DEF IInv, OwedInv, OffIsRemembered, ChainOff, network, Check, inboxVars,
     history
<1>5. StartInv'
  BY DEF IInv, Shape, StartInv, Starting, Acting, Check, OwedInv,
     OffIsRemembered, network, inboxVars, history
<1> QED BY <1>1, <1>3, <1>4, <1>5 DEF IInv

\* The status cannot be read.
LEMMA CheckFailsStep ==
    ASSUME IInv, CheckFails
    PROVE  IInv'
<1>1. Shape'
  BY DEF IInv, Shape, CheckFails, inboxMemory
<1>2. UNCHANGED network /\ Building' \subseteq Building \cup {identity}
  BY DEF CheckFails, Building, inboxMemory
<1>3. VersionInv'
  BY <1>2, VersionsRead DEF IInv
<1>4. OwedInv'
  BY DEF IInv, OwedInv, OffIsRemembered, ChainOff, network, CheckFails,
     history
<1>5. StartInv'
  BY DEF IInv, StartInv, Starting, Acting, CheckFails, network, history
<1> QED BY <1>1, <1>3, <1>4, <1>5 DEF IInv

\* The deactivate of the last stop is seen.
LEMMA WaitSeesStep ==
    ASSUME IInv, WaitSees
    PROVE  IInv'
<1>1. Shape'
  BY DEF IInv, Shape, WaitSees, inboxVars, inboxMemory
<1>2. UNCHANGED network /\ Building' \subseteq Building \cup {identity}
  BY DEF WaitSees, Building, inboxVars, inboxMemory
<1>3. VersionInv'
  BY <1>2, VersionsRead DEF IInv
<1>4. OwedInv'
  BY DEF IInv, OwedInv, OffIsRemembered, ChainOff, network, WaitSees,
     inboxVars, history
<1>5. StartInv'
  BY DEF IInv, Shape, StartInv, Starting, Acting, WaitSees, OwedInv, ChainOff,
     VersionInv, Held, network, inboxVars, history
<1> QED BY <1>1, <1>3, <1>4, <1>5 DEF IInv

\* It is not seen in time.
LEMMA WaitEndsStep ==
    ASSUME IInv, WaitEnds
    PROVE  IInv'
<1>1. Shape'
  BY DEF IInv, Shape, WaitEnds, inboxVars, inboxMemory
<1>2. UNCHANGED network /\ Building' \subseteq Building \cup {identity}
  BY DEF WaitEnds, Building, inboxVars, inboxMemory
<1>3. VersionInv'
  BY <1>2, VersionsRead DEF IInv
<1>4. OwedInv'
  BY DEF IInv, OwedInv, OffIsRemembered, ChainOff, network, WaitEnds,
     inboxVars, history
<1>5. StartInv'
  BY DEF IInv, Shape, StartInv, Starting, Acting, WaitEnds, OwedInv,
     OffIsRemembered, network, inboxVars, history
<1> QED BY <1>1, <1>3, <1>4, <1>5 DEF IInv

\* Nothing is to be activated.
LEMMA ActivateSkipsStep ==
    ASSUME IInv, ActivateSkips
    PROVE  IInv'
<1>1. Shape'
  BY DEF IInv, Shape, ActivateSkips, inboxVars, inboxMemory
<1>2. UNCHANGED network /\ Building' \subseteq Building \cup {identity}
  BY DEF ActivateSkips, Building, inboxVars, inboxMemory
<1>3. VersionInv'
  BY <1>2, VersionsRead DEF IInv
<1>4. OwedInv'
  BY DEF IInv, OwedInv, OffIsRemembered, ChainOff, network, ActivateSkips,
     inboxVars, history
<1>5. StartInv'
  BY DEF IInv, StartInv, Starting, Acting, ActivateSkips, Skips, network,
     inboxVars, history
<1> QED BY <1>1, <1>3, <1>4, <1>5 DEF IInv

\* The platform's axis is turned on.
LEMMA ActivateStep ==
    ASSUME IInv, Activate
    PROVE  IInv'
<1>1. Shape'
  BY DEF IInv, Shape, Activate, inboxVars, inboxMemory
<1>2. UNCHANGED network /\ Building' \subseteq Building \cup {identity}
  BY DEF Activate, Building, inboxVars, inboxMemory
<1>3. VersionInv'
  BY <1>2, VersionsRead DEF IInv
<1>4. OwedInv'
  BY DEF IInv, OwedInv, OffIsRemembered, ChainOff, network, Activate,
     Activated, inboxVars
<1>5. StartInv'
  BY DEF IInv, Shape, StartInv, Starting, Acting, Activate, Activated,
     network, inboxVars
<1> QED BY <1>1, <1>3, <1>4, <1>5 DEF IInv

\* It cannot be.
LEMMA ActivateFailsStep ==
    ASSUME IInv, ActivateFails
    PROVE  IInv'
<1>1. Shape'
  BY DEF IInv, Shape, ActivateFails, inboxMemory
<1>2. UNCHANGED network /\ Building' \subseteq Building \cup {identity}
  BY DEF ActivateFails, Building, inboxMemory
<1>3. VersionInv'
  BY <1>2, VersionsRead DEF IInv
<1>4. OwedInv'
  BY DEF IInv, OwedInv, OffIsRemembered, ChainOff, network, ActivateFails
<1>5. StartInv'
  BY DEF IInv, StartInv, Starting, Acting, ActivateFails, network
<1> QED BY <1>1, <1>3, <1>4, <1>5 DEF IInv

\* The repair may go on.
LEMMA RepairMayStep ==
    ASSUME IInv, RepairMay
    PROVE  IInv'
<1>1. Shape'
  BY DEF IInv, Shape, RepairMay
<1>2. UNCHANGED network /\ Building' \subseteq Building \cup {identity}
  BY DEF RepairMay, Building
<1>3. VersionInv'
  BY <1>2, VersionsRead DEF IInv
<1>4. OwedInv'
  BY DEF IInv, OwedInv, OffIsRemembered, ChainOff, network, RepairMay, history
<1>5. StartInv'
  BY DEF IInv, Shape, StartInv, Starting, Acting, RepairMay, network, history
<1> QED BY <1>1, <1>3, <1>4, <1>5 DEF IInv

\* The repair is given up.
LEMMA RepairDeferredStep ==
    ASSUME IInv, RepairDeferred
    PROVE  IInv'
<1>1. Shape'
  BY DEF IInv, Shape, RepairDeferred, inboxVars, inboxMemory
<1>2. UNCHANGED network /\ Building' \subseteq Building \cup {identity}
  BY DEF RepairDeferred, Building, inboxVars, inboxMemory
<1>3. VersionInv'
  BY <1>2, VersionsRead DEF IInv
<1>4. OwedInv'
  BY DEF IInv, OwedInv, OffIsRemembered, ChainOff, network, RepairDeferred,
     inboxVars, history
<1>5. StartInv'
  BY DEF IInv, StartInv, Starting, Acting, RepairDeferred, network, inboxVars,
     history
<1> QED BY <1>1, <1>3, <1>4, <1>5 DEF IInv

\* The identity is read, to be activated.
LEMMA OnReadsStep ==
    ASSUME IInv, OnReads
    PROVE  IInv'
<1>1. Shape'
  BY DEF IInv, Shape, OnReads, inboxVars, inboxMemory
<1>2. UNCHANGED network /\ Building' \subseteq Building \cup {identity}
  BY DEF OnReads, Building, inboxVars, inboxMemory
<1>3. VersionInv'
  BY <1>2, VersionsRead DEF IInv
<1>4. OwedInv'
  BY DEF IInv, OwedInv, OffIsRemembered, ChainOff, network, OnReads,
     inboxVars, history
<1>5. StartInv'
  BY DEF IInv, StartInv, Starting, Acting, OnReads, network, inboxVars,
     history
<1> QED BY <1>1, <1>3, <1>4, <1>5 DEF IInv

\* The chain's axis cannot be turned on.
LEMMA OnFailsStep ==
    ASSUME IInv, OnFails
    PROVE  IInv'
<1>1. Shape'
  BY DEF IInv, Shape, OnFails, inboxMemory
<1>2. UNCHANGED network /\ Building' \subseteq Building \cup {identity}
  BY DEF OnFails, Building, inboxMemory
<1>3. VersionInv'
  BY <1>2, VersionsRead DEF IInv
<1>4. OwedInv'
  BY DEF IInv, OwedInv, OffIsRemembered, ChainOff, network, OnFails, history
<1>5. StartInv'
  BY DEF IInv, StartInv, Starting, Acting, OnFails, network, history
<1> QED BY <1>1, <1>3, <1>4, <1>5 DEF IInv

\* The start is over.
LEMMA FinishStartStep ==
    ASSUME IInv, FinishStart
    PROVE  IInv'
<1>1. Shape'
  BY DEF IInv, Shape, FinishStart, Fresh, Unseen, NoMark, inboxVars,
     inboxMemory
<1>2. UNCHANGED network /\ Building' \subseteq Building \cup {identity}
  BY DEF FinishStart, Building, inboxVars, inboxMemory
<1>3. VersionInv'
  BY <1>2, VersionsRead DEF IInv
<1>4. OwedInv'
  <2>1. owed # {} => marker'.in \/ told
    <3>1. CASE boot.marked /\ boot.restored /\ ~StillBroken
      <4>1. "platform" \notin owed \/ told
        BY DEF FinishStart, IInv, StartInv, Acting
      <4>2. "chain" \notin owed \/ told
        BY <3>1 DEF FinishStart, IInv, StartInv, Acting, StillBroken
      <4> QED BY <4>1, <4>2 DEF IInv, OwedInv
    <3>2. CASE ~boot.marked
      BY <3>2 DEF FinishStart, IInv, OwedInv, OffIsRemembered
    <3>3. CASE boot.marked /\ ~(boot.restored /\ ~StillBroken)
      BY <3>3 DEF FinishStart
    <3> QED BY <3>1, <3>2, <3>3
  <2> QED BY <1>2, <2>1 DEF FinishStart, IInv, OwedInv, OffIsRemembered, ChainOff, network, history
<1>5. StartInv'
  BY DEF StartInv, Starting, Acting, FinishStart
<1> QED BY <1>1, <1>3, <1>4, <1>5 DEF IInv

\* The status is read once more.
LEMMA StatusPollStep ==
    ASSUME IInv, StatusPoll
    PROVE  IInv'
<1>1. Shape'
  BY DEF IInv, Shape, StatusPoll, inboxVars, inboxMemory
<1>2. UNCHANGED network /\ Building' \subseteq Building \cup {identity}
  BY DEF StatusPoll, Building, inboxVars, inboxMemory
<1>3. VersionInv'
  BY <1>2, VersionsRead DEF IInv
<1>4. OwedInv'
  BY DEF IInv, OwedInv, OffIsRemembered, ChainOff, network, StatusPoll,
     inboxVars, history
<1>5. StartInv'
  BY DEF IInv, StartInv, Starting, Acting, StatusPoll, OwedInv,
     OffIsRemembered, network, inboxVars, history
<1> QED BY <1>1, <1>3, <1>4, <1>5 DEF IInv

\* A stop begins.
LEMMA ShutdownStep ==
    ASSUME IInv, Shutdown
    PROVE  IInv'
<1>1. Shape'
  BY DEF IInv, Shape, Shutdown, inboxVars, inboxMemory
<1>2. UNCHANGED network /\ Building' \subseteq Building \cup {identity}
  BY DEF Shutdown, Building, inboxVars, inboxMemory
<1>3. VersionInv'
  BY <1>2, VersionsRead DEF IInv
<1>4. OwedInv'
  BY DEF IInv, OwedInv, OffIsRemembered, ChainOff, network, Shutdown,
     inboxVars, history
<1>5. StartInv'
  BY DEF StartInv, Starting, Acting, Shutdown
<1> QED BY <1>1, <1>3, <1>4, <1>5 DEF IInv

\* The platform's axis is turned off.
LEMMA TurnOffStep ==
    ASSUME IInv, TurnOff
    PROVE  IInv'
<1>1. Shape'
  BY DEF IInv, Shape, TurnOff, inboxVars, inboxMemory
<1>2. UNCHANGED network /\ Building' \subseteq Building \cup {identity}
  BY DEF TurnOff, Building, inboxVars, inboxMemory
<1>3. VersionInv'
  BY <1>2, VersionsRead DEF IInv
<1>4. OwedInv'
  BY DEF IInv, OwedInv, OffIsRemembered, ChainOff, network, TurnOff,
     inboxVars, history
<1>5. StartInv'
  BY DEF StartInv, Starting, Acting, TurnOff
<1> QED BY <1>1, <1>3, <1>4, <1>5 DEF IInv

\* It cannot be.
LEMMA TurnOffFailsStep ==
    ASSUME IInv, TurnOffFails
    PROVE  IInv'
<1>1. Shape'
  BY DEF IInv, Shape, TurnOffFails, inboxMemory
<1>2. UNCHANGED network /\ Building' \subseteq Building \cup {identity}
  BY DEF TurnOffFails, Building, inboxMemory
<1>3. VersionInv'
  BY <1>2, VersionsRead DEF IInv
<1>4. OwedInv'
  BY DEF IInv, OwedInv, OffIsRemembered, ChainOff, network, TurnOffFails,
     history
<1>5. StartInv'
  BY DEF StartInv, Starting, Acting, TurnOffFails
<1> QED BY <1>1, <1>3, <1>4, <1>5 DEF IInv

\* The marker is written.
LEMMA MarkOffStep ==
    ASSUME IInv, MarkOff
    PROVE  IInv'
<1>1. Shape'
  BY DEF IInv, Shape, MarkOff, inboxVars, inboxMemory
<1>2. UNCHANGED network /\ Building' \subseteq Building \cup {identity}
  BY DEF MarkOff, Building, inboxVars, inboxMemory
<1>3. VersionInv'
  BY <1>2, VersionsRead DEF IInv
<1>4. OwedInv'
  BY DEF IInv, OwedInv, OffIsRemembered, ChainOff, network, MarkOff, inboxVars
<1>5. StartInv'
  BY DEF StartInv, Starting, Acting, MarkOff
<1> QED BY <1>1, <1>3, <1>4, <1>5 DEF IInv

\* The last write is forgotten.
LEMMA GateOffStep ==
    ASSUME IInv, GateOff
    PROVE  IInv'
<1>1. Shape'
  BY DEF IInv, Shape, GateOff
<1>2. UNCHANGED network /\ Building' \subseteq Building \cup {identity}
  BY DEF GateOff, Building
<1>3. VersionInv'
  BY <1>2, VersionsRead DEF IInv
<1>4. OwedInv'
  BY DEF IInv, OwedInv, OffIsRemembered, ChainOff, network, GateOff, history
<1>5. StartInv'
  BY DEF StartInv, Starting, Acting, GateOff
<1> QED BY <1>1, <1>3, <1>4, <1>5 DEF IInv

\* The chain's axis cannot be turned off.
LEMMA OffFailsStep ==
    ASSUME IInv, OffFails
    PROVE  IInv'
<1>1. Shape'
  BY DEF IInv, Shape, OffFails, inboxMemory
<1>2. UNCHANGED network /\ Building' \subseteq Building \cup {identity}
  BY DEF OffFails, Building, inboxMemory
<1>3. VersionInv'
  BY <1>2, VersionsRead DEF IInv
<1>4. OwedInv'
  BY DEF IInv, OwedInv, OffIsRemembered, ChainOff, network, OffFails, history
<1>5. StartInv'
  BY DEF StartInv, Starting, Acting, OffFails
<1> QED BY <1>1, <1>3, <1>4, <1>5 DEF IInv

\* The marker is written with the txid.
LEMMA RecordOffStep ==
    ASSUME IInv, RecordOff
    PROVE  IInv'
<1>1. Shape'
  BY DEF IInv, Shape, RecordOff, inboxVars, inboxMemory
<1>2. UNCHANGED network /\ Building' \subseteq Building \cup {identity}
  BY DEF RecordOff, Building, inboxVars, inboxMemory
<1>3. VersionInv'
  BY <1>2, VersionsRead DEF IInv
<1>4. OwedInv'
  BY DEF IInv, OwedInv, OffIsRemembered, ChainOff, network, RecordOff,
     inboxVars
<1>5. StartInv'
  BY DEF StartInv, Starting, Acting, RecordOff
<1> QED BY <1>1, <1>3, <1>4, <1>5 DEF IInv

\* The dispatcher exits.
LEMMA ExitStep ==
    ASSUME IInv, Exit
    PROVE  IInv'
<1>1. Shape'
  BY DEF IInv, Shape, Exit, Gone, Boot0, Fresh, Unseen, Quiet, Cycle
<1>2. UNCHANGED network /\ Building' \subseteq Building \cup {identity}
  BY DEF Exit, Gone, Quiet, Cycle, Building
<1>3. VersionInv'
  BY <1>2, VersionsRead DEF IInv
<1>4. OwedInv'
  BY DEF IInv, OwedInv, OffIsRemembered, ChainOff, network, Exit, Gone,
     history
<1>5. StartInv'
  BY DEF StartInv, Starting, Acting, Exit, Gone
<1> QED BY <1>1, <1>3, <1>4, <1>5 DEF IInv

\* The dispatcher dies.
LEMMA CrashStep ==
    ASSUME IInv, Crash
    PROVE  IInv'
<1>1. Shape'
  BY DEF IInv, Shape, Crash, Gone, Boot0, Fresh, Unseen, Quiet, Cycle
<1>2. UNCHANGED network /\ Building' \subseteq Building \cup {identity}
  BY DEF Crash, Gone, Quiet, Cycle, Building
<1>3. VersionInv'
  BY <1>2, VersionsRead DEF IInv
<1>4. OwedInv'
  BY DEF IInv, OwedInv, OffIsRemembered, ChainOff, network, Crash, Gone,
     history
<1>5. StartInv'
  BY DEF StartInv, Starting, Acting, Crash, Gone
<1> QED BY <1>1, <1>3, <1>4, <1>5 DEF IInv

\* The activate lands.
LEMMA OnLandsStep ==
    ASSUME IInv, OnLands
    PROVE  IInv'
<1>1. Shape'
  BY DEF IInv, Shape, OnLands
<1>2. VersionInv'
  <2>1. Building' \subseteq Building
    BY DEF OnLands, Building
  <2> QED BY <2>1, VersionsLand DEF OnLands, IInv
<1>3. owed' = owed \ {"chain"} /\ UNCHANGED <<platform, marker, told, boot>>
  BY DEF OnLands, Sent
<1>4. OwedInv'
  BY <1>3 DEF IInv, OwedInv, OffIsRemembered
<1>5. StartInv'
  BY <1>3 DEF IInv, Shape, OwedInv, StartInv, OnLands, Starting, Acting
<1> QED BY <1>1, <1>2, <1>4, <1>5 DEF IInv

\* The deactivate lands.
LEMMA OffLandsStep ==
    ASSUME IInv, OffLands
    PROVE  IInv'
<1>1. Shape'
  BY DEF IInv, Shape, OffLands, inboxMemory
<1>2. VersionInv'
  <2>1. Building' \subseteq Building
    BY DEF OffLands, Building, inboxMemory
  <2> QED BY <2>1, VersionsLand DEF OffLands, IInv
<1>3. ChainOff'
  <2>1. PICK d \in draft : Lands(d, "inactive", d.items)
    BY DEF OffLands
  <2>2. pool' = {[tx |-> txs + 1, status |-> "inactive", items |-> d.items]}
    BY <2>1 DEF Lands
  <2> QED BY <2>2 DEF ChainOff
<1>4. OwedInv'
  BY <1>3 DEF IInv, OwedInv, OffIsRemembered, OffLands, history
<1>5. StartInv'
  BY DEF StartInv, OffLands, Starting, Acting
<1> QED BY <1>1, <1>2, <1>4, <1>5 DEF IInv

\* The operator sets the platform's axis.
LEMMA CommandStep ==
    ASSUME IInv, NEW s \in Statuses, Command(s)
    PROVE  IInv'
<1>1. Shape'
  BY DEF IInv, Shape, Command, inboxMemory, daemon
<1>2. UNCHANGED network /\ Building' \subseteq Building
  BY DEF Command, Building, inboxMemory, daemon
<1>3. VersionInv'
  BY <1>2, VersionsRead DEF IInv
<1>4. owed' = {} /\ UNCHANGED <<at, boot, seen, marker>>
  BY DEF Command, daemon
<1>5. OwedInv' /\ StartInv'
  BY <1>4 DEF IInv, OwedInv, StartInv, OffIsRemembered
<1> QED BY <1>1, <1>3, <1>5 DEF IInv

\* The command reads the identity.
LEMMA CommandReadsStep ==
    ASSUME IInv, CommandReads
    PROVE  IInv'
<1>1. Shape'
  BY DEF IInv, Shape, CommandReads, inboxVars, inboxMemory, daemon
<1>2. UNCHANGED network /\ Building' \subseteq Building \cup {identity}
  BY DEF CommandReads, Building, IInv, Shape, inboxVars, inboxMemory, daemon
<1>3. VersionInv'
  BY <1>2, VersionsRead DEF IInv
<1>4. UNCHANGED <<identity, pool, platform, marker, at, boot, seen, owed, told>>
  BY DEF CommandReads, inboxVars, network, daemon, history
<1>5. OwedInv' /\ StartInv'
  BY <1>4 DEF IInv, OwedInv, StartInv, OffIsRemembered, ChainOff
<1> QED BY <1>1, <1>3, <1>5 DEF IInv

\* The command's write lands, or is refused.
LEMMA CommandSendsStep ==
    ASSUME IInv, CommandSends
    PROVE  IInv'
<1>1. Shape' /\ cli'.read = {}
  BY DEF IInv, Shape, CommandSends, inboxMemory, daemon
<1>2. Building' \subseteq Building
  BY <1>1 DEF CommandSends, Building, inboxMemory, daemon
<1>3. UNCHANGED <<platform, marker, at, boot, seen>>
  BY DEF CommandSends, daemon
<1>4. CASE UNCHANGED told /\ \E r \in cli.read :
              Lands(r, cli.status, r.items) /\ Sent("active")
  <2>1. VersionInv'
    BY <1>2, <1>4, VersionsLand DEF IInv
  <2>2. owed' = owed \ {"chain"}
    BY <1>4 DEF Sent
  <2>3. OwedInv' /\ StartInv'
    BY <1>3, <1>4, <2>2 DEF IInv, OwedInv, StartInv, OffIsRemembered
  <2> QED BY <1>1, <2>1, <2>3 DEF IInv
<1>5. CASE UNCHANGED <<network, owed>> /\ (told => told')
  <2>1. VersionInv'
    BY <1>2, <1>5, VersionsRead DEF IInv
  <2>2. OwedInv' /\ StartInv'
    BY <1>3, <1>5 DEF IInv, OwedInv, StartInv, OffIsRemembered, ChainOff, network
  <2> QED BY <1>1, <2>1, <2>2 DEF IInv
<1> QED BY <1>4, <1>5 DEF CommandSends

-----------------------------------------------------------------------------

\* The invariant holds initially, after no stop or after one of either kind.
LEMMA Initially == Init => IInv
<1> SUFFICES ASSUME Init PROVE IInv
  OBVIOUS
<1> DEFINE new == [tx |-> 2, status |-> "inactive", items |-> {}]
<1>1. Shape
  <2>1. SweepShape
    BY DEF Init, InboxInit, Quiet, Cycle, SweepShape
  <2>2. marker.in \in BOOLEAN
    <3>1. \/ marker = [in |-> FALSE, tx |-> 0] \/ marker = [in |-> TRUE, tx |-> 0]
          \/ marker = [in |-> TRUE, tx |-> 2]
      BY DEF Init, NoMark
    <3>2. marker.in = TRUE \/ marker.in = FALSE
      BY <3>1
    <3> QED BY <3>2
  <2>3. boot = Fresh(FALSE, 0, [start |-> FALSE, stop |-> FALSE]) /\ seen = Unseen
    BY DEF Init, Boot0
  <2> QED BY <2>1, <2>2, <2>3 DEF Init, Shape, SweepShape, Fresh, Unseen
<1>2. draft = {} /\ cli.read = {} /\ sweep.read = {}
  BY DEF Init, InboxInit, Quiet, Cycle
<1>3. Building = {}
  BY <1>2 DEF Building
<1>4. identity = Begun /\ (pool = {} \/ pool = {new}) /\ txs = 1 + Cardinality(pool)
  BY DEF Init, InboxInit
<1>5. Cardinality({}) = 0 /\ Cardinality({new}) = 1
  BY FS_EmptySet, FS_Singleton
<1>6. VersionInv
  <2>1. CASE pool = {}
    <3>1. Held = {Begun} /\ txs = 1
      BY <1>3, <1>4, <1>5, <2>1 DEF Held
    <3> QED BY <2>1, <3>1 DEF VersionInv, Begun
  <2>2. CASE pool = {new}
    <3>1. Held = {Begun, new} /\ txs = 2
      BY <1>3, <1>4, <1>5, <2>2 DEF Held
    <3> QED BY <2>2, <3>1 DEF VersionInv, Begun
  <2> QED BY <1>4, <2>1, <2>2
<1>7. OwedInv
  <2>1. CASE owed = {}
    BY <2>1 DEF OwedInv, OffIsRemembered
  <2>2. CASE owed = {"platform"} /\ platform = "inactive" /\ marker = [in |-> TRUE, tx |-> 0]
    BY <2>2 DEF OwedInv, OffIsRemembered
  <2>3. CASE /\ owed = {"platform", "chain"} /\ platform = "inactive"
             /\ marker = [in |-> TRUE, tx |-> 2] /\ pool = {new}
    <3>1. ChainOff
      BY <2>3 DEF ChainOff
    <3> QED BY <2>3, <3>1 DEF OwedInv, OffIsRemembered
  <2> QED BY <2>1, <2>2, <2>3 DEF Init, InboxInit
<1>8. StartInv
  BY DEF Init, StartInv, Starting, Acting
<1> QED BY <1>1, <1>6, <1>7, <1>8 DEF IInv

\* The invariant is inductive.
LEMMA Inductive == IInv /\ [Next]_vars => IInv'
<1> SUFFICES ASSUME IInv, [Next]_vars PROVE IInv'
  OBVIOUS
<1>1. CASE UNCHANGED vars
  BY <1>1 DEF vars, inboxVars, inboxMemory, network, presenceVars, daemon, history,
              IInv, Shape, VersionInv, Held, Building, OwedInv, OffIsRemembered,
              ChainOff, StartInv
<1>2. CASE Start \/ StatusPoll \/ Shutdown \/ Crash
  BY <1>2, StartStep, StatusPollStep, ShutdownStep, CrashStep
<1>3. CASE StartSteps
  BY <1>3, CheckSkipsStep, CheckStep, CheckFailsStep, WaitSeesStep, WaitEndsStep,
     ActivateSkipsStep, ActivateStep, ActivateFailsStep, RepairMayStep,
     RepairDeferredStep, OnReadsStep, OnLandsStep, OnFailsStep, FinishStartStep
  DEF StartSteps
<1>4. CASE ShutdownSteps
  BY <1>4, TurnOffStep, TurnOffFailsStep, MarkOffStep, GateOffStep, OffLandsStep,
     OffFailsStep, RecordOffStep, ExitStep DEF ShutdownSteps
<1>5. CASE (\E s \in Statuses : Command(s)) \/ CommandReads \/ CommandSends
  BY <1>5, CommandStep, CommandReadsStep, CommandSendsStep
<1>6. CASE SweepTimer \/ Sweeps
  BY <1>6, SweepKeeps DEF SweepTimer, Sweeps
<1>7. CASE Network
  BY <1>7, NetworkStep
<1> QED BY <1>1, <1>2, <1>3, <1>4, <1>5, <1>6, <1>7 DEF Next

\* No restart, however it ends, strands the agent silently.
THEOREM OffStaysRemembered == Spec => []OffIsRemembered
<1>1. IInv => OffIsRemembered
  BY DEF IInv, OwedInv
<1> QED BY <1>1, Initially, Inductive, PTL DEF Spec

-----------------------------------------------------------------------------
(* One write at a time *)

\* While the network holds a write the sweep was told of, the sweep remembers
\* it, and the gate of its next cycle waits for it.  A tally that is sent comes
\* alone.
WriteInv ==
    /\ \A p \in pool : p.tx # identity.tx
    /\ heard # 0 => lastWrite = heard /\ \E p \in pool : p.tx = heard
    /\ sweep.at = "gate" /\ heard # 0 => sweep.tx = heard
    /\ sweep.at \in {"read", "send", "ack"} => heard = 0
    /\ sweep.at \in {"read", "send"} => sweep.tx = 0
    /\ sweep.at = "send" \/ (sweep.at = "ack" /\ sweep.tx # 0)
          => sweep.tally = {} \/ sweep.batch = {}

\* A cycle has its fields.
LEMMA CycleIs ==
    ASSUME NEW a, NEW v, NEW t, NEW b, NEW x, NEW r, sweep' = Cycle(a, v, t, b, x, r)
    PROVE  /\ sweep'.at = a /\ sweep'.tally = t
           /\ sweep'.batch = b /\ sweep'.tx = x
BY DEF Cycle

\* Nothing the sweep knows of changes.
LEMMA WriteStays ==
    ASSUME WriteInv, UNCHANGED <<network, lastWrite, heard, sweep>>
    PROVE  WriteInv'
BY DEF WriteInv, network

\* The last write is forgotten, with what is known of it.
LEMMA WriteForgotten ==
    ASSUME WriteInv, UNCHANGED <<network, sweep>>, heard' = 0
    PROVE  WriteInv'
BY DEF WriteInv, network

\* The unconfirmed version is gone, as is what is known of it.
LEMMA WriteConfirms ==
    ASSUME WriteInv, UNCHANGED sweep, pool' = {}, heard' = 0
    PROVE  WriteInv'
BY DEF WriteInv

\* The process is gone.
LEMMA WriteGone ==
    ASSUME WriteInv, UNCHANGED network, sweep' = Quiet, heard' = 0
    PROVE  WriteInv'
<1>1. sweep'.at = "idle"
  BY CycleIs DEF Quiet
<1> QED BY <1>1 DEF WriteInv, network

\* Another writer's version lands: the sweep's last write is confirmed by then.
LEMMA NewVersion ==
    ASSUME VersionInv, WriteInv, NEW r, NEW s, NEW I, Lands(r, s, I)
    PROVE  heard = 0 /\ \A p \in pool' : p.tx # identity'.tx
<1>1. pool = {} /\ identity' = identity
  BY DEF Lands, Refused
<1>2. \A p \in pool' : p.tx = txs + 1
  BY DEF Lands
<1>3. identity.tx \in Nat /\ identity.tx <= txs /\ txs \in Nat
  BY DEF VersionInv, Held
<1> QED BY <1>1, <1>2, <1>3 DEF WriteInv

\* The same, the sweep being elsewhere.
LEMMA OtherLands ==
    ASSUME VersionInv, WriteInv, NEW r, NEW s, NEW I, Lands(r, s, I),
           UNCHANGED <<heard, sweep>>
    PROVE  WriteInv'
<1>1. heard = 0 /\ \A p \in pool' : p.tx # identity'.tx
  BY NewVersion
<1> QED BY <1>1 DEF WriteInv

\* The sweep ends its cycle, or goes on to a job, with nothing unconfirmed.
LEMMA WriteAtJob ==
    ASSUME WriteInv, NEW T, NEW B, NEW f, Proceed(T, B, f),
           \A p \in pool' : p.tx # identity'.tx,
           heard' # 0 => lastWrite' = heard' /\ \E p \in pool' : p.tx = heard',
           heard' = 0 \/ T \cup B = {}
    PROVE  WriteInv'
<1>1. CASE T \cup B = {}
  <2>1. sweep'.at = "idle"
    BY <1>1, CycleIs DEF Proceed, Finish, Quiet
  <2> QED BY <2>1 DEF WriteInv
<1>2. CASE T \cup B # {}
  <2>1. sweep'.at = "read" /\ sweep'.tx = 0
    BY <1>2, CycleIs DEF Proceed
  <2> QED BY <1>2, <2>1 DEF WriteInv
<1> QED BY <1>1, <1>2

\* The gate.
LEMMA WriteAtGate ==
    ASSUME WriteInv, SweepBegins \/ GateDefers \/ GateUnread \/ GatePasses
    PROVE  WriteInv'
<1>1. CASE SweepBegins
  <2>1. sweep'.at = "gate" /\ sweep'.tx = lastWrite
    BY <1>1, CycleIs DEF SweepBegins
  <2>2. UNCHANGED <<identity, pool, lastWrite, heard>>
    BY <1>1 DEF SweepBegins, network
  <2> QED BY <2>1, <2>2 DEF WriteInv
<1>2. CASE GateDefers \/ GateUnread
  <2>1. sweep' = Quiet /\ UNCHANGED <<identity, pool, lastWrite, heard>>
    BY <1>2 DEF GateDefers, GateUnread, Finish, network
  <2>2. sweep'.at = "idle"
    BY <2>1, CycleIs DEF Quiet
  <2> QED BY <2>1, <2>2 DEF WriteInv
<1>3. CASE GatePasses
  <2>1. UNCHANGED <<identity, pool, heard>>
    BY <1>3 DEF GatePasses, network
  <2>2. heard = 0
    BY <1>3 DEF GatePasses, Passes, Confirmed, OutOfTime, WriteInv
  <2>3. PICK T, B, f : Proceed(T, B, f)
    BY <1>3 DEF GatePasses
  <2> QED BY <2>1, <2>2, <2>3, WriteAtJob DEF WriteInv
<1> QED BY <1>1, <1>2, <1>3

\* A job that fails, or that is put off.
LEMMA WriteAfterJob ==
    ASSUME WriteInv, NEW f, AfterJob(f), heard' = 0,
           \A p \in pool' : p.tx # identity'.tx
    PROVE  WriteInv'
BY WriteAtJob DEF AfterJob

\* Reading and sending.
LEMMA WriteAtSend ==
    ASSUME Shape, VersionInv, WriteInv,
           Read \/ ReadFails \/ Send \/ SendRefused \/ SendPoisoned \/ SendFails
    PROVE  WriteInv'
<1>1. heard = 0 /\ heard' = 0 /\ sweep.tx = 0
  BY DEF WriteInv, Read, ReadFails, Send, SendRefused, SendPoisoned, SendFails, Fails
<1>2. \A p \in pool' : p.tx # identity'.tx
  <2>1. CASE UNCHANGED network
    BY <2>1 DEF WriteInv, network
  <2>2. CASE \E r \in sweep.read : \E I : Lands(r, r.status, I)
    BY <2>2, NewVersion
  <2> QED BY <2>1, <2>2 DEF Read, ReadFails, Send, SendRefused, SendPoisoned, SendFails
<1>3. CASE \E f : AfterJob(f)
  BY <1>1, <1>2, <1>3, WriteAfterJob
<1>4. CASE Read /\ sweep' = [sweep EXCEPT !.at = "ack"]
  <2>1. sweep'.at = "ack" /\ sweep'.tx = 0
    BY <1>1, <1>4 DEF Shape, Cycle
  <2> QED BY <1>1, <1>2, <2>1 DEF WriteInv
<1>5. CASE Read /\ sweep' = [sweep EXCEPT !.at = "send", !.read = {identity}]
  <2>1. /\ sweep'.at = "send" /\ sweep'.tx = 0
        /\ sweep'.tally = sweep.tally /\ sweep'.batch = sweep.batch
    BY <1>1, <1>5 DEF Shape, Cycle
  <2>2. CASE sweep.tally = {} \/ sweep.batch = {}
    BY <1>1, <1>2, <2>1, <2>2 DEF WriteInv
  <2>3. CASE sweep.tally # {} /\ sweep.batch # {}
    <3>1. sweep.tally \subseteq identity.items \/ AfterJob(attempts)
      BY <1>5, <2>3 DEF Read
    <3>2. sweep.tally \subseteq identity.items => ToWrite(identity) = {}
      BY <2>3 DEF ToWrite, Job
    <3>3. ToWrite(identity) = {} => sweep'.at = "ack" \/ AfterJob(attempts)
      BY <1>5 DEF Read, Shape, Cycle
    <3> QED BY <1>3, <2>1, <3>1, <3>2, <3>3
  <2> QED BY <2>2, <2>3
<1>6. CASE Send
  <2>1. sweep' = [sweep EXCEPT !.at = "ack", !.tx = txs'] /\ sweep.at = "send"
    BY <1>6 DEF Send
  <2>2. sweep'.at = "ack" /\ sweep'.tally = sweep.tally /\ sweep'.batch = sweep.batch
    BY <2>1 DEF Shape, Cycle
  <2> QED BY <1>1, <1>2, <2>1, <2>2 DEF WriteInv
<1> QED BY <1>3, <1>4, <1>5, <1>6 DEF Read, ReadFails, SendRefused, SendPoisoned, SendFails, Fails

\* The acknowledgement notes the write.
LEMMA WriteAtAck ==
    ASSUME VersionInv, WriteInv, Ack
    PROVE  WriteInv'
<1>1. /\ UNCHANGED <<identity, pool>> /\ heard = 0 /\ sweep.at = "ack"
      /\ heard' = IF \E p \in pool : p.tx = sweep.tx THEN sweep.tx ELSE heard
      /\ lastWrite' = Noted
  BY DEF Ack, WriteInv, network
<1>2. PICK f : AfterJob(f)
  BY DEF Ack
<1>3. CASE heard' = 0
  BY <1>1, <1>2, <1>3, WriteAfterJob DEF WriteInv
<1>4. CASE heard' # 0
  <2>1. heard' = sweep.tx /\ sweep.tx # 0 /\ lastWrite' = sweep.tx /\ \E p \in pool' : p.tx = heard'
    BY <1>1, <1>4 DEF Noted
  <2>2. sweep.tally = {} \/ sweep.batch = {}
    BY <1>1, <2>1 DEF WriteInv
  <2>3. {} \cup (IF sweep.tally # {} THEN sweep.batch ELSE {}) = {}
    BY <2>2
  <2>4. \A p \in pool' : p.tx # identity'.tx
    BY <1>1 DEF WriteInv
  <2> QED BY <1>2, <2>1, <2>3, <2>4, WriteAtJob DEF AfterJob
<1> QED BY <1>3, <1>4

\* Every step keeps what the sweep knows of its last write true.
LEMMA WriteInductive ==
    ASSUME IInv, WriteInv, [Next]_vars
    PROVE  WriteInv'
<1> USE DEF IInv
<1>1. CASE UNCHANGED vars
  BY <1>1, WriteStays DEF vars, inboxVars, inboxMemory
<1>2. CASE Start \/ StatusPoll \/ Shutdown
  BY <1>2, WriteStays DEF Start, StatusPoll, Shutdown, inboxVars, inboxMemory
<1>3. CASE Crash \/ Exit
  BY <1>3, WriteGone DEF Crash, Exit, Gone
<1>4. CASE CheckSkips \/ Check \/ CheckFails \/ WaitSees \/ WaitEnds \/ ActivateSkips
  BY <1>4, WriteStays DEF CheckSkips, Check, CheckFails, WaitSees, WaitEnds, ActivateSkips,
     inboxVars, inboxMemory
<1>5. CASE Activate \/ ActivateFails \/ RepairDeferred \/ OnReads \/ OnFails \/ FinishStart
  BY <1>5, WriteStays DEF Activate, ActivateFails, RepairDeferred, OnReads, OnFails,
     FinishStart, inboxVars, inboxMemory
<1>6. CASE RepairMay
  BY <1>6, WriteStays, WriteForgotten DEF RepairMay
<1>7. CASE OnLands \/ OffLands
  BY <1>7, OtherLands DEF OnLands, OffLands, inboxMemory
<1>8. CASE TurnOff \/ TurnOffFails \/ MarkOff \/ OffFails \/ RecordOff
  BY <1>8, WriteStays DEF TurnOff, TurnOffFails, MarkOff, OffFails, RecordOff, inboxVars, inboxMemory
<1>9. CASE GateOff
  BY <1>9, WriteForgotten DEF GateOff
<1>10. CASE (\E s \in Statuses : Command(s)) \/ CommandReads
  BY <1>10, WriteStays DEF Command, CommandReads, inboxVars, inboxMemory
<1>11. CASE CommandSends
  BY <1>11, WriteStays, OtherLands DEF CommandSends, inboxMemory
<1>12. CASE SweepTimer \/ Sweeps
  BY <1>12, WriteAtGate, WriteAtSend, WriteAtAck DEF SweepTimer, Sweeps, SweepGoesOn
<1>13. CASE Network
  BY <1>13, WriteConfirms DEF Network, Confirm, Expire, inboxMemory
<1> QED BY <1>1, <1>2, <1>3, <1>4, <1>5, <1>6, <1>7, <1>8, <1>9, <1>10, <1>11, <1>12, <1>13
        DEF Next, StartSteps, ShutdownSteps

\* A sweep never builds on an identity with an unconfirmed write of an earlier
\* sweep of the same process that was told of it.
THEOREM SweepsWriteInTurn == Spec => []OneWriteAtATime
<1>1. Init => WriteInv
  <2>1. ASSUME Init PROVE sweep.at = "idle" /\ heard = 0 /\ \A p \in pool : p.tx # identity.tx
    BY <2>1 DEF Init, InboxInit, Quiet, Cycle, Begun
  <2> QED BY <2>1 DEF WriteInv
<1>2. IInv /\ WriteInv /\ [Next]_vars => WriteInv'
  BY WriteInductive
<1>3. WriteInv => OneWriteAtATime
  BY DEF WriteInv, OneWriteAtATime
<1> QED BY <1>1, <1>2, <1>3, Initially, Inductive, PTL DEF Spec

-----------------------------------------------------------------------------
(* A dispatcher that is up has its agent for hire, or nobody was kept in the *)
(* dark.                                                                     *)

\* The chain's axis is off or about to be, the operator wants the agent active,
\* no command is under way, and nobody was told.
Astray == wish = "active" /\ cli.at = "off" /\ ~told /\ ChainOff

\* Every version gives a status; a command carries out the last wish.
StatusInv ==
    /\ \A v \in Held : v.status \in Statuses
    /\ wish \in Statuses
    /\ cli.at # "off" => cli.status = wish

\* What a start has seen active is active, and it turns on what is not.
PlatformInv ==
    wish = "active" =>
       /\ at \in Starting /\ seen.platform = "active" => platform = "active"
       /\ at \in Acting \ {"activate"} => platform = "active" \/ told
       /\ at \in {"up", "note"} => platform = "active" \/ marker.in \/ told

\* An agent that is off on-chain is in the marker, and a start that means to
\* forget the marker has seen it.
ChainInv ==
    /\ at \in {"gateOff", "sendOff", "recordOff"} => marker.in
    /\ Astray => marker.in
    /\ at \in {"check", "wait"} /\ Astray /\ identity.status # "inactive"
          => boot.tx # 0 /\ \E p \in pool : p.tx = boot.tx
    /\ at \in Acting /\ boot.restored /\ ~boot.unresolved /\ Astray
          => seen.chain = "inactive" /\ identity.status = "inactive"

BackInv == StatusInv /\ PlatformInv /\ ChainInv

\* What is not read from the identity was held before.
LEMMA HeldKept ==
    ASSUME UNCHANGED network, Building' \subseteq Building \cup {identity}
    PROVE  Held' \subseteq Held
BY DEF Held, network

\* A version that lands adds one with the status it gives.
LEMMA HeldLands ==
    ASSUME StatusInv, NEW r, NEW s \in Statuses, NEW I, Lands(r, s, I),
           Building' \subseteq Building
    PROVE  \A v \in Held' : v.status \in Statuses
<1> DEFINE new == [tx |-> txs + 1, status |-> s, items |-> I]
<1>1. Held' \subseteq Held \cup {new} /\ new.status = s
  BY DEF Held, Lands
<1> HIDE DEF new
<1> QED BY <1>1 DEF StatusInv

\* Every version that anybody holds gives a status.
LEMMA StatusNext ==
    ASSUME IInv, StatusInv, [Next]_vars
    PROVE  StatusInv'
<1> DEFINE Same == UNCHANGED <<wish, cli>>
           Reads == UNCHANGED network /\ Building' \subseteq Building \cup {identity}
<1>a. Same /\ Reads => StatusInv'
  BY HeldKept DEF StatusInv
<1>b. ASSUME NEW r, NEW s \in Statuses, NEW I, Lands(r, s, I), Building' \subseteq Building, Same
      PROVE  StatusInv'
  BY <1>b, HeldLands DEF StatusInv
<1> USE DEF Building, inboxVars, inboxMemory, presenceVars, daemon, history, network
<1>1. CASE UNCHANGED vars
  BY <1>1, <1>a DEF vars
<1>2. CASE Start \/ StatusPoll \/ Shutdown
  BY <1>2, <1>a DEF Start, StatusPoll, Shutdown
<1>3. CASE Crash \/ Exit
  BY <1>3, <1>a DEF Crash, Exit, Gone, Quiet, Cycle
<1>4. CASE CheckSkips \/ Check \/ CheckFails \/ WaitSees \/ WaitEnds \/ ActivateSkips
  BY <1>4, <1>a DEF CheckSkips, Check, CheckFails, WaitSees, WaitEnds, ActivateSkips
<1>5. CASE Activate \/ ActivateFails \/ RepairDeferred \/ OnReads \/ OnFails \/ FinishStart
  BY <1>5, <1>a DEF Activate, ActivateFails, RepairDeferred, OnReads, OnFails, FinishStart
<1>6. CASE RepairMay
  BY <1>6, <1>a DEF RepairMay
<1>7. CASE OnLands \/ OffLands
  BY <1>7, <1>b DEF OnLands, OffLands, Statuses
<1>8. CASE TurnOff \/ TurnOffFails \/ MarkOff \/ OffFails \/ RecordOff
  BY <1>8, <1>a DEF TurnOff, TurnOffFails, MarkOff, OffFails, RecordOff
<1>9. CASE GateOff
  BY <1>9, <1>a DEF GateOff
<1>10. ASSUME NEW s \in Statuses, Command(s) PROVE StatusInv'
  <2>1. cli'.at = "read" /\ cli'.status = s /\ cli'.read = {} /\ wish' = s
    BY <1>10 DEF Command
  <2>2. Reads
    BY <1>10, <2>1 DEF Command
  <2> QED BY <2>1, <2>2, HeldKept DEF StatusInv
<1>11. CASE CommandReads
  <2>1. cli' = [cli EXCEPT !.at = "send", !.read = {identity}]
        /\ UNCHANGED <<inboxVars, draft, wish>> /\ cli.at = "read"
    BY <1>11 DEF CommandReads
  <2>2. cli'.status = cli.status /\ cli'.read = {identity} /\ wish' = wish
    BY <2>1 DEF IInv, Shape
  <2>3. Reads
    BY <2>1, <2>2
  <2> QED BY <2>1, <2>2, <2>3, HeldKept DEF StatusInv
<1>12. CASE CommandSends
  <2>1. cli' = [cli EXCEPT !.at = "off", !.read = {}] /\ UNCHANGED <<sweep, draft, wish>>
        /\ cli.at = "send"
    BY <1>12 DEF CommandSends
  <2>2. cli'.at = "off" /\ cli'.read = {}
    BY <2>1 DEF IInv, Shape
  <2>3. Building' \subseteq Building
    BY <2>1, <2>2
  <2>4. cli.status \in Statuses
    BY <2>1 DEF StatusInv
  <2>5. \A v \in Held' : v.status \in Statuses
    <3>1. CASE UNCHANGED network
      BY <2>3, <3>1, HeldKept DEF StatusInv
    <3>2. CASE \E r \in cli.read : Lands(r, cli.status, r.items)
      BY <2>3, <2>4, <3>2, HeldLands
    <3> QED BY <1>12, <3>1, <3>2 DEF CommandSends
  <2> QED BY <2>1, <2>2, <2>5 DEF StatusInv
<1>13. CASE SweepTimer \/ Sweeps
  <2>1. UNCHANGED <<draft, wish, cli>>
    BY <1>13 DEF SweepTimer, Sweeps
  <2>2. SweepMoves
    <3>1. SweepShape
      BY DEF IInv, Shape, SweepShape
    <3> QED BY <1>13, <3>1, GateMoves, ReadMoves, SendMoves, AckMoves
            DEF SweepTimer, Sweeps, SweepGoesOn
  <2>3. CASE UNCHANGED network /\ sweep'.read \subseteq sweep.read \cup {identity}
    BY <2>1, <2>3, <1>a
  <2>4. ASSUME NEW r \in sweep.read, NEW I, Lands(r, r.status, I), sweep'.read \subseteq sweep.read
        PROVE  StatusInv'
    <3>1. r.status \in Statuses
      BY DEF StatusInv, Held
    <3> QED BY <2>1, <2>4, <3>1, <1>b
  <2> QED BY <2>2, <2>3, <2>4 DEF SweepMoves
<1>14. CASE Network
  <2>1. Held' \subseteq Held /\ Same
    BY <1>14 DEF Network, Confirm, Expire, Held
  <2> QED BY <2>1 DEF StatusInv
<1> QED BY <1>1, <1>2, <1>3, <1>4, <1>5, <1>6, <1>7, <1>8, <1>9, <1>10, <1>11, <1>12, <1>13, <1>14
        DEF Next, StartSteps, ShutdownSteps

\* The platform's axis follows the operator's wish through every start.
LEMMA PlatformNext ==
    ASSUME IInv, StatusInv, PlatformInv, [Next]_vars
    PROVE  PlatformInv'
<1> USE DEF PlatformInv, Starting, Acting, inboxVars, presenceVars, daemon, history
<1>0. boot = [marked |-> boot.marked, tx |-> boot.tx, restored |-> boot.restored,
              unresolved |-> boot.unresolved, mode |-> boot.mode, sent |-> boot.sent]
      /\ seen = [platform |-> seen.platform, chain |-> seen.chain]
      /\ cli = [at |-> cli.at, status |-> cli.status, read |-> cli.read]
  BY DEF IInv, Shape
<1>1. CASE UNCHANGED vars
  BY <1>1 DEF vars
<1>2. CASE Start \/ StatusPoll \/ Shutdown
  BY <1>2, <1>0 DEF Start, StatusPoll, Shutdown, Unseen
<1>3. CASE Crash \/ Exit
  BY <1>3 DEF Crash, Exit, Gone
<1>4. CASE CheckSkips \/ Check \/ CheckFails \/ WaitSees \/ WaitEnds
  BY <1>4, <1>0 DEF CheckSkips, Check, CheckFails, WaitSees, WaitEnds, IInv, StartInv
<1>5. CASE ActivateSkips \/ Activate \/ ActivateFails
  BY <1>5, <1>0 DEF ActivateSkips, Skips, Activate, Activated, ActivateFails
<1>6. CASE RepairMay \/ RepairDeferred \/ OnReads \/ OnFails
  BY <1>6, <1>0 DEF RepairMay, RepairDeferred, OnReads, OnFails
<1>7. CASE OnLands \/ OffLands
  BY <1>7, <1>0 DEF OnLands, OffLands
<1>f. CASE FinishStart
  BY <1>f DEF FinishStart, Unseen
<1>8. CASE TurnOff \/ TurnOffFails \/ MarkOff \/ OffFails \/ RecordOff \/ GateOff
  BY <1>8 DEF TurnOff, TurnOffFails, MarkOff, OffFails, RecordOff, GateOff
<1>9. CASE (\E s \in Statuses : Command(s)) \/ CommandReads \/ CommandSends
  BY <1>9 DEF Command, CommandReads, CommandSends
<1>10. CASE SweepTimer \/ Sweeps \/ Network
  BY <1>10 DEF SweepTimer, Sweeps, Network
<1> QED BY <1>1, <1>2, <1>3, <1>4, <1>5, <1>6, <1>7, <1>f, <1>8, <1>9, <1>10
        DEF Next, StartSteps, ShutdownSteps

\* What a step of the sweep or the network does to the chain's axis: nothing.
LEMMA AxisStays ==
    ASSUME VersionInv, UNCHANGED presenceVars, SweepMoves \/ Confirm \/ Expire
    PROVE  /\ ChainOff' <=> ChainOff
           /\ ChainOff /\ identity.status = "inactive" => identity'.status = "inactive"
           /\ ChainOff /\ identity'.status # "inactive"
                 => UNCHANGED <<identity, pool>>
<1>1. CASE UNCHANGED network
  BY <1>1 DEF network, ChainOff
<1>2. ASSUME NEW r \in sweep.read, NEW I, Lands(r, r.status, I)
      PROVE  /\ pool = {} /\ identity' = identity
             /\ ChainOff' <=> ChainOff
  <2>1. r.status = identity.status /\ pool = {}
    BY <1>2 DEF Lands, Refused, VersionInv, Held, Building
  <2>2. pool' = {[tx |-> txs + 1, status |-> r.status, items |-> I]} /\ identity' = identity
    BY <1>2 DEF Lands
  <2>3. \A p \in pool' : p.status = r.status
    BY <2>2
  <2> QED BY <2>1, <2>2, <2>3 DEF ChainOff
<1>3. CASE Confirm
  <2>1. identity' \in pool /\ pool' = {}
    BY <1>3 DEF Confirm
  <2> QED BY <2>1 DEF ChainOff, VersionInv
<1>4. CASE Expire
  <2>1. PICK p \in pool : p.status = identity.status
    BY <1>4 DEF Expire
  <2>2. pool' = {} /\ identity' = identity
    BY <1>4 DEF Expire
  <2> QED BY <2>1, <2>2 DEF ChainOff, VersionInv
<1>5. CASE \E r \in sweep.read : \E I : Lands(r, r.status, I)
  BY <1>2, <1>5 DEF ChainOff
<1> QED BY <1>1, <1>3, <1>4, <1>5 DEF SweepMoves

\* An agent that is off on-chain stays in the marker until a start sees it on.
LEMMA ChainNext ==
    ASSUME IInv, StatusInv, ChainInv, [Next]_vars
    PROVE  ChainInv'
<1> USE DEF Starting, Acting, Astray, ChainOff, inboxVars, presenceVars, daemon, history, network
<1>0. boot = [marked |-> boot.marked, tx |-> boot.tx, restored |-> boot.restored,
              unresolved |-> boot.unresolved, mode |-> boot.mode, sent |-> boot.sent]
      /\ seen = [platform |-> seen.platform, chain |-> seen.chain]
      /\ cli = [at |-> cli.at, status |-> cli.status, read |-> cli.read]
  BY DEF IInv, Shape
<1>1. CASE UNCHANGED vars
  BY <1>1 DEF vars, ChainInv
<1>2. CASE Start
  <2>1. boot'.restored = FALSE /\ boot'.tx = marker.tx /\ at' = "check"
        /\ UNCHANGED <<identity, pool, marker, wish, cli, told>>
    BY <1>2 DEF Start, Fresh
  <2>2. ASSUME Astray, identity.status # "inactive"
        PROVE  boot'.tx # 0 /\ \E p \in pool : p.tx = boot'.tx
    <3>1. PICK p \in pool : p.status = "inactive"
      BY <2>2
    <3>2. p.tx = marker.tx /\ p.tx # 0
      BY <1>2, <2>2, <3>1 DEF Start, Settled, IInv, VersionInv, Held
    <3> QED BY <2>1, <3>2
  <2> QED BY <2>1, <2>2 DEF ChainInv
<1>3. CASE StatusPoll \/ Shutdown
  BY <1>3, <1>0 DEF StatusPoll, Shutdown, ChainInv
<1>4. CASE Crash \/ Exit
  BY <1>4 DEF Crash, Exit, Gone, ChainInv
<1>5. CASE CheckSkips \/ CheckFails
  BY <1>5 DEF CheckSkips, CheckFails, ChainInv, IInv, StartInv
<1>6. CASE Check
  BY <1>6, <1>0 DEF Check, ChainInv, IInv, StartInv
<1>7. CASE WaitSees
  BY <1>7, <1>0 DEF WaitSees, ChainInv, IInv, VersionInv, Held
<1>8. CASE WaitEnds
  BY <1>8, <1>0 DEF WaitEnds, ChainInv
<1>9. CASE ActivateSkips \/ Activate \/ ActivateFails
  BY <1>9, <1>0 DEF ActivateSkips, Activate, ActivateFails, ChainInv
<1>10. CASE RepairMay \/ RepairDeferred \/ OnReads \/ OnFails
  BY <1>10, <1>0 DEF RepairMay, RepairDeferred, OnReads, OnFails, ChainInv
<1>11. CASE OnLands
  <2>1. pool' # {} /\ \A p \in pool' : p.status = "active"
    BY <1>11 DEF OnLands, Lands
  <2> QED BY <1>11, <2>1 DEF OnLands, ChainInv
<1>12. CASE FinishStart
  <2>1. UNCHANGED <<identity, pool, wish, cli, told>> /\ at' = "up"
    BY <1>12 DEF FinishStart
  <2>2. Astray => marker'.in
    BY <1>12 DEF FinishStart, StillBroken, ChainInv, IInv, StartInv
  <2> QED BY <2>1, <2>2 DEF ChainInv
<1>13. CASE TurnOff \/ TurnOffFails \/ MarkOff \/ OffFails \/ RecordOff \/ GateOff
  BY <1>13 DEF TurnOff, TurnOffFails, MarkOff, OffFails, RecordOff, GateOff, ChainInv
<1>14. CASE OffLands
  BY <1>14 DEF OffLands, ChainInv
<1>15. ASSUME NEW s \in Statuses, Command(s) PROVE ChainInv'
  <2>1. cli'.at = "read"
    BY <1>15 DEF Command
  <2> QED BY <1>15, <2>1 DEF Command, ChainInv
<1>16. CASE CommandReads
  <2>1. cli'.at = "send"
    BY <1>16, <1>0 DEF CommandReads
  <2> QED BY <1>16, <2>1 DEF CommandReads, ChainInv
<1>17. CASE CommandSends
  <2>1. UNCHANGED <<wish, marker, at>> /\ cli.status = wish
    BY <1>17 DEF CommandSends, StatusInv
  <2>2. ~Astray'
    <3>1. CASE \E r \in cli.read : Lands(r, cli.status, r.items)
      <4>1. pool' # {} /\ \A p \in pool' : p.status = cli.status
        BY <3>1 DEF Lands
      <4> QED BY <2>1, <4>1
    <3>2. CASE told' = (told \/ cli.status = "active")
      BY <2>1, <3>2
    <3> QED BY <1>17, <3>1, <3>2 DEF CommandSends
  <2> QED BY <2>1, <2>2 DEF ChainInv
<1>18. CASE SweepTimer \/ Sweeps \/ Network
  <2>1. UNCHANGED presenceVars
    BY <1>18 DEF SweepTimer, Sweeps, Network
  <2>2. SweepMoves \/ Confirm \/ Expire
    <3>1. SweepShape
      BY DEF IInv, Shape, SweepShape
    <3> QED BY <1>18, <3>1, GateMoves, ReadMoves, SendMoves, AckMoves
            DEF SweepTimer, Sweeps, SweepGoesOn, Network
  <2>3. /\ ChainOff' <=> ChainOff
        /\ ChainOff /\ identity.status = "inactive" => identity'.status = "inactive"
        /\ ChainOff /\ identity'.status # "inactive" => UNCHANGED <<identity, pool>>
    BY <2>1, <2>2, AxisStays DEF IInv
  <2> HIDE DEF ChainOff
  <2> QED BY <2>1, <2>3 DEF ChainInv
<1> QED BY <1>1, <1>2, <1>3, <1>4, <1>5, <1>6, <1>7, <1>8, <1>9, <1>10, <1>11, <1>12, <1>13,
           <1>14, <1>15, <1>16, <1>17, <1>18
        DEF Next, StartSteps, ShutdownSteps

\* A dispatcher that is up, with no status write under way, has its agent for
\* hire, unless the operator turned it off, a start or a command reported the
\* failure, or the marker still has the agent and the next start tries again.
THEOREM AgentComesBack == Spec => []ComesBack
<1>1. Init => BackInv
  <2> SUFFICES ASSUME Init PROVE BackInv
    OBVIOUS
  <2>1. at = "down" /\ wish = "active" /\ cli.at = "off" /\ (ChainOff => marker.in)
    BY DEF Init, InboxInit, Begun, ChainOff
  <2>2. \A v \in Held : v.status \in Statuses
    BY DEF Init, InboxInit, Begun, Held, Building, Quiet, Cycle, Statuses
  <2> QED BY <2>1, <2>2 DEF BackInv, StatusInv, PlatformInv, ChainInv, Starting, Acting,
                             Astray, Statuses
<1>2. IInv /\ BackInv /\ [Next]_vars => BackInv'
  BY StatusNext, PlatformNext, ChainNext DEF BackInv
<1>3. BackInv => ComesBack
  BY DEF BackInv, StatusInv, PlatformInv, ChainInv, Astray, ChainOff, ComesBack, Hireable,
         Statuses, Held
<1> QED BY <1>1, <1>2, <1>3, Initially, Inductive, PTL DEF Spec
=============================================================================
