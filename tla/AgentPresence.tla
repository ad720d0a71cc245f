---------------------------- MODULE AgentPresence ----------------------------
(***************************************************************************)
(* One agent through stops and starts of the dispatcher (cli.js: the start *)
(* command, gracefulShutdown, planAgentActivation, the marker file, the    *)
(* activate and deactivate commands), together with the sweep of its inbox.*)
(*                                                                         *)
(* A buyer can hire the agent when both axes of its status are active: the *)
(* platform's own, set by a signed request, and the one of the on-chain    *)
(* identity.  A shutdown turns the agent off and records that in a file;   *)
(* the next start restores the recorded agent and skips one that is off    *)
(* for another reason.  Status writes and inbox writes build on the same   *)
(* identity, from one process or two.                                      *)
(*                                                                         *)
(* Other agents of the fleet only stretch the time between two steps: a    *)
(* startup that takes more than ten minutes no longer holds the sweep back *)
(* (Slow).  A start that skips the agent is a dispatcher without it, down. *)
(* Left out: the status "disabled" and "invite", J41_NO_STATUS_TOGGLE,     *)
(* skip_status_check, require_finalize, and the drain's waiting.           *)
(***************************************************************************)
EXTENDS InboxSweep

CONSTANTS
    Modes,          \* whether starts and stops write the status on-chain
    Verbs,          \* statuses the operator sets by command
    Slow,           \* a startup may outlast INBOX_STARTUP_GRACE_MS
    LateRecords,    \* an effect on the platform may outlive its record
    MaxStarts       \* bound on starts

ASSUME PresenceAssumption ==
    /\ Modes \subseteq [start : BOOLEAN, stop : BOOLEAN]
    /\ Verbs \subseteq Statuses
    /\ {Slow, LateRecords} \subseteq BOOLEAN
    /\ MaxStarts \in Nat

VARIABLES
    platform,   \* the platform's axis of the agent's status
    marker,     \* shutdown-deactivated.json: the agent, its deactivate's txid
    at,         \* where the dispatcher's main thread is
    boot,       \* what this start read and found, see Fresh
    seen,       \* agentInfo: platformStatus and chainStatus, during a start
    draft,      \* the version setOnChainStatus builds on
    cli,        \* the activate or deactivate command
    wish,       \* history: what the operator asked for last
    owed,       \* history: axes turned off, recorded, and not yet turned on
    told,       \* history: a start or a command reported that it could not activate
    starts

daemon == <<at, boot, seen, draft>>
history == <<wish, owed, told>>
presenceVars == <<platform, marker, daemon, cli, history, starts>>
vars == <<inboxVars, presenceVars>>

Starting == {"check", "wait", "activate", "chainOn", "repair", "sendOn",
             "finish"}
Stopping == {"note", "mark", "gateOff", "sendOff", "recordOff", "drain"}
Axis == Statuses \cup {"unknown"}
Unseen == [platform |-> "unknown", chain |-> "unknown"]
Fresh(marked, tx, mode) ==
    [marked |-> marked, tx |-> tx, restored |-> FALSE, unresolved |-> FALSE,
     mode |-> mode, sent |-> 0]
Boot0 == Fresh(FALSE, 0, [start |-> FALSE, stop |-> FALSE])
NoMark == [in |-> FALSE, tx |-> 0]

TypeOK ==
    /\ InboxTypeOK
    /\ platform \in Statuses /\ wish \in Statuses
    /\ marker \in [in : BOOLEAN, tx : 0 .. txs]
    /\ at \in {"down", "up"} \cup Starting \cup Stopping
    /\ boot \in [marked : BOOLEAN, tx : 0 .. txs, restored : BOOLEAN,
                 unresolved : BOOLEAN, mode : [start : BOOLEAN, stop : BOOLEAN],
                 sent : 0 .. txs]
    /\ seen \in [platform : Axis, chain : Axis]
    /\ draft \subseteq Versions
    /\ cli \in [at : {"off", "read", "send"}, status : Statuses,
                read : SUBSET Versions]
    /\ owed \subseteq {"platform", "chain"} /\ told \in BOOLEAN
    /\ starts \in 0 .. MaxStarts

\* Never started, or left by a stop that wrote nothing on-chain, or left by one
\* that did and is not confirmed yet.
Begun == [tx |-> 1, status |-> "active", items |-> {}]
Init ==
    /\ \/ /\ InboxInit(Begun, {})
          /\ platform = "active" /\ marker = NoMark /\ owed = {}
       \/ /\ InboxInit(Begun, {})
          /\ platform = "inactive" /\ marker = [in |-> TRUE, tx |-> 0]
          /\ owed = {"platform"}
       \/ /\ InboxInit(Begun,
                       {[tx |-> 2, status |-> "inactive", items |-> {}]})
          /\ platform = "inactive" /\ marker = [in |-> TRUE, tx |-> 2]
          /\ owed = {"platform", "chain"}
    /\ at = "down" /\ boot = Boot0
    /\ seen = Unseen
    /\ draft = {} /\ cli = [at |-> "off", status |-> "active", read |-> {}]
    /\ wish = "active" /\ told = FALSE
    /\ starts = 0

\* The chain's axis once everything that is unconfirmed has confirmed.
ChainOff ==
    IF pool = {} THEN identity.status = "inactive"
    ELSE \E p \in pool : p.status = "inactive"

Hireable == platform = "active" /\ identity.status = "active"

\* A status write is accepted by the network: nothing is owed once it is active.
Sent(status) == owed' = IF status = "active" THEN owed \ {"chain"} ELSE owed
Activated == platform' = "active" /\ owed' = owed \ {"platform"}

-----------------------------------------------------------------------------
(* Start *)

\* A deactivate that the marker does not name is confirmed by the next start.
Settled == \A p \in pool : p.status = identity.status \/ p.tx = marker.tx

Start ==
    /\ at = "down" /\ starts < MaxStarts /\ Settled
    /\ \E m \in Modes : boot' = Fresh(marker.in, marker.tx, m)
    /\ seen' = Unseen
    /\ at' = "check" /\ starts' = starts + 1
    /\ UNCHANGED <<inboxVars, platform, marker, draft, cli, history>>

Off == platform = "inactive" \/ identity.status = "inactive"
Restorable == boot.marked

CheckSkips ==
    /\ at = "check" /\ Off /\ ~Restorable
    /\ at' = "down"
    /\ UNCHANGED <<inboxVars, platform, marker, boot, seen, draft, cli, history, starts>>

Check ==
    /\ at = "check" /\ (Off => Restorable)
    /\ seen' = [platform |-> platform, chain |-> identity.status]
    /\ boot' = [boot EXCEPT !.restored = boot.marked]
    /\ at' = IF boot.marked /\ boot.tx # 0 THEN "wait" ELSE "activate"
    /\ UNCHANGED <<inboxVars, platform, marker, draft, cli, history, starts>>

\* The status cannot be read: the agent is included, its status unknown.
CheckFails ==
    /\ at = "check" /\ Trouble
    /\ at' = "activate"
    /\ UNCHANGED <<network, accepted, fate, inboxMemory, heard, platform,
                   marker, boot, seen, draft, cli, history, starts>>

\* The deactivate of the last stop is waited for, by status or by txid.
WaitSees ==
    /\ at = "wait" /\ (identity.status = "inactive" \/ identity.tx = boot.tx)
    /\ seen' = [seen EXCEPT !.chain = "inactive"]
    /\ at' = "activate"
    /\ UNCHANGED <<inboxVars, platform, marker, boot, draft, cli, history, starts>>

\* Three minutes are over.
WaitEnds ==
    /\ at = "wait"
    /\ \E c \in {identity.status, seen.chain} : seen' = [seen EXCEPT !.chain = c]
    /\ boot' = [boot EXCEPT !.unresolved = TRUE, !.tx = 0]
    /\ at' = "activate"
    /\ UNCHANGED <<inboxVars, platform, marker, draft, cli, history, starts>>

\* planAgentActivation
Skips == seen.platform = "active" /\ seen.chain # "inactive" /\ ~boot.mode.start
Repairs == seen.chain = "inactive" /\ ~boot.mode.start

ActivateSkips ==
    /\ at = "activate" /\ Skips
    /\ at' = "finish"
    /\ UNCHANGED <<inboxVars, platform, marker, boot, seen, draft, cli, history, starts>>

Activate ==
    /\ at = "activate" /\ ~Skips
    /\ Activated
    /\ seen' = [seen EXCEPT !.platform = "active"]
    /\ at' = IF boot.mode.start THEN "chainOn" ELSE IF Repairs THEN "repair" ELSE "finish"
    /\ boot' = [boot EXCEPT !.sent = IF Repairs THEN lastWrite ELSE 0]
    /\ UNCHANGED <<inboxVars, marker, draft, cli, wish, told, starts>>

ActivateFails ==
    /\ at = "activate" /\ Trouble
    /\ told' = TRUE
    /\ at' = "finish"
    /\ UNCHANGED <<network, accepted, fate, inboxMemory, heard, platform,
                   marker, boot, seen, draft, cli, wish, owed, starts>>

\* activate({onChain}) goes on to the identity without a look at lastWrite; the
\* repair waits up to 90 seconds for the last write and else gives up.
RepairMay ==
    /\ at = "repair" /\ Passes(boot.sent)
    /\ lastWrite' = IF boot.sent = 0 THEN lastWrite ELSE 0
    /\ heard' = IF boot.sent = 0 THEN heard ELSE 0
    /\ boot' = [boot EXCEPT !.sent = 0]
    /\ draft' = {identity} /\ at' = "sendOn"
    /\ UNCHANGED <<network, accepted, fate, attempts, streak, sweep, troubles,
                   platform, marker, seen, cli, history, starts>>

RepairDeferred ==
    /\ at = "repair" /\ Deferred(boot.sent)
    /\ at' = "finish"
    /\ UNCHANGED <<inboxVars, platform, marker, boot, seen, draft, cli, history, starts>>

OnReads ==
    /\ at = "chainOn"
    /\ draft' = {identity} /\ at' = "sendOn"
    /\ UNCHANGED <<inboxVars, platform, marker, boot, seen, cli, history, starts>>

OnLands ==
    /\ at = "sendOn"
    /\ \E d \in draft : Lands(d, "active", d.items)
    /\ Sent("active")
    /\ seen' = [seen EXCEPT !.chain = "active"]
    /\ lastWrite' = txs'
    /\ draft' = {} /\ at' = "finish"
    /\ UNCHANGED <<accepted, fate, attempts, streak, sweep, troubles, heard,
                   platform, marker, boot, cli, wish, told, starts>>

\* Refused by the network; or no funds, no answer.
OnFails ==
    /\ at = "sendOn"
    /\ \/ (\E d \in draft : Refused(d)) /\ UNCHANGED troubles
       \/ Trouble
    /\ draft' = {} /\ at' = "finish"
    /\ UNCHANGED <<network, accepted, fate, inboxMemory, heard, platform,
                   marker, boot, seen, cli, history, starts>>

\* _finishShutdownMarker, then startupComplete.
\* (Mutants of StillBroken: the chain is not looked at again; a deactivate that
\* was not seen to confirm counts as none.)
StillUnresolved == boot.unresolved
StillInactive == seen.chain = "inactive"

StillBroken == seen.chain = "inactive" \/ boot.unresolved
FinishStart ==
    /\ at = "finish"
    /\ marker' = IF ~boot.marked THEN marker
                 ELSE IF boot.restored /\ ~StillBroken THEN NoMark
                 ELSE [in |-> TRUE, tx |-> boot.tx]
    /\ at' = "up"
    /\ boot' = Fresh(FALSE, 0, [start |-> FALSE, stop |-> boot.mode.stop])
    /\ seen' = Unseen
    /\ UNCHANGED <<inboxVars, platform, draft, cli, history, starts>>

\* startPlatformStatusPoller: of what it reads, only a start makes use.
StatusPoll ==
    /\ at \in Starting \ {"check"}
    /\ seen' = [platform |-> platform, chain |-> identity.status]
    /\ seen' # seen
    /\ UNCHANGED <<inboxVars, platform, marker, at, boot, draft, cli, history, starts>>

StartSteps ==
    \/ CheckSkips \/ Check \/ CheckFails \/ WaitSees \/ WaitEnds
    \/ ActivateSkips \/ Activate \/ ActivateFails
    \/ RepairMay \/ RepairDeferred \/ OnReads \/ OnLands \/ OnFails \/ FinishStart

-----------------------------------------------------------------------------
(* Shutdown *)

Shutdown ==
    /\ at = "up"
    /\ at' = "note"
    /\ UNCHANGED <<inboxVars, platform, marker, boot, seen, draft, cli, history, starts>>

TurnOff ==
    /\ at = "note"
    /\ platform' = "inactive"
    /\ at' = "mark"
    /\ UNCHANGED <<inboxVars, marker, boot, seen, draft, cli, history, starts>>

TurnOffFails ==
    /\ at = "note" /\ Trouble
    /\ platform' \in {platform} \cup (IF LateRecords THEN {"inactive"} ELSE {})
    /\ at' = "drain"
    /\ UNCHANGED <<network, accepted, fate, inboxMemory, heard, marker,
                   boot, seen, draft, cli, history, starts>>

\* writeShutdownDeactivated after each agent.
MarkOff ==
    /\ at = "mark"
    /\ marker' = [in |-> TRUE, tx |-> 0]
    /\ owed' = IF platform = "inactive" THEN owed \cup {"platform"} ELSE owed
    /\ at' = IF boot.mode.stop THEN "gateOff" ELSE "drain"
    /\ UNCHANGED <<inboxVars, platform, boot, seen, draft, cli, wish, told, starts>>

\* The last write is waited for, at most 90 seconds, and forgotten either way.
GateOff ==
    /\ at = "gateOff"
    /\ lastWrite' = 0 /\ heard' = 0
    /\ draft' = {identity} /\ at' = "sendOff"
    /\ UNCHANGED <<network, accepted, fate, attempts, streak, sweep, troubles,
                   platform, marker, boot, seen, cli, history, starts>>

OffLands ==
    /\ at = "sendOff"
    /\ \E d \in draft : Lands(d, "inactive", d.items)
    /\ boot' = [boot EXCEPT !.sent = txs']
    /\ draft' = {} /\ at' = "recordOff"
    /\ UNCHANGED <<accepted, fate, inboxMemory, troubles, heard, platform,
                   marker, seen, cli, history, starts>>

OffFails ==
    /\ at = "sendOff"
    /\ \/ (\E d \in draft : Refused(d)) /\ UNCHANGED troubles
       \/ Trouble
    /\ draft' = {} /\ at' = "drain"
    /\ UNCHANGED <<network, accepted, fate, inboxMemory, heard, platform,
                   marker, boot, seen, cli, history, starts>>

\* The final write of the marker, with the txid.
RecordOff ==
    /\ at = "recordOff"
    /\ marker' = [in |-> TRUE, tx |-> boot.sent]
    /\ owed' = IF ChainOff THEN owed \cup {"chain"} ELSE owed
    /\ boot' = [boot EXCEPT !.sent = 0] /\ at' = "drain"
    /\ UNCHANGED <<inboxVars, platform, seen, draft, cli, wish, told, starts>>

\* The process is gone, and with it the sweep and all memory.
Gone ==
    /\ at' = "down" /\ boot' = Boot0 /\ draft' = {}
    /\ seen' = Unseen
    /\ lastWrite' = 0 /\ heard' = 0
    /\ attempts' = NoFailures /\ streak' = NoStreak /\ sweep' = Quiet
    /\ UNCHANGED <<network, accepted, fate, platform, marker, cli,
                   history, starts>>

Exit == at = "drain" /\ Gone /\ UNCHANGED troubles

\* A crash, a signal during startup, a second one during shutdown, the watchdog.
Crash ==
    /\ at # "down" /\ Trouble
    /\ LateRecords \/ at # "mark"
    /\ Gone

ShutdownSteps ==
    \/ TurnOff \/ TurnOffFails \/ MarkOff \/ GateOff
    \/ OffLands \/ OffFails \/ RecordOff \/ Exit

-----------------------------------------------------------------------------
(* The operator's commands, in a process of their own *)

Command(status) ==
    /\ cli.at = "off" /\ status \in Verbs /\ Trouble
    /\ platform' = status /\ wish' = status
    /\ owed' = {}
    /\ cli' = [at |-> "read", status |-> status, read |-> {}]
    /\ UNCHANGED <<network, accepted, fate, inboxMemory, heard, marker, daemon,
                   told, starts>>

CommandReads ==
    /\ cli.at = "read"
    /\ cli' = [cli EXCEPT !.at = "send", !.read = {identity}]
    /\ UNCHANGED <<inboxVars, platform, marker, daemon, history, starts>>

\* Without a transaction the activate command ends with an error.
CommandSends ==
    /\ cli.at = "send"
    /\ \E r \in cli.read :
          \/ Lands(r, cli.status, r.items) /\ Sent("active") /\ UNCHANGED told
          \/ /\ Refused(r) /\ UNCHANGED <<network, owed>>
             /\ told' = (told \/ cli.status = "active")
    /\ cli' = [cli EXCEPT !.at = "off", !.read = {}]
    /\ UNCHANGED <<accepted, fate, inboxMemory, troubles, heard, platform,
                   marker, daemon, wish, starts>>

-----------------------------------------------------------------------------
(* The sweep beside it: a slow startup does not hold it back, and a shutdown *)
(* does not stop one that goes from agent to agent.                          *)

MaySweep == at \in Stopping \cup {"up"} \/ (Slow /\ at \in Starting \ {"check"})

SweepTimer == MaySweep /\ SweepBegins /\ UNCHANGED presenceVars
Sweeps == SweepGoesOn /\ UNCHANGED presenceVars
Network == (Confirm \/ Expire) /\ UNCHANGED presenceVars

Next ==
    \/ Start \/ StartSteps \/ StatusPoll
    \/ Shutdown \/ ShutdownSteps \/ Crash
    \/ \E s \in Statuses : Command(s)
    \/ CommandReads \/ CommandSends
    \/ SweepTimer \/ Sweeps \/ Network

Spec == Init /\ [][Next]_vars

\* The timer fires again and again, a sweep goes on, and the network confirms
\* what it holds.
Fairness ==
    /\ WF_vars(SweepTimer) /\ WF_vars(Sweeps)
    /\ SF_vars(GatePasses /\ UNCHANGED presenceVars)
    /\ WF_vars(Confirm /\ UNCHANGED presenceVars)

FairSpec == Spec /\ Fairness

-----------------------------------------------------------------------------
(* Properties *)

\* What a shutdown turned off and recorded stays in the marker until it is
\* turned on again, by a start or by the operator, or a start or a command has
\* reported that it could not: no restart strands the agent silently.
OffIsRemembered == owed # {} => marker.in \/ told

\* A dispatcher that is up, with no status write under way, has its agent for
\* hire again, unless the operator turned it off, a start or the activate
\* command reported the failure, or the marker still has it and the next start
\* tries again.
ComesBack ==
    at = "up" /\ pool = {} /\ cli.at = "off" /\ wish = "active"
        => Hireable \/ marker.in \/ told

\* Every inbox item is accepted or quarantined by a dispatcher that stays up,
\* whatever the network refuses, loses or delays.
EveryItemSettles ==
    <>[](at = "up") => \A i \in Items : <>(i \in accepted \/ Dead(i))

\* A sweep does not build on an identity with an unconfirmed write that an
\* earlier sweep of this process made and was told of.
OneWriteAtATime == sweep.at \in {"read", "send"} => heard = 0
=============================================================================
