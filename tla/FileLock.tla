------------------------------ MODULE FileLock ------------------------------
(***************************************************************************)
(* The lock file of src/file-lock.js, which guards the credit meter, the   *)
(* deposit ledger and the spend history between processes.  A file names   *)
(* its creator and appears complete or not at all (link); the taking over  *)
(* of a dead holder's lock is behind a second file, the gate.  Each system *)
(* call on the two paths is a step.                                        *)
(*                                                                         *)
(* A file is identified with its creator: its random token only tells the  *)
(* files of one process apart, which never exist at the same time here.    *)
(***************************************************************************)
EXTENDS Naturals

CONSTANTS
    Procs,        \* the processes that take the lock, again and again
    Gone,         \* processes that died before, and may have left files
    LeftGates,    \* those that died inside the gate
    GateDeaths,   \* a process may die inside the gate
    Missing,      \* no file
    MaxCrashes    \* bound: process deaths

ASSUME FileLockAssumption ==
    /\ Procs \cap Gone = {} /\ LeftGates \subseteq Gone
    /\ Missing \notin Procs \cup Gone
    /\ GateDeaths \in BOOLEAN
    /\ MaxCrashes \in Nat

VARIABLES
    lock, gate,   \* the two paths: the creator of the file there
    aside,        \* the gate a process has renamed to its own name
    orphan,       \* what a process read in the gate it judged dead
    won,          \* what _stealStale returns after the gate is removed
    at,           \* the next system call of a process
    alive,        \* the processes that kill(pid, 0) finds
    crashes

vars == <<lock, gate, aside, orphan, won, at, alive, crashes>>
paths == <<lock, gate, aside>>

File == Procs \cup Gone
Path == File \cup {Missing}

Points ==
    {"idle", "publish", "read", "gate", "judge", "rename", "prove", "putback",
     "regate", "look", "compete", "install", "readback", "ungate", "retry",
     "held", "check", "unlink", "dead"}

Init ==
    /\ lock \in Gone \cup {Missing} /\ gate \in LeftGates \cup {Missing}
    /\ aside = [p \in Procs |-> Missing]
    /\ orphan = [p \in Procs |-> Missing]
    /\ won = [p \in Procs |-> FALSE]
    /\ at = [p \in Procs |-> "idle"]
    /\ alive = Procs
    /\ crashes = 0

\* Inside the gate.
Stealing == {"look", "compete", "install", "readback", "ungate"}

Goto(p, point) == at' = [at EXCEPT ![p] = point]
Keep == UNCHANGED <<orphan, won, alive, crashes>>

-----------------------------------------------------------------------------
(* acquireFileLock, acquireFileLockSync: the loop *)

Begin(p) ==
    /\ at[p] = "idle"
    /\ Goto(p, "publish")
    /\ UNCHANGED paths /\ Keep

\* _publishExclusive(lockPath, token).
Publish(p) ==
    /\ at[p] = "publish"
    /\ IF lock = Missing
       THEN lock' = p /\ Goto(p, "held")
       ELSE lock' = lock /\ Goto(p, "read")
    /\ UNCHANGED <<gate, aside>> /\ Keep

\* A path that is gone by now counts as stale.
Read(p) ==
    /\ at[p] = "read"
    /\ Goto(p, IF lock \in alive THEN "retry" ELSE "gate")
    /\ UNCHANGED paths /\ Keep

\* Again, or the deadline has passed.
Retry(p) ==
    /\ at[p] = "retry"
    /\ Goto(p, "publish") \/ Goto(p, "idle")
    /\ UNCHANGED paths /\ Keep

-----------------------------------------------------------------------------
(* _stealStale *)

PublishGate(p) ==
    /\ at[p] \in {"gate", "regate"}
    /\ IF gate = Missing
       THEN gate' = p /\ Goto(p, "look")
       ELSE gate' = gate /\ Goto(p, IF at[p] = "gate" THEN "judge" ELSE "retry")
    /\ UNCHANGED <<lock, aside>> /\ Keep

\* Mutant: a gate that exists is never reclaimed.
JudgeGateStandDown(p) ==
    /\ at[p] = "judge"
    /\ Goto(p, "retry")
    /\ UNCHANGED paths /\ Keep

JudgeGate(p) ==
    /\ at[p] = "judge"
    /\ IF gate \in alive \cup {Missing}
       THEN orphan' = orphan /\ Goto(p, "retry")
       ELSE orphan' = [orphan EXCEPT ![p] = gate] /\ Goto(p, "rename")
    /\ UNCHANGED <<paths, won, alive, crashes>>

RenameGate(p) ==
    /\ at[p] = "rename"
    /\ IF gate = Missing
       THEN UNCHANGED <<gate, aside>> /\ Goto(p, "retry")
       ELSE /\ aside' = [aside EXCEPT ![p] = gate]
            /\ gate' = Missing
            /\ Goto(p, "prove")
    /\ lock' = lock /\ Keep

\* Was it the file that was judged?  Then it is removed.
ProveGate(p) ==
    /\ at[p] = "prove"
    /\ IF aside[p] = orphan[p]
       THEN aside' = [aside EXCEPT ![p] = Missing] /\ Goto(p, "regate")
       ELSE aside' = aside /\ Goto(p, "putback")
    /\ UNCHANGED <<lock, gate>> /\ Keep

\* renameSync replaces whatever is at the path.
PutGateBack(p) ==
    /\ at[p] = "putback"
    /\ gate' = aside[p] /\ aside' = [aside EXCEPT ![p] = Missing]
    /\ Goto(p, "retry")
    /\ lock' = lock /\ Keep

\* Mutant: a free path is taken by the rename, too.
LookAgainRenames(p) ==
    /\ at[p] = "look"
    /\ Goto(p, IF lock \in alive THEN "ungate" ELSE "install")
    /\ UNCHANGED paths /\ Keep

\* The second look, inside the gate.
LookAgain(p) ==
    /\ at[p] = "look"
    /\ Goto(p, IF lock = Missing THEN "compete"
               ELSE IF lock \in alive THEN "ungate" ELSE "install")
    /\ UNCHANGED paths /\ Keep

\* The path was free: it is taken like by anybody else.
Compete(p) ==
    /\ at[p] = "compete"
    /\ lock' = (IF lock = Missing THEN p ELSE lock)
    /\ won' = [won EXCEPT ![p] = lock = Missing]
    /\ Goto(p, "ungate")
    /\ UNCHANGED <<gate, aside, orphan, alive, crashes>>

\* renameSync over the dead holder's file, which replaces whatever is there.
Install(p) ==
    /\ at[p] = "install"
    /\ lock' = p
    /\ Goto(p, "readback")
    /\ UNCHANGED <<gate, aside>> /\ Keep

ReadBack(p) ==
    /\ at[p] = "readback"
    /\ won' = [won EXCEPT ![p] = lock = p]
    /\ Goto(p, "ungate")
    /\ UNCHANGED <<paths, orphan, alive, crashes>>

\* finally: the gate is removed, whoever's it is.
RemoveGate(p) ==
    /\ at[p] = "ungate"
    /\ gate' = Missing
    /\ won' = [won EXCEPT ![p] = FALSE]
    /\ Goto(p, IF won[p] THEN "held" ELSE "retry")
    /\ UNCHANGED <<lock, aside, orphan, alive, crashes>>

-----------------------------------------------------------------------------
(* releaseFileLock: only the own token is unlinked *)

Release(p) ==
    /\ at[p] = "held"
    /\ Goto(p, "check")
    /\ UNCHANGED paths /\ Keep

CheckToken(p) ==
    /\ at[p] = "check"
    /\ Goto(p, IF lock = p THEN "unlink" ELSE "idle")
    /\ UNCHANGED paths /\ Keep

Unlink(p) ==
    /\ at[p] = "unlink"
    /\ lock' = Missing
    /\ Goto(p, "idle")
    /\ UNCHANGED <<gate, aside>> /\ Keep

-----------------------------------------------------------------------------
Crash(p) ==
    /\ crashes < MaxCrashes
    /\ p \in alive /\ (GateDeaths \/ at[p] \notin Stealing)
    /\ alive' = alive \ {p}
    /\ crashes' = crashes + 1
    /\ Goto(p, "dead")
    /\ UNCHANGED <<paths, orphan, won>>

Steal(p) ==
    \/ PublishGate(p) \/ JudgeGate(p) \/ RenameGate(p) \/ ProveGate(p) \/ PutGateBack(p)
    \/ LookAgain(p) \/ Compete(p) \/ Install(p) \/ ReadBack(p) \/ RemoveGate(p)

Step(p) ==
    \/ Publish(p) \/ Read(p) \/ Retry(p) \/ Steal(p)
    \/ Release(p) \/ CheckToken(p) \/ Unlink(p)

Next == \E p \in Procs : Begin(p) \/ Step(p) \/ Crash(p)

Spec == Init /\ [][Next]_vars

\* A process that has begun goes on, and comes to its end.
Fairness == \A p \in Procs : WF_vars(Begin(p)) /\ WF_vars(Step(p))

FairSpec == Spec /\ Fairness

-----------------------------------------------------------------------------
(* Properties *)

\* The shape of the two paths and of what each process remembers of them.
TypeOK ==
    /\ lock \in Path /\ gate \in Path
    /\ aside \in [Procs -> Path] /\ orphan \in [Procs -> Path]
    /\ won \in [Procs -> BOOLEAN]
    /\ at \in [Procs -> Points]
    /\ alive \subseteq Procs
    /\ crashes \in 0..MaxCrashes

Inside == {p \in Procs : at[p] = "held"}

\* The lock file is a lock: one process at a time is inside, whoever dies when.
Lock == INSTANCE Mutex WITH inside <- Inside
IsMutex == Lock!Spec

\* A gate that was put back after its owner had left it.
GateStuck == gate \in alive /\ at[gate] \notin Stealing

\* A dead holder's lock does not stay for ever while somebody wants it, unless
\* the gate is stuck.
DeadIsReplaced == []<>~(lock \in File \ alive /\ alive # {} /\ ~GateStuck)
=============================================================================
