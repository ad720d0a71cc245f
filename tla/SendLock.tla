------------------------------ MODULE SendLock ------------------------------
(***************************************************************************)
(* The lock around an outbound send (acquireSendLock, releaseSendLock in   *)
(* src/cli.js): one file per job that names its holder, a second file, the *)
(* gate, around the taking over of a dead holder's lock.  Each system call *)
(* on these files is a step; the processes are the daemon and the          *)
(* operator's commands.  Two tasks of one process do not appear: the       *)
(* function is synchronous, and a lock of the own process is alive.        *)
(*                                                                         *)
(* A file is created empty and then written.  `blank' is a file its        *)
(* creator has not written yet, `torn' one whose write failed; both read   *)
(* as the empty string.                                                    *)
(***************************************************************************)
EXTENDS Naturals, FiniteSets

CONSTANTS
    Procs,        \* the processes that want to send
    Gone,         \* processes that died before, and may have left files
    Missing,      \* no file
    Leftovers,    \* gate files that may have been left: subset of GateKinds
    Again,        \* the processes that come again after a send (a daemon)
    Failing,      \* the writes that may fail: "write", "fill", "tag"
    MaxCrashes    \* bound: process deaths

GateKinds == {"none", "full", "blank"}

ASSUME SendLockAssumption ==
    /\ Procs \cap Gone = {}
    /\ Gone # {}
    /\ Leftovers \subseteq GateKinds /\ Leftovers # {}
    /\ Again \subseteq Procs /\ Failing \subseteq {"write", "fill", "tag"}
    /\ MaxCrashes \in Nat
    /\ Missing \notin [by : Procs \cup Gone, text : {"blank", "torn", "full"}, old : BOOLEAN]

VARIABLES
    lock, gate,   \* the two paths
    aside,        \* the gate a process has renamed to its own name
    orphan,       \* what a process read in the gate it judged dead
    won,          \* what acquireSendLock returns after the gate is removed
    at,           \* the next system call of a process
    alive,        \* the processes that kill(pid, 0) finds
    crashes

vars == <<lock, gate, aside, orphan, won, at, alive, crashes>>
paths == <<lock, gate, aside>>
private == <<orphan, won>>

File == [by : Procs \cup Gone, text : {"blank", "torn", "full"}, old : BOOLEAN]
Path == File \cup {Missing}

Blank(p) == [by |-> p, text |-> "blank", old |-> FALSE]
Full(p) == [by |-> p, text |-> "full", old |-> FALSE]
Torn(p) == [by |-> p, text |-> "torn", old |-> FALSE]
Aged(f) == [f EXCEPT !.old = TRUE]

Empty == "empty"

\* What a reader finds in a file.
Content(f) == IF f.text = "full" THEN f.by ELSE Empty

\* The file that p has created and not written: the write goes to the file,
\* wherever it has been renamed to.
Written(path, p, f) == IF path = Blank(p) THEN f ELSE path

Points ==
    {"idle", "write", "inspect", "gate", "tag", "judge", "rename", "prove",
     "putback", "regate", "steal", "unlink", "recreate", "fill", "confirm",
     "ungate", "held", "done", "dead"}

\* Inside the gate.
Stealing == {"steal", "unlink", "recreate", "fill", "confirm", "ungate"}

Init ==
    \E g \in Gone :
        /\ lock \in {Missing, Full(g)}
        /\ gate \in (IF "none" \in Leftovers THEN {Missing} ELSE {})
              \cup (IF "full" \in Leftovers THEN {Full(g)} ELSE {})
              \cup (IF "blank" \in Leftovers THEN {Aged(Blank(g))} ELSE {})
        /\ aside = [p \in Procs |-> Missing]
        /\ orphan = [p \in Procs |-> Empty]
        /\ won = [p \in Procs |-> FALSE]
        /\ at = [p \in Procs |-> "idle"]
        /\ alive = Procs
        /\ crashes = 0

Goto(p, point) == at' = [at EXCEPT ![p] = point]
Keep == UNCHANGED <<private, alive, crashes>>

-----------------------------------------------------------------------------
(* acquireSendLock *)

\* openSync(lockPath, 'wx').
Create(p) ==
    /\ at[p] = "idle"
    /\ IF lock = Missing
       THEN lock' = Blank(p) /\ Goto(p, "write")
       ELSE lock' = lock /\ Goto(p, "inspect")
    /\ UNCHANGED <<gate, aside>> /\ Keep

\* writeSync into the file p has just created: the lock, or the gate; a failure
\* throws out of the plain acquire, gives up the gate, or leaves the steal.
WriteLock(p) ==
    /\ at[p] \in {"write", "fill"}
    /\ lock' = Written(lock, p, Full(p)) /\ gate' = gate /\ aside' = aside
    /\ Goto(p, IF at[p] = "write" THEN "held" ELSE "confirm")
    /\ Keep

WriteGate(p) ==
    /\ at[p] = "tag"
    /\ lock' = lock
    /\ gate' = Written(gate, p, Full(p))
    /\ aside' = [q \in Procs |-> Written(aside[q], p, Full(p))]
    /\ Goto(p, "steal")
    /\ Keep

WriteFails(p) ==
    /\ at[p] \in Failing
    /\ lock' = Written(lock, p, Torn(p))
    /\ gate' = Written(gate, p, Torn(p))
    /\ aside' = [q \in Procs |-> Written(aside[q], p, Torn(p))]
    /\ Goto(p, IF at[p] = "fill" THEN "ungate" ELSE "idle")
    /\ Keep

\* The first look at the holder: empty, unreadable and gone count as stale.
Inspect(p) ==
    /\ at[p] = "inspect"
    /\ IF lock # Missing /\ Content(lock) \in alive
       THEN Goto(p, "idle")
       ELSE Goto(p, "gate")
    /\ UNCHANGED paths /\ Keep

\* openSync(gatePath, 'wx'), also after an orphaned gate has been removed.
OpenGate(p) ==
    /\ at[p] \in {"gate", "regate"}
    /\ IF gate = Missing
       THEN gate' = Blank(p) /\ Goto(p, "tag")
       ELSE gate' = gate /\ Goto(p, IF at[p] = "gate" THEN "judge" ELSE "idle")
    /\ UNCHANGED <<lock, aside>> /\ Keep

\* Is the owner of the gate dead?  Without an owner the file's age decides.
JudgeGate(p) ==
    /\ at[p] = "judge"
    /\ IF gate # Missing /\ Content(gate) \notin alive
          /\ (Content(gate) = Empty => gate.old)
       THEN /\ orphan' = [orphan EXCEPT ![p] = Content(gate)]
            /\ Goto(p, "rename")
       ELSE orphan' = orphan /\ Goto(p, "idle")
    /\ UNCHANGED <<paths, won, alive, crashes>>

RenameGate(p) ==
    /\ at[p] = "rename"
    /\ IF gate = Missing
       THEN UNCHANGED <<gate, aside>> /\ Goto(p, "idle")
       ELSE /\ aside' = [aside EXCEPT ![p] = gate]
            /\ gate' = Missing
            /\ Goto(p, "prove")
    /\ lock' = lock /\ Keep

\* Mutant: without the proof that the judged file was moved.
ProveGateTrusting(p) ==
    /\ at[p] = "prove"
    /\ aside' = [aside EXCEPT ![p] = Missing] /\ Goto(p, "regate")
    /\ UNCHANGED <<lock, gate>> /\ Keep

\* Was it the file that was judged?  Then it is removed.
ProveGate(p) ==
    /\ at[p] = "prove"
    /\ IF Content(aside[p]) = orphan[p]
       THEN aside' = [aside EXCEPT ![p] = Missing] /\ Goto(p, "regate")
       ELSE aside' = aside /\ Goto(p, "putback")
    /\ UNCHANGED <<lock, gate>> /\ Keep

\* renameSync replaces whatever is at the path.
PutGateBack(p) ==
    /\ at[p] = "putback"
    /\ gate' = aside[p] /\ aside' = [aside EXCEPT ![p] = Missing]
    /\ Goto(p, "idle")
    /\ lock' = lock /\ Keep

\* Mutant: an empty file is young for ever.
LookAgainYoung(p) ==
    /\ at[p] = "steal"
    /\ IF lock = Missing \/ Content(lock) \notin alive \cup {Empty}
       THEN Goto(p, "unlink")
       ELSE Goto(p, "ungate")
    /\ UNCHANGED paths /\ Keep

\* The second look, inside the gate: an empty file must be old.
LookAgain(p) ==
    /\ at[p] = "steal"
    /\ IF \/ lock = Missing
          \/ Content(lock) \notin alive \cup {Empty}
          \/ Content(lock) = Empty /\ lock.old
       THEN Goto(p, "unlink")
       ELSE Goto(p, "ungate")
    /\ UNCHANGED paths /\ Keep

Unlink(p) ==
    /\ at[p] = "unlink"
    /\ lock' = Missing
    /\ Goto(p, "recreate")
    /\ UNCHANGED <<gate, aside>> /\ Keep

Recreate(p) ==
    /\ at[p] = "recreate"
    /\ IF lock = Missing
       THEN lock' = Blank(p) /\ Goto(p, "fill")
       ELSE lock' = lock /\ Goto(p, "ungate")
    /\ UNCHANGED <<gate, aside>> /\ Keep

\* The last proof of ownership: the pid in the file is ours.
Confirm(p) ==
    /\ at[p] = "confirm"
    /\ won' = [won EXCEPT ![p] = lock # Missing /\ Content(lock) = p]
    /\ Goto(p, "ungate")
    /\ UNCHANGED <<paths, orphan, alive, crashes>>

\* finally: the gate is removed, whoever's it is.
RemoveGate(p) ==
    /\ at[p] = "ungate"
    /\ gate' = Missing
    /\ won' = [won EXCEPT ![p] = FALSE]
    /\ Goto(p, IF won[p] THEN "held" ELSE "idle")
    /\ UNCHANGED <<lock, aside, orphan, alive, crashes>>

\* releaseSendLock: the path is unlinked without a look.  A command then ends.
ReleaseLock(p) ==
    /\ at[p] = "held"
    /\ lock' = Missing
    /\ IF p \in Again
       THEN Goto(p, "idle") /\ alive' = alive
       ELSE Goto(p, "done") /\ alive' = alive \ {p}
    /\ UNCHANGED <<gate, aside, private, crashes>>

-----------------------------------------------------------------------------
(* Deaths, and the age of files *)

Crash(p) ==
    /\ crashes < MaxCrashes
    /\ p \in alive
    /\ alive' = alive \ {p}
    /\ crashes' = crashes + 1
    /\ Goto(p, "dead")
    /\ UNCHANGED <<paths, private>>

\* STEAL_GATE_STALE_MS pass over an empty file.  Its creator is dead, or its
\* write failed: a live process writes within microseconds.
Abandoned(path) ==
    /\ path # Missing /\ Content(path) = Empty /\ ~path.old
    /\ path.text = "torn" \/ path.by \notin alive

FileAges ==
    /\ \/ Abandoned(lock) /\ lock' = Aged(lock) /\ gate' = gate
       \/ Abandoned(gate) /\ gate' = Aged(gate) /\ lock' = lock
    /\ UNCHANGED <<aside, private, at, alive, crashes>>

Acquire(p) ==
    \/ Create(p) \/ WriteLock(p) \/ WriteGate(p) \/ WriteFails(p) \/ Inspect(p)
    \/ OpenGate(p) \/ JudgeGate(p) \/ RenameGate(p) \/ ProveGate(p) \/ PutGateBack(p)
    \/ LookAgain(p) \/ Unlink(p) \/ Recreate(p) \/ Confirm(p) \/ RemoveGate(p)

Next ==
    \/ \E p \in Procs : Acquire(p) \/ ReleaseLock(p) \/ Crash(p)
    \/ FileAges

Spec == Init /\ [][Next]_vars

\* Senders come again with every drain, a system call returns, a full disk is
\* emptied, and time passes.
Fairness ==
    /\ \A p \in Procs : WF_vars(Acquire(p))
    /\ \A p \in Procs : SF_vars(WriteLock(p) \/ WriteGate(p))
    /\ WF_vars(FileAges)

FairSpec == Spec /\ Fairness

-----------------------------------------------------------------------------
(* Properties *)

\* The shape of the two paths and of what each process remembers of them.
TypeOK ==
    /\ lock \in Path /\ gate \in Path
    /\ aside \in [Procs -> Path]
    /\ orphan \in [Procs -> Procs \cup Gone \cup {Empty}]
    /\ won \in [Procs -> BOOLEAN]
    /\ at \in [Procs -> Points]
    /\ alive \subseteq Procs
    /\ crashes \in 0..MaxCrashes

Inside == {p \in Procs : at[p] = "held"}

\* The lock of a job is a lock: one process at a time is inside.
Lock == INSTANCE Mutex WITH inside <- Inside
IsMutex == Lock!Spec

\* acquireSendLock returns true to one live process at a time: no two can pass
\* the de-dup check and broadcast the same refund.
OneHolder == \A p, q \in Inside : p = q

\* A gate that was put back after its owner had left it.
GateStuck == gate # Missing /\ Content(gate) \in alive /\ at[gate.by] \notin Stealing

\* A lock that names nobody alive does not stay for ever while some process
\* keeps trying to send, unless the gate is stuck.
DeadIsReplaced ==
    []<>~(/\ lock # Missing /\ Content(lock) \notin alive /\ ~GateStuck
          /\ \E p \in alive : at[p] # "held")
=============================================================================
