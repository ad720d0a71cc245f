------------------------------ MODULE InboxSweep ------------------------------
(***************************************************************************)
(* The inbox sweep of one agent (cli.js processInboxForAgent and           *)
(* runInboxSweep, inbox-deadletter.js, reputation-tally-inbox.js): reviews, *)
(* attestations, job records and tallies that the platform holds for an    *)
(* agent are written to its on-chain identity, one transaction a cycle,    *)
(* and acknowledged.                                                       *)
(*                                                                         *)
(* Every writer of the identity reads it from the platform, which serves   *)
(* the last confirmed version, builds a new version on it and broadcasts.  *)
(* The network takes one unconfirmed version at a time: a second one       *)
(* spends the same output and is refused.  The sweep therefore remembers   *)
(* its last write, in memory, and defers until that write is served.       *)
(*                                                                         *)
(* A version of the identity is a record: its transaction, the status it   *)
(* gives the agent and the inbox items it holds.  A sweep passes its gate   *)
(* and then reads, sends and acknowledges, the tally first and the batch.  *)
(* acceptInboxBatch of the SDK is modelled from how its result is used.    *)
(* Left out: inbox-redrive, the fallback for an SDK without batches.       *)
(***************************************************************************)
EXTENDS Integers, FiniteSets

CONSTANTS
    Items,              \* items of the agent's inbox
    TypeOf,             \* review, attestation, job_record, reputation_tally
    Fates,              \* what may be wrong with the items, see fate
    MaxAttempts,        \* MAX_INBOX_ATTEMPTS
    MaxBatchFailures,   \* MAX_BATCH_FAILURES
    MaxTroubles         \* bound on failures, crashes and the operator's commands

ASSUME InboxAssumption ==
    /\ {MaxAttempts, MaxBatchFailures} \subseteq Nat \ {0} /\ MaxTroubles \in Nat
    /\ Fates \subseteq [Items -> {"ok", "gate", "reject", "poison"}]

VARIABLES
    identity,   \* the version of the identity the platform serves
    pool,       \* the unconfirmed version, if any
    txs,        \* transactions so far
    accepted,   \* platform: items acknowledged
    fate,       \* items that fail their own check, or that cannot be written
    lastWrite,  \* state._inboxLastWrite, 0 for none
    attempts,   \* state._inboxFailures
    streak,     \* state._inboxBatchFailures: the batch and its hard failures
    sweep,      \* processInboxForAgent: where it is and what it holds
    troubles,
    heard       \* history: the sweeps' last write, while it is unconfirmed

network == <<identity, pool, txs>>
inboxMemory == <<lastWrite, attempts, streak, sweep>>
inboxVars == <<network, accepted, fate, inboxMemory, troubles, heard>>

Statuses == {"active", "inactive"}
Versions == [tx : Nat, status : Statuses, items : SUBSET Items]
Cycle(at, view, tally, batch, tx, read) ==
    [at |-> at, view |-> view, tally |-> tally, batch |-> batch, tx |-> tx,
     read |-> read]
Quiet == Cycle("idle", {}, {}, {}, 0, {})

InboxTypeOK ==
    /\ identity \in Versions /\ pool \subseteq Versions /\ txs \in Nat
    /\ Cardinality(pool) <= 1
    /\ accepted \subseteq Items /\ fate \in Fates
    /\ lastWrite \in 0 .. txs /\ heard \in 0 .. txs
    /\ attempts \in [Items -> 0 .. MaxAttempts]
    /\ streak \in [of : SUBSET Items, hard : 0 .. MaxBatchFailures]
    /\ sweep \in [at : {"idle", "gate", "read", "send", "ack"},
                  view : SUBSET Items, tally : SUBSET Items,
                  batch : SUBSET Items, tx : 0 .. txs, read : SUBSET Versions]
    /\ troubles \in 0 .. MaxTroubles

NoFailures == [i \in Items |-> 0]
NoStreak == [of |-> {}, hard |-> 0]

InboxInit(version, unconfirmed) ==
    /\ identity = version /\ pool = unconfirmed
    /\ txs = 1 + Cardinality(unconfirmed)
    /\ accepted = {} /\ fate \in Fates
    /\ lastWrite = 0 /\ heard = 0 /\ troubles = 0
    /\ attempts = NoFailures /\ streak = NoStreak /\ sweep = Quiet

Trouble == troubles < MaxTroubles /\ troubles' = troubles + 1

-----------------------------------------------------------------------------
(* The network *)

\* A version built on what was read reaches the network, or is refused.
Refused(read) == pool # {} \/ read.tx # identity.tx
Lands(read, status, items) ==
    /\ ~Refused(read)
    /\ txs' = txs + 1
    /\ pool' = {[tx |-> txs + 1, status |-> status, items |-> items]}
    /\ UNCHANGED identity

Confirm ==
    /\ \E p \in pool : identity' = p
    /\ pool' = {} /\ heard' = 0
    /\ UNCHANGED <<txs, accepted, fate, inboxMemory, troubles>>

\* A write of items expires in the network, hours after it was sent.  (One of
\* a status is assumed not to: nothing in the code would notice.)
Expire ==
    /\ Trouble
    /\ \E p \in pool : p.status = identity.status /\ p.tx # sweep.tx
    /\ pool' = {} /\ heard' = 0
    /\ UNCHANGED <<identity, txs, accepted, fate, inboxMemory>>

-----------------------------------------------------------------------------
(* Failure records *)

Dead(i) == attempts[i] = MaxAttempts

Struck(S, f) ==
    [i \in Items |-> IF i \in S /\ f[i] < MaxAttempts THEN f[i] + 1 ELSE f[i]]
Cleared(S, f) == [i \in Items |-> IF i \in S THEN 0 ELSE f[i]]

\* recordBatchFailure: only hard failures count, and a transient one between
\* two of them does not reset the count of the same batch.
\* (Beyond MaxBatchFailures the count is of no consequence.)
AfterFailure(S, class) ==
    LET before == IF streak.of = S THEN streak.hard ELSE 0
    IN  [of |-> S, hard |-> IF class = "hard" /\ before < MaxBatchFailures
                            THEN before + 1 ELSE before]
\* (A mutant of Escalates: the count is kept and never acted upon.)
EscalatesNever(S, class) == class = "hard" /\ MaxBatchFailures = 0

Escalates(S, class) ==
    class = "hard" /\ AfterFailure(S, class).hard >= MaxBatchFailures

\* pruneInboxFailures: forget what the inbox no longer lists.
Pruned(f) == [i \in Items |-> IF i \in sweep.view THEN f[i] ELSE 0]

-----------------------------------------------------------------------------
(* One sweep *)

Finish(f) == attempts' = Pruned(f) /\ sweep' = Quiet

\* On to the tally, the batch, or the end.
Proceed(tally, batch, f) ==
    IF tally \cup batch = {} THEN Finish(f)
    ELSE /\ attempts' = f
         /\ sweep' = Cycle("read", sweep.view, tally, batch, 0, {})

Job == IF sweep.tally # {} THEN sweep.tally ELSE sweep.batch
AfterJob(f) == Proceed({}, IF sweep.tally # {} THEN sweep.batch ELSE {}, f)

SweepBegins ==
    /\ sweep.at = "idle"
    /\ sweep' = Cycle("gate", Items \ accepted, {}, {}, lastWrite, {})
    /\ UNCHANGED <<network, accepted, fate, lastWrite, attempts, streak, troubles,
                   heard>>

\* shouldDeferForPendingWrite, of the write w recorded when the wait began.
\* Time releases the gate only from a write the network no longer holds.
Confirmed(w) == identity.tx = w
OutOfTime(w) == ~Confirmed(w) /\ \A p \in pool : p.tx # w
Deferred(w) == w # 0 /\ ~Confirmed(w)
Passes(w) == w = 0 \/ Confirmed(w) \/ OutOfTime(w)

GateDefers ==
    /\ sweep.at = "gate" /\ Deferred(sweep.tx)
    /\ Finish(attempts)
    /\ UNCHANGED <<network, accepted, fate, lastWrite, streak, troubles, heard>>

GateUnread ==
    /\ sweep.at = "gate" /\ sweep.tx # 0 /\ Trouble
    /\ Finish(attempts)
    /\ UNCHANGED <<network, accepted, fate, lastWrite, streak, heard>>

\* selectInboxWriteSet: one item of each type that is not quarantined.
Selections(S) ==
    {C \in SUBSET S :
        /\ {TypeOf[i] : i \in C} = {TypeOf[i] : i \in S}
        /\ \A i, k \in C : TypeOf[i] = TypeOf[k] => i = k}

\* Items are checked one by one: a bad one is struck, one whose check does not
\* get an answer waits for the next cycle.
GatePasses ==
    /\ sweep.at = "gate" /\ Passes(sweep.tx)
    /\ lastWrite' = IF sweep.tx = 0 THEN lastWrite ELSE 0
    /\ \E C \in Selections({i \in sweep.view : ~Dead(i)}) :
       \E late \in SUBSET C :
          LET bad == {i \in C \ late : fate[i] = "gate"}
              good == C \ (late \cup bad)
              tally == {i \in good : TypeOf[i] = "reputation_tally"}
          IN  /\ IF late = {} THEN UNCHANGED troubles ELSE Trouble
              /\ Proceed(tally, good \ tally, Struck(bad, attempts))
    /\ UNCHANGED <<network, accepted, fate, streak, heard>>

\* Items that the batch leaves out, and items it fails on as a whole.
Rejected == {i \in Job : fate[i] = "reject"}
Poison == {i \in Job : fate[i] = "poison"}
ToWrite(version) == Job \ (Rejected \cup version.items)

\* A tally already on the identity is only acknowledged; one that is not waits
\* while the batch needs the identity in this cycle.  A batch with nothing to
\* write, because it is there or was rejected, makes no transaction.
Read ==
    /\ sweep.at = "read"
    /\ IF sweep.tally # {} /\ sweep.batch # {} /\ ~(sweep.tally \subseteq identity.items)
       THEN AfterJob(attempts)
       ELSE /\ sweep' = IF ToWrite(identity) = {}
                       THEN [sweep EXCEPT !.at = "ack"]
                       ELSE [sweep EXCEPT !.at = "send", !.read = {identity}]
            /\ UNCHANGED attempts
    /\ UNCHANGED <<network, accepted, fate, lastWrite, streak, troubles, heard>>

Fails(class) ==
    /\ streak' = AfterFailure(Job, class)
    /\ AfterJob(IF Escalates(Job, class) THEN Struck(Job, attempts) ELSE attempts)
    /\ UNCHANGED <<accepted, fate, lastWrite, heard>>

ReadFails ==
    /\ sweep.at = "read" /\ Trouble
    /\ \E class \in {"transient", "hard"} : Fails(class)
    /\ UNCHANGED network

Send ==
    /\ sweep.at = "send" /\ Poison = {}
    /\ \E r \in sweep.read : Lands(r, r.status, r.items \cup ToWrite(r))
    /\ sweep' = [sweep EXCEPT !.at = "ack", !.tx = txs']
    /\ UNCHANGED <<accepted, fate, lastWrite, attempts, streak, troubles, heard>>

SendRefused ==
    /\ sweep.at = "send" /\ Poison = {}
    /\ \E r \in sweep.read : Refused(r)
    /\ Fails("contention")
    /\ UNCHANGED <<network, troubles>>

\* An item cannot be written and the batch fails as a whole.
SendPoisoned ==
    /\ sweep.at = "send" /\ Poison # {}
    /\ Fails("hard")
    /\ UNCHANGED <<network, troubles>>

\* No funds, no answer, or an answer lost after the network took the write.
SendFails ==
    /\ sweep.at = "send" /\ Trouble
    /\ \E r \in sweep.read :
          \/ UNCHANGED network
          \/ Poison = {} /\ Lands(r, r.status, r.items \cup ToWrite(r))
    /\ Fails("transient")

\* (A mutant of Noted: the write of a tally is not remembered.)
NotedForBatch ==
    IF sweep.tx # 0 /\ sweep.tally = {} THEN sweep.tx ELSE lastWrite

Noted == IF sweep.tx # 0 THEN sweep.tx ELSE lastWrite

\* Written items are acknowledged one by one, rejected ones struck.  A refused
\* acknowledgement counts for nothing: the item stays and is found written.
Ack ==
    /\ sweep.at = "ack"
    /\ \E late \in SUBSET (Job \ Rejected) :
          LET done == Job \ (Rejected \cup late)
          IN  /\ IF late = {} THEN UNCHANGED troubles ELSE Trouble
              /\ accepted' = accepted \cup done
              /\ AfterJob(Struck(Rejected, Cleared(done, attempts)))
    /\ lastWrite' = Noted
    /\ heard' = IF \E p \in pool : p.tx = sweep.tx THEN sweep.tx ELSE heard
    /\ streak' = IF sweep.tally = {} THEN NoStreak ELSE streak
    /\ UNCHANGED <<network, fate>>

SweepGoesOn ==
    \/ GateDefers \/ GateUnread \/ GatePasses \/ Read \/ ReadFails
    \/ Send \/ SendRefused \/ SendPoisoned \/ SendFails
    \/ Ack
=============================================================================
