-------------------------- MODULE DepositLedgerInv --------------------------
(***************************************************************************)
(* The inductive invariant behind NeverCreditedTwice and NeverDebitedTwice *)
(* of DepositLedger, for a fleet whose reversal budget is not exhausted    *)
(* (Spec, not TightNext).  It says, for every transaction, what the files  *)
(* prove about the meter; for the daemon, what it has already done at each *)
(* point between two writes; for the operator's CLI, why the credit it is  *)
(* about to give is still missing when it takes the lock.                  *)
(***************************************************************************)
EXTENDS DepositLedger

\* What the meter and the dedup ledger agree on.
MeterSound(t) ==
    /\ meter[t] \in {0, 1}
    /\ meter[t] = 1 => t \in creditedTxids
    /\ processed[t].in => t \in creditedTxids
    /\ lastDeposit[BuyerOf[t]] = t => meter[t] = 1

\* What a credit record proves.
RecordSound(t) ==
    /\ ~processed[t].withheld
    /\ processed[t].in /\ processed[t].reversal # "none"
          => processed[t].unconfirmed /\ ~processed[t].crediting
    /\ processed[t].in /\ processed[t].reversal = "debited" => meter[t] = 0
    /\ (/\ processed[t].in /\ processed[t].unconfirmed
        /\ ~processed[t].crediting /\ processed[t].reversal = "none") => meter[t] = 1
    /\ processed[t].in /\ processed[t].needsOperator # "none" /\ processed[t].resolved = "no"
          => processed[t].crediting \/ ~processed[t].unconfirmed

\* A confirmed transaction is not looked up as unknown.
LookSound(t) ==
    /\ processed[t].in /\ processed[t].reversal = "recredited" => chain[t] = "confirmed"
    /\ look[t] = "strong" => ~(processed[t].in /\ processed[t].reversal = "recredited")
    /\ look[t] = "confirmed" => chain[t] = "confirmed"

Unsettled(t) == reversed[t].in /\ ~reversed[t].restored

\* What a reversal entry proves.
ReversalSound(t) ==
    /\ Restorable(t) => ~processed[t].in /\ t \notin creditedTxids
    /\ Unsettled(t) /\ ~Restorable(t) => t \in creditedTxids
    /\ ReversedAnomaly(t) => Unsettled(t) /\ ~Restorable(t)
    /\ reversed[t].in /\ reversed[t].restored /\ reversed[t].restoring
          => reversed[t].resolved # "no"
    /\ Unsettled(t) /\ processed[t].in
          => /\ ~processed[t].unconfirmed /\ ~processed[t].crediting
             /\ processed[t].reversal = "none"

\* The CLI has not been asked to credit the transaction the daemon works on.
NotAsked(t) == ~(cli.at = "asked" /\ cli.action = "credit" /\ cli.tx = t)

\* What the daemon knows at each point between two writes.
PointSound ==
    /\ pc \in {"credit", "finalize"} =>
          /\ processed[cur].in /\ processed[cur].crediting
          /\ processed[cur].reversal = "none" /\ processed[cur].needsOperator = "none"
          /\ ~Unsettled(cur) /\ NotAsked(cur)
          /\ meter[cur] = IF pc = "credit" THEN 0 ELSE 1
    /\ pc \in {"recredit", "confirm"} =>
          /\ processed[cur].in /\ processed[cur].reversal = "recredited"
          /\ meter[cur] = IF pc = "recredit" THEN 0 ELSE 1
    /\ pc \in {"debit", "debited"} =>
          /\ processed[cur].in /\ processed[cur].reversal = "debiting"
          /\ meter[cur] = IF pc = "debit" THEN 1 ELSE 0
    /\ pc = "remove" => processed[cur].in /\ processed[cur].reversal = "debited"
    /\ pc \in {"restore", "settle"} =>
          /\ reversed[cur].in /\ reversed[cur].debited /\ reversed[cur].restoring
          /\ ~reversed[cur].restored
          /\ ~Anomaly(cur) /\ NotAsked(cur)
          /\ cur \in creditedTxids
          /\ meter[cur] = IF pc = "restore" THEN 0 ELSE 1

\* What the CLI knows: the credit it is about to give is missing.
CliSound ==
    /\ CliHoldsLock => pc = "idle"
    /\ cli.at = "asked" /\ cli.action = "credit" =>
          /\ meter[cli.tx] = 0 /\ cli.tx \in creditedTxids
          /\ processed[cli.tx].in =>
                processed[cli.tx].crediting \/ ~processed[cli.tx].unconfirmed
    /\ CliHoldsLock =>
          /\ cli.tx \in creditedTxids
          /\ meter[cli.tx] = IF cli.at = "crediting" THEN 0 ELSE 1
          /\ cli.where \in {"processed", "reversed"}
          /\ cli.where = "processed" =>
                /\ processed[cli.tx].in
                /\ processed[cli.tx].crediting \/ ~processed[cli.tx].unconfirmed
          /\ cli.where = "reversed" => Unsettled(cli.tx) /\ ~Restorable(cli.tx)

\* One named part per line, so that a proof step can cite the one it needs.
LedgerInv ==
    /\ TypeOK
    /\ \A t \in Txids : MeterSound(t)
    /\ \A t \in Txids : RecordSound(t)
    /\ \A t \in Txids : LookSound(t)
    /\ \A t \in Txids : ReversalSound(t)
    /\ PointSound
    /\ CliSound
=============================================================================
