---------------------------- MODULE CreditMeter ----------------------------
(***************************************************************************)
(* The prepaid balances of src/credit-meter.js: one file per agent with a  *)
(* bucket per buyer and a table of the names one buyer is known by.  Each  *)
(* operator here is what one mutation does to the file; who calls it, under *)
(* the lock or without it, is the business of ApiProxy.                    *)
(*                                                                         *)
(* Amounts are whole numbers of the smallest price.  Per-model usage and   *)
(* the times of activity are left out.                                     *)
(***************************************************************************)
EXTENDS Integers, FiniteSetsExt

CONSTANTS
    Names,   \* what a buyer may be called: the identity, an address of it
    Txs,     \* deposit transactions
    None     \* nothing there

Bucket == [balance : Int, deposited : Int, spent : Int,
           lastTx : Txs \cup {None}, low : BOOLEAN]
Meter == [buyers : [Names -> Bucket \cup {None}],
          aliases : [Names -> Names \cup {None}]]

\* `undefined` is neither a bucket nor a name nor a transaction.
ASSUME NoneAssumption == None \notin Bucket /\ None \notin Names \cup Txs

NewBucket ==
    [balance |-> 0, deposited |-> 0, spent |-> 0, lastTx |-> None, low |-> FALSE]
NoMeter == [buyers |-> [n \in Names |-> None], aliases |-> [n \in Names |-> None]]

Has(m, n) == n # None /\ m.buyers[n] # None

\* A name with a bucket is its own; one without goes where its alias points,
\* if there is a bucket there.
resolveBuyerKey(m, n) ==
    IF ~Has(m, n) /\ m.aliases[n] # None /\ Has(m, m.aliases[n]) THEN m.aliases[n] ELSE n

ensureBuyer(m, n) ==
    LET k == resolveBuyerKey(m, n) IN IF Has(m, k) THEN m.buyers[k] ELSE NewBucket

Put(m, n, b) == [m EXCEPT !.buyers[resolveBuyerKey(m, n)] = b]

linkBuyerAliases(m, canonical, as) ==
    [m EXCEPT !.aliases = [n \in Names |->
        IF n \in as \cup {canonical} THEN canonical ELSE @[n]]]

\* One alias's bucket is emptied into the canonical one, unless both hold the
\* same deposit.
MergeOne(m, canonical, a) ==
    LET canon == m.buyers[canonical]
        other == m.buyers[a]
        same == other.lastTx # None /\ other.lastTx = canon.lastTx
        sum == [canon EXCEPT !.balance = @ + other.balance,
                             !.deposited = @ + other.deposited,
                             !.spent = @ + other.spent,
                             !.lastTx = IF @ = None THEN other.lastTx ELSE @]
    IN  IF a = canonical \/ ~Has(m, a) THEN m
        ELSE [m EXCEPT !.buyers[a] = None,
                       !.buyers[canonical] = IF same THEN canon ELSE sum]

applyBuyerAliases(m, canonical, as) ==
    LET linked == linkBuyerAliases(m, canonical, as)
        opened == [linked EXCEPT !.buyers[canonical] = IF @ = None THEN NewBucket ELSE @]
    IN  FoldSet(LAMBDA a, acc : MergeOne(acc, canonical, a), opened, as)

\* Taken before the request is sent; the caller compares first.
reserveCredit(m, n, estimate) ==
    Put(m, n, [ensureBuyer(m, n) EXCEPT !.balance = @ - estimate])

\* (A mutant of adjustCredit: an overage is forgiven.)
adjustCreditClamped(m, n, actual, reserved) ==
    Put(m, n, [ensureBuyer(m, n) EXCEPT !.balance = IF @ < actual - reserved THEN 0 ELSE @ - (actual - reserved),
                                        !.spent = @ + actual])

\* The true cost in place of the estimate.  The balance may go below zero.
adjustCredit(m, n, actual, reserved) ==
    Put(m, n, [ensureBuyer(m, n) EXCEPT !.balance = @ - (actual - reserved),
                                        !.spent = @ + actual])

refundReservation(m, n, reserved) ==
    Put(m, n, [ensureBuyer(m, n) EXCEPT !.balance = @ + reserved])

\* A deposit, once in a row per transaction.  It re-arms the low-credit notice.
creditDeposit(m, canonical, as, amount, tx) ==
    LET merged == applyBuyerAliases(m, canonical, as)
        buyer == ensureBuyer(merged, canonical)
    IN  IF buyer.lastTx = tx THEN merged
        ELSE Put(merged, canonical,
                 [buyer EXCEPT !.balance = @ + amount, !.deposited = @ + amount,
                               !.lastTx = tx, !.low = FALSE])

\* The deposit taken back, below zero if it is spent; the same transaction may
\* be credited again afterwards.
reverseDeposit(m, n, amount, tx) ==
    Put(m, n, [ensureBuyer(m, n) EXCEPT !.balance = @ - amount,
                                        !.deposited = @ - amount,
                                        !.lastTx = IF @ = tx THEN None ELSE @])

\* True once per downward crossing: the flag is set with the answer.
checkAndFlagLow(m, n) == Put(m, n, [ensureBuyer(m, n) EXCEPT !.low = TRUE])

getBalance(m, n) == ensureBuyer(m, n).balance
=============================================================================
