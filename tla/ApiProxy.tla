------------------------------ MODULE ApiProxy ------------------------------
(***************************************************************************)
(* The paid proxy of the daemon: access keys (src/api-key-manager.js and   *)
(* the access handlers of src/cli.js), the handler of one buyer request    *)
(* (src/proxy-handler.js) with its rate limit, circuit, in-flight cap and   *)
(* upstream gate, and what it does to the balances (CreditMeter).          *)
(*                                                                         *)
(* The daemon is one thread: between two awaits a handler is one step.  A  *)
(* second process, the operator's deposit command, takes the meter lock,   *)
(* reads the file and writes it back.  The daemon waits 250 ms for the     *)
(* lock and then changes the file without it.  A price is EstIn for the    *)
(* input and up to MaxOut for the output of a request.                     *)
(***************************************************************************)
EXTENDS CreditMeter, Sequences

CONSTANTS
    Reqs,        \* requests of buyers
    Keys,        \* API keys, one per access request
    NonceOf,     \* the nonce of the access envelope a key is minted for
    Identity, Alias,      \* two names of the one buyer
    Amount,      \* what a deposit is worth
    Before,      \* what was deposited under Alias before the run
    EstIn, ReserveOut, MaxOut,   \* prices
    Threshold,   \* below it the platform is told the credit is low
    Cap,         \* requests in flight per name
    Burst,       \* tokens of the rate limit per name
    CircuitAt,   \* failed probes that open the circuit
    Claimed,     \* the name the buyer reports its deposits under
    MaxFaults    \* bound: changes without the lock, failed saves and crashes

ASSUME ProxyAssumption ==
    /\ {Identity, Alias} = Names /\ Identity # Alias /\ Claimed \in Names
    /\ {Amount, Before, EstIn, ReserveOut, MaxOut, Threshold, Cap, Burst, CircuitAt} \subseteq Nat
    /\ IsFiniteSet(Reqs) /\ IsFiniteSet(Txs) /\ None \notin Reqs
    /\ None \notin [read : Meter, write : Meter]

VARIABLES
    meter,       \* credit-meters.json
    deposits,    \* what the deposit ledger has settled with each transaction
    keys,        \* api-keys.json: "none", "active", "revoked"
    nameOf,      \* the buyer a key was minted for
    cache,       \* _keyCache: keys found without a look at the disk
    seen,        \* the nonce cache
    access,      \* an access request: "new", "verify", "resolve", "done"
    at,          \* where a request is
    key,         \* the key it came with
    gate,        \* requests through the upstream gate, the first one inside
    inflight,    \* proxy-inflight: requests per name
    tokens,      \* proxy-rate-limiter: the bucket of a name
    health,      \* upstream-health: failed probes in a row, the circuit
    tick,        \* the request whose synchronous tail is running
    adj,         \* the operator's process inside the lock: what it read, what it will write
    stranded,    \* history: reservations of requests that ended without a settle
    leaked,      \* history: slots of such requests
    overwritten, \* history: a save dropped another one
    faults, crashed

files == <<meter, deposits, keys, nameOf>>
memory == <<cache, seen, access, gate, inflight, tokens, health, tick>>
flow == <<at, key>>
history == <<stranded, leaked, overwritten>>
bounds == <<faults, crashed>>
vars == <<files, memory, flow, adj, history, bounds>>

Estimate == EstIn + ReserveOut
Live == {"dns", "gate", "fetch", "body"}   \* a slot and a reservation are held

Init ==
    /\ meter = IF Before = 0 THEN NoMeter
               ELSE [NoMeter EXCEPT !.buyers[Alias] =
                        [NewBucket EXCEPT !.balance = Before, !.deposited = Before]]
    /\ deposits = [t \in Txs |-> "new"]
    /\ keys = [k \in Keys |-> "none"]
    /\ nameOf = [k \in Keys |-> Alias]
    /\ cache = {} /\ seen = {} /\ gate = <<>> /\ tick = None /\ adj = None
    /\ access = [k \in Keys |-> "new"]
    /\ at = [r \in Reqs |-> "new"]
    /\ key = [r \in Reqs |-> None]
    /\ inflight = [n \in Names |-> 0]
    /\ tokens = [n \in Names |-> Burst]
    /\ health = [failed |-> 0, circuit |-> "closed"]
    /\ stranded = 0 /\ leaked = [n \in Names |-> 0]
    /\ overwritten = FALSE
    /\ faults = 0 /\ crashed = FALSE

-----------------------------------------------------------------------------
(* The file and its lock. *)

Fault == faults < MaxFaults /\ faults' = faults + 1

\* The daemon changes the file.  When the operator's process has the lock the
\* wait times out and the change is made all the same: that process may save
\* between the daemon's read and its write (lands) or later.
withMeterLock(new, lands) ==
    /\ lands => adj # None
    /\ meter' = new
    /\ IF adj = None THEN UNCHANGED faults ELSE Fault
    /\ overwritten' = (overwritten \/ lands)
    /\ adj' = IF lands THEN None ELSE adj

\* The same for a change made outside the lock.
WithoutLock(new, lands) ==
    /\ lands => adj # None
    /\ meter' = new
    /\ overwritten' = (overwritten \/ lands)
    /\ adj' = IF lands THEN None ELSE adj
    /\ UNCHANGED faults

NoMeterChange == UNCHANGED <<meter, adj, overwritten, faults>>

\* A save may throw, the disk being full.
SaveFails == Fault

\* A deposit is credited with the names the platform knows for the buyer, or,
\* by the poller, a restore and the operator, under the reported name alone.
Credited(t, resolved) ==
    IF resolved THEN creditDeposit(meter, Identity, {Identity, Alias}, Amount, t)
    ELSE creditDeposit(meter, Claimed, {}, Amount, t)
Uncredited == {"new", "reversed"}

\* The deposit watcher in the daemon, which gives up when the lock is busy.
\* (Which deposits are credited and taken back is DepositLedger's.)
CreditDeposit(t, resolved) ==
    /\ tick = None /\ adj = None
    /\ deposits[t] \in Uncredited
    /\ deposits[t] = "reversed" => ~resolved
    /\ meter' = Credited(t, resolved)
    /\ deposits' = [deposits EXCEPT ![t] = "credited"]
    /\ UNCHANGED <<keys, nameOf, memory, flow, adj, stranded, leaked, overwritten, bounds>>

ReverseDeposit(t) ==
    /\ tick = None /\ adj = None
    /\ deposits[t] = "credited"
    /\ meter' = reverseDeposit(meter, Claimed, Amount, t)
    /\ deposits' = [deposits EXCEPT ![t] = "reversed"]
    /\ UNCHANGED <<keys, nameOf, memory, flow, adj, history, bounds>>

\* `deposits credit` in its own process: lock and read, then write and unlock.
OperatorReads(t) ==
    /\ adj = None /\ deposits[t] = "new"
    /\ adj' = [read |-> meter, write |-> Credited(t, FALSE)]
    /\ deposits' = [deposits EXCEPT ![t] = "credited"]
    /\ UNCHANGED <<meter, keys, nameOf, memory, flow, history, bounds>>

OperatorWrites ==
    /\ adj # None
    /\ meter' = adj.write
    /\ overwritten' = (overwritten \/ adj.read # meter)
    /\ adj' = None
    /\ UNCHANGED <<deposits, keys, nameOf, memory, flow, stranded, leaked, bounds>>

-----------------------------------------------------------------------------
(* Keys. *)

\* saveKeys writes the file and brings the cache in line with it.
saveKeys(new) ==
    /\ keys' = new
    /\ cache' = {k \in Keys : new[k] = "active"}

hasSeenNonce(k) == NonceOf[k] \in seen
checkAndRecordNonce(k) == seen' = seen \cup {NonceOf[k]}

\* An access request is verified, which awaits; a nonce seen before is turned
\* away at the look-up and, after the await, when it is recorded.
RequestAccess(k) ==
    /\ tick = None /\ access[k] = "new" /\ ~hasSeenNonce(k)
    /\ access' = [access EXCEPT ![k] = "verify"]
    /\ UNCHANGED <<files, cache, seen, gate, inflight, tokens, health, tick, flow, adj, history, bounds>>

\* (A mutant of checkNonceAfterVerify: the nonce is recorded and not looked at.)
RecordNonceAfterVerify(k) ==
    /\ tick = None /\ access[k] = "verify"
    /\ access' = [access EXCEPT ![k] = "resolve"]
    /\ checkAndRecordNonce(k)
    /\ UNCHANGED <<files, cache, gate, inflight, tokens, health, tick, flow, adj, history, bounds>>

checkNonceAfterVerify(k) ==
    /\ tick = None /\ access[k] = "verify"
    /\ access' = [access EXCEPT ![k] = IF hasSeenNonce(k) THEN "done" ELSE "resolve"]
    /\ checkAndRecordNonce(k)
    /\ UNCHANGED <<files, cache, gate, inflight, tokens, health, tick, flow, adj, history, bounds>>

\* The platform names the identity behind the buyer, and the key is minted for
\* it; or it does not answer, and the key is for the claimed name.
mintApiKey(k, resolved, lands) ==
    /\ tick = None /\ access[k] = "resolve"
    /\ access' = [access EXCEPT ![k] = "done"]
    /\ nameOf' = [nameOf EXCEPT ![k] = IF resolved THEN Identity ELSE Alias]
    /\ saveKeys([keys EXCEPT ![k] = "active"])
    /\ IF resolved THEN withMeterLock(linkBuyerAliases(meter, Identity, {Alias}), lands)
       ELSE ~lands /\ NoMeterChange
    /\ UNCHANGED <<deposits, seen, gate, inflight, tokens, health, tick, flow,
                   stranded, leaked, crashed>>

\* The platform ends a grant.
revokeApiKey(k) ==
    /\ tick = None /\ keys[k] = "active"
    /\ saveKeys([keys EXCEPT ![k] = "revoked"])
    /\ UNCHANGED <<meter, deposits, nameOf, seen, access, gate, inflight, tokens, health, tick,
                   flow, adj, history, bounds>>

-----------------------------------------------------------------------------
(* Rate limit and circuit. *)

Refill(n) ==
    /\ tick = None /\ tokens[n] < Burst
    /\ tokens' = [tokens EXCEPT ![n] = @ + 1]
    /\ UNCHANGED <<files, cache, seen, access, gate, inflight, health, tick, flow, adj, history, bounds>>

\* A probe of the upstream: a success closes the circuit, the failure that
\* crosses the threshold opens it, later ones leave its time alone.
setHealth(healthy) ==
    /\ tick = None
    /\ LET failed == IF health.failed < CircuitAt THEN health.failed + 1 ELSE CircuitAt
       IN  health' = IF healthy THEN [failed |-> 0, circuit |-> "closed"]
                     ELSE [failed |-> failed,
                           circuit |-> IF health.circuit = "closed" /\ failed >= CircuitAt
                                       THEN "open" ELSE health.circuit]
    /\ UNCHANGED <<files, cache, seen, access, gate, inflight, tokens, tick, flow, adj, history, bounds>>

\* circuit_open_ms have passed: requests are let through.
CircuitElapses ==
    /\ tick = None /\ health.circuit = "open"
    /\ health' = [health EXCEPT !.circuit = "elapsed"]
    /\ UNCHANGED <<files, cache, seen, access, gate, inflight, tokens, tick, flow, adj, history, bounds>>

-----------------------------------------------------------------------------
(* A request. *)

Name(r) == nameOf[key[r]]
End(r) == at' = [at EXCEPT ![r] = "done"] /\ key' = [key EXCEPT ![r] = None]
LeaveGate == gate' = Tail(gate)
Release(n) == inflight' = [inflight EXCEPT ![n] = IF @ > 0 THEN @ - 1 ELSE 0]

findKeyOwner(k) == k \in cache \/ keys[k] = "active"

\* The key is unknown, revoked or expired.
NoOwner(r, k) ==
    /\ tick = None /\ at[r] = "new" /\ keys[k] # "none" /\ ~findKeyOwner(k)
    /\ End(r)
    /\ UNCHANGED <<files, memory, adj, history, bounds>>

\* The key is found, which puts it in the cache, and the request has its token
\* of the rate limit, or is turned away.
Enters(r, k) ==
    /\ tick = None /\ at[r] = "new" /\ findKeyOwner(k)
    /\ cache' = cache \cup {k}
    /\ UNCHANGED <<keys, deposits, nameOf, seen, access, gate, health>>
checkRate(n) == tokens[n] > 0 /\ tokens' = [tokens EXCEPT ![n] = @ - 1]

TooFast(r, k) ==
    /\ Enters(r, k) /\ tokens[nameOf[k]] = 0 /\ End(r)
    /\ UNCHANGED <<meter, inflight, tokens, tick, adj, history, bounds>>

CircuitOpen(r, k) ==
    /\ Enters(r, k) /\ checkRate(nameOf[k]) /\ health.circuit = "open" /\ End(r)
    /\ UNCHANGED <<meter, inflight, tick, adj, history, bounds>>

AllInFlight(r, k) ==
    /\ Enters(r, k) /\ checkRate(nameOf[k]) /\ health.circuit # "open"
    /\ inflight[nameOf[k]] >= Cap /\ End(r)
    /\ UNCHANGED <<meter, inflight, tick, adj, history, bounds>>

\* The slot is taken, then the credit.
Starts(r, k) ==
    /\ Enters(r, k) /\ checkRate(nameOf[k]) /\ health.circuit # "open"
    /\ inflight[nameOf[k]] < Cap
Affordable(n) == getBalance(meter, n) >= Estimate

\* (A mutant of TurnedAway: a request without credit keeps its slot.)
TurnedAwayKeepsSlot(r, k, lands) ==
    /\ Starts(r, k) /\ End(r) /\ ~lands
    /\ ~Affordable(nameOf[k])
    /\ inflight' = [inflight EXCEPT ![nameOf[k]] = @ + 1]
    /\ UNCHANGED <<meter, tick, adj, history, bounds>>

\* Not enough credit, or a path that is not the endpoint's: the slot, and in
\* the second case the reservation, are given back before the first await.
TurnedAway(r, k, lands) ==
    /\ Starts(r, k) /\ End(r)
    /\ \/ ~Affordable(nameOf[k]) /\ ~lands /\ NoMeterChange
       \/ Affordable(nameOf[k]) /\ withMeterLock(
              refundReservation(reserveCredit(meter, nameOf[k], Estimate), nameOf[k], Estimate), lands)
    /\ UNCHANGED <<inflight, tick, stranded, leaked, crashed>>

Admit(r, k, lands) ==
    /\ Starts(r, k) /\ Affordable(nameOf[k])
    /\ withMeterLock(reserveCredit(meter, nameOf[k], Estimate), lands)
    /\ inflight' = [inflight EXCEPT ![nameOf[k]] = @ + 1]
    /\ at' = [at EXCEPT ![r] = "dns"] /\ key' = [key EXCEPT ![r] = k]
    /\ UNCHANGED <<tick, stranded, leaked, crashed>>

\* The reservation is not saved: the handler ends with its slot.
ReserveThrows(r, k) ==
    /\ Starts(r, k) /\ Affordable(nameOf[k]) /\ SaveFails /\ End(r)
    /\ inflight' = [inflight EXCEPT ![nameOf[k]] = @ + 1]
    /\ leaked' = [leaked EXCEPT ![nameOf[k]] = @ + 1]
    /\ UNCHANGED <<meter, tick, adj, stranded, overwritten, crashed>>

\* The host of the upstream is looked up.  A request with a safe one queues.
HostIsSafe(r) ==
    /\ tick = None /\ at[r] = "dns"
    /\ at' = [at EXCEPT ![r] = "gate"] /\ gate' = Append(gate, r)
    /\ UNCHANGED <<files, cache, seen, access, inflight, tokens, health, tick, key, adj, history, bounds>>

\* The reservation goes back, and the slot after it.
refundOnce(r, lands) ==
    /\ withMeterLock(refundReservation(meter, Name(r), Estimate), lands)
    /\ Release(Name(r))
    /\ UNCHANGED <<deposits, keys, nameOf, cache, seen, access, tokens, health, tick,
                   stranded, leaked, crashed>>
\* The refund is not saved: neither goes back.
RefundThrows(r) ==
    /\ SaveFails /\ End(r)
    /\ stranded' = stranded + Estimate
    /\ leaked' = [leaked EXCEPT ![Name(r)] = @ + 1]
    /\ UNCHANGED <<files, cache, seen, access, inflight, tokens, health, tick, adj,
                   overwritten, crashed>>

HostIsUnsafe(r, lands) ==
    /\ tick = None /\ at[r] = "dns"
    /\ \/ refundOnce(r, lands) /\ End(r)
       \/ ~lands /\ RefundThrows(r)
    /\ UNCHANGED gate

\* The first through the gate sends its request.
Fetch(r) ==
    /\ tick = None /\ at[r] = "gate" /\ Head(gate) = r
    /\ at' = [at EXCEPT ![r] = "fetch"]
    /\ UNCHANGED <<files, memory, key, adj, history, bounds>>

\* (A mutant of UpstreamFails: an error leaves the gate shut.)
UpstreamFailsShut(r, lands) ==
    /\ tick = None /\ at[r] = "fetch"
    /\ \/ refundOnce(r, lands) /\ End(r)
       \/ ~lands /\ RefundThrows(r)
    /\ UNCHANGED gate

\* No answer: an error, or the timeout, after which the request is refunded
\* but its fetch is drained, for a while, behind the closed gate.
UpstreamFails(r, lands) ==
    /\ tick = None /\ at[r] = "fetch"
    /\ \/ refundOnce(r, lands) /\ End(r)
       \/ ~lands /\ RefundThrows(r)
    /\ LeaveGate
UpstreamTimesOut(r, lands) ==
    /\ tick = None /\ at[r] = "fetch"
    /\ \/ /\ refundOnce(r, lands) /\ UNCHANGED gate
          /\ at' = [at EXCEPT ![r] = "drain"] /\ key' = [key EXCEPT ![r] = None]
       \/ ~lands /\ RefundThrows(r) /\ LeaveGate
Drained(r) ==
    /\ tick = None /\ at[r] = "drain"
    /\ End(r) /\ LeaveGate
    /\ UNCHANGED <<files, cache, seen, access, inflight, tokens, health, tick, adj, history, bounds>>

UpstreamAnswers(r) ==
    /\ tick = None /\ at[r] = "fetch"
    /\ at' = [at EXCEPT ![r] = "body"]
    /\ UNCHANGED <<files, memory, key, adj, history, bounds>>

\* What a response costs: nothing for an error or an unusable text; of a stream
\* cut short what a usage frame proved; without usage all that was reserved.
settleTokenCounts(good, aborted, usage) ==
    IF ~good THEN 0
    ELSE IF usage # None THEN EstIn + usage
    ELSE IF aborted THEN EstIn ELSE EstIn + ReserveOut

\* The body of a non-streaming response is cut short: all is given back.
BodyBreaks(r, lands) ==
    /\ tick = None /\ at[r] = "body"
    /\ \/ refundOnce(r, lands) /\ End(r)
       \/ ~lands /\ RefundThrows(r)
    /\ LeaveGate

IsLow(balance) == Threshold > 0 /\ balance < Threshold

\* The charge replaces the reservation, the use is recorded on the key and the
\* slot is free; then, in the same tick, the low-credit notice.
Settle(r, actual, lands) ==
    /\ tick = None /\ at[r] = "body"
    /\ withMeterLock(adjustCredit(meter, Name(r), actual, Estimate), lands)
    /\ saveKeys(keys)
    /\ Release(Name(r))
    /\ IF IsLow(getBalance(meter', Name(r)))
       THEN tick' = r /\ at' = [at EXCEPT ![r] = "low"] /\ UNCHANGED key
       ELSE End(r) /\ UNCHANGED tick
    /\ LeaveGate
    /\ UNCHANGED <<deposits, nameOf, seen, access, tokens, health,
                   stranded, leaked, crashed>>

\* The charge is not saved, or the record of the use is not.
SettleThrows(r, actual) ==
    /\ tick = None /\ at[r] = "body" /\ SaveFails
    /\ End(r) /\ LeaveGate
    /\ \/ UNCHANGED meter /\ stranded' = stranded + Estimate
       \/ adj = None /\ meter' = adjustCredit(meter, Name(r), actual, Estimate) /\ UNCHANGED stranded
    /\ leaked' = [leaked EXCEPT ![Name(r)] = @ + 1]
    /\ UNCHANGED <<deposits, keys, nameOf, cache, seen, access, inflight, tokens, health, tick,
                   adj, overwritten, crashed>>

\* checkAndFlagLow reads and writes the file without the lock.
maybeNotifyCreditLow(r, lands) ==
    /\ tick = r
    /\ IF ~ensureBuyer(meter, Name(r)).low
       THEN WithoutLock(checkAndFlagLow(meter, Name(r)), lands)
       ELSE ~lands /\ NoMeterChange
    /\ tick' = None /\ End(r)
    /\ UNCHANGED <<deposits, keys, nameOf, cache, seen, access, gate, inflight, tokens, health,
                   stranded, leaked, crashed>>

-----------------------------------------------------------------------------
\* The daemon dies.  The files stay; what it had reserved is not given back.
Crash ==
    /\ Fault /\ crashed' = TRUE
    /\ stranded' = stranded + Estimate * Cardinality({r \in Reqs : at[r] \in Live})
    /\ leaked' = [n \in Names |-> 0]
    /\ at' = [r \in Reqs |-> IF at[r] = "new" THEN "new" ELSE "done"]
    /\ key' = [r \in Reqs |-> None]
    /\ access' = [k \in Keys |-> IF access[k] = "new" THEN "new" ELSE "done"]
    /\ cache' = {} /\ seen' = {} /\ gate' = <<>> /\ tick' = None
    /\ inflight' = [n \in Names |-> 0] /\ tokens' = [n \in Names |-> Burst]
    /\ health' = [failed |-> 0, circuit |-> "closed"]
    /\ UNCHANGED <<files, adj, overwritten>>

Usages == {None} \cup 0..MaxOut
Upstream(r) ==
    \/ UpstreamAnswers(r)
    \/ \E lands \in BOOLEAN :
        \/ UpstreamFails(r, lands) \/ UpstreamTimesOut(r, lands) \/ BodyBreaks(r, lands)
        \/ \E good, aborted \in BOOLEAN, usage \in Usages :
            Settle(r, settleTokenCounts(good, aborted, usage), lands)
    \/ \E good, aborted \in BOOLEAN, usage \in Usages :
        SettleThrows(r, settleTokenCounts(good, aborted, usage))

Lookup(r) == HostIsSafe(r) \/ \E lands \in BOOLEAN : HostIsUnsafe(r, lands)
Notice(r) == \E lands \in BOOLEAN : maybeNotifyCreditLow(r, lands)

Arrive(r, k) ==
    \/ NoOwner(r, k) \/ TooFast(r, k) \/ CircuitOpen(r, k) \/ AllInFlight(r, k)
    \/ ReserveThrows(r, k)
    \/ \E lands \in BOOLEAN : TurnedAway(r, k, lands) \/ Admit(r, k, lands)

Next ==
    \/ \E t \in Txs : \/ ReverseDeposit(t) \/ OperatorReads(t)
                      \/ \E resolved \in BOOLEAN : CreditDeposit(t, resolved)
    \/ OperatorWrites
    \/ \E k \in Keys : \/ RequestAccess(k) \/ checkNonceAfterVerify(k) \/ revokeApiKey(k)
                       \/ \E resolved, lands \in BOOLEAN : mintApiKey(k, resolved, lands)
    \/ \E n \in Names : Refill(n)
    \/ \E healthy \in BOOLEAN : setHealth(healthy)
    \/ CircuitElapses
    \/ \E r \in Reqs : \/ \E k \in Keys : Arrive(r, k)
                       \/ Lookup(r) \/ Fetch(r) \/ Upstream(r) \/ Drained(r) \/ Notice(r)
    \/ Crash

Spec == Init /\ [][Next]_vars

\* The event loop goes on, look-ups and fetches end (the fetch at the latest
\* with its timeout, the body with the client library's), the operator's
\* process gets to its write.
Fairness ==
    /\ WF_vars(OperatorWrites)
    /\ \A r \in Reqs : /\ WF_vars(Lookup(r)) /\ WF_vars(Fetch(r)) /\ WF_vars(Upstream(r))
                       /\ WF_vars(Drained(r)) /\ WF_vars(Notice(r))
FairSpec == Spec /\ Fairness

-----------------------------------------------------------------------------
(* Properties. *)

TypeOK ==
    /\ meter \in Meter
    /\ deposits \in [Txs -> {"new", "credited", "reversed"}]
    /\ keys \in [Keys -> {"none", "active", "revoked"}] /\ nameOf \in [Keys -> Names]
    /\ cache \subseteq Keys /\ access \in [Keys -> {"new", "verify", "resolve", "done"}]
    /\ at \in [Reqs -> {"new", "dns", "gate", "fetch", "drain", "body", "low", "done"}]
    /\ \A r \in Reqs : at[r] \in Live \cup {"low"} <=> key[r] \in Keys
    /\ inflight \in [Names -> Nat] /\ tokens \in [Names -> 0..Burst]
    /\ adj = None \/ (adj.read \in Meter /\ adj.write \in Meter)

Held(n) == {r \in Reqs : at[r] \in Live /\ Name(r) = n}

\* What is in a name's bucket; what was deposited under both names, and where
\* it went: into balances and spent.
Holding(m, n) == IF Has(m, n) THEN m.buyers[n] ELSE NewBucket
Deposited(m) == Holding(m, Identity).deposited + Holding(m, Alias).deposited
Coins(m) == Holding(m, Identity).balance + Holding(m, Identity).spent
            + Holding(m, Alias).balance + Holding(m, Alias).spent

OnTheWay == {r \in Reqs : at[r] \in Live}
Reserved == Estimate * Cardinality(OnTheWay)
CreditedTxs == {t \in Txs : deposits[t] = "credited"}

\* As long as no process has written over another's change, every coin that
\* was deposited is in a balance, spent, reserved by a request that is on its
\* way, or was reserved by one that ended without a settle (the daemon died or
\* the disk was full), whatever buckets were merged in between.  A deposit that
\* the operator's process has yet to write is not counted.
BalanceIsExplained ==
    LET inHand == IF adj = None THEN 0 ELSE 1
    IN  ~overwritten =>
          /\ Deposited(meter) = Before + Amount * (Cardinality(CreditedTxs) - inHand)
          /\ Coins(meter) + Reserved + stranded = Deposited(meter)

\* A slot is counted for exactly the requests that are on their way and those
\* that ended in a failed save: none is given back twice, none is kept by a
\* request that was turned away, refunded or settled.
SlotsAreHeld == \A n \in Names : inflight[n] = Cardinality(Held(n)) + leaked[n]

\* An access envelope that arrives twice, even while it is being verified,
\* yields one key.  (The nonce cache lives as long as the daemon.)
OneKeyPerEnvelope ==
    ~crashed =>
        \A k, l \in Keys :
            k # l /\ NonceOf[k] = NonceOf[l] => "none" \in {keys[k], keys[l]}

\* A request that has a slot gets an answer, be it that an earlier one through
\* the gate times out, is drained or fails to be settled.
EveryRequestEnds == \A r \in Reqs : at[r] \in Live ~> at[r] \in {"low", "drain", "done"}

\* A name that leads to the identity's balance goes on to do so.
AliasStays ==
    [][resolveBuyerKey(meter, Alias) = Identity => resolveBuyerKey(meter', Alias) = Identity]_meter

=============================================================================
