--------------------------- MODULE ApiProxyProofs ---------------------------
(***************************************************************************)
(* Proofs about ApiProxy: each slot belongs to a request (SlotInv), an     *)
(* envelope yields one key (EnvelopeInv), and the deposited coins are in a *)
(* balance, spent, reserved or stranded (BalanceInv).                      *)
(***************************************************************************)
EXTENDS ApiProxy, FiniteSetTheorems, TLAPS

Points == {"new", "dns", "gate", "fetch", "drain", "body", "low", "done"}

\* Requests and keys keep their types; a low-credit notice is due for a request
\* that waits for it.
FlowTypes ==
    /\ at \in [Reqs -> Points]
    /\ key \in [Reqs -> Keys \cup {None}]
    /\ nameOf \in [Keys -> Names]
    /\ keys \in [Keys -> {"none", "active", "revoked"}]
    /\ access \in [Keys -> {"new", "verify", "resolve", "done"}]
    /\ tick # None => tick \in Reqs /\ at[tick] = "low" /\ key[tick] \in Keys
SlotTypes == FlowTypes /\ inflight \in [Names -> Nat] /\ leaked \in [Names -> Nat]

\* A key is minted once, at the end of its access request; only minted keys are
\* cached, and a request on its way came with one.
KeySound ==
    /\ \A k \in Keys : access[k] # "done" => keys[k] = "none"
    /\ cache \subseteq Keys /\ \A k \in cache : keys[k] # "none"
    /\ \A r \in Reqs : at[r] \in Live => key[r] \in Keys /\ keys[key[r]] # "none"

SlotInv == SlotTypes /\ KeySound /\ SlotsAreHeld

-----------------------------------------------------------------------------
(* What a step does to the slots *)

\* The requests of S are on their way, or not, as before, and under the same name.
Unmoved(S) ==
    \A q \in S : /\ at'[q] \in Live <=> at[q] \in Live
                 /\ at[q] \in Live => nameOf'[key'[q]] = Name(q)

\* A slot is taken with the start of a request; given back with its end; kept
\* for ever by a request whose save failed, on its way or before it started.
Keeps == Unmoved(Reqs) /\ UNCHANGED <<inflight, leaked>>
Takes ==
    \E r \in Reqs, n \in Names :
        /\ Unmoved(Reqs \ {r}) /\ at[r] \notin Live /\ at'[r] \in Live
        /\ nameOf'[key'[r]] = n
        /\ inflight' = [inflight EXCEPT ![n] = @ + 1] /\ UNCHANGED leaked
Gives ==
    \E r \in Reqs :
        /\ Unmoved(Reqs \ {r}) /\ at[r] \in Live /\ at'[r] \notin Live
        /\ Release(Name(r)) /\ UNCHANGED leaked
Leaks ==
    \E r \in Reqs :
        /\ Unmoved(Reqs \ {r}) /\ at[r] \in Live /\ at'[r] \notin Live
        /\ leaked' = [leaked EXCEPT ![Name(r)] = @ + 1] /\ UNCHANGED inflight
LeaksAtOnce ==
    \E n \in Names :
        /\ Unmoved(Reqs)
        /\ inflight' = [inflight EXCEPT ![n] = @ + 1]
        /\ leaked' = [leaked EXCEPT ![n] = @ + 1]
Lost ==
    /\ \A r \in Reqs : at'[r] \notin Live
    /\ inflight' = [n \in Names |-> 0] /\ leaked' = [n \in Names |-> 0]

\* A request that moves on its way keeps its slot.
LEMMA MovesOn ==
    ASSUME SlotInv, NEW r \in Reqs, NEW p \in Points, UNCHANGED <<nameOf, inflight, leaked>>,
           at' = [at EXCEPT ![r] = p], at[r] \in Live <=> p \in Live,
           key' = key \/ (at[r] \notin Live /\ \E k : key' = [key EXCEPT ![r] = k])
    PROVE  Keeps
BY DEF Keeps, Unmoved, Name, SlotInv, SlotTypes, FlowTypes

\* The end of a request leaves the others alone.
LEMMA EndsOne ==
    ASSUME SlotInv, NEW r \in Reqs, End(r), UNCHANGED nameOf
    PROVE  /\ Unmoved(Reqs \ {r}) /\ at'[r] \notin Live
           /\ at[r] \notin Live => Unmoved(Reqs)
BY DEF End, Unmoved, Name, SlotInv, SlotTypes, FlowTypes, Live

\* A refund gives the slot back.
LEMMA RefundGives ==
    ASSUME SlotInv, NEW r \in Reqs, NEW lands, refundOnce(r, lands), at[r] \in Live,
           End(r) \/ (at' = [at EXCEPT ![r] = "drain"] /\ key' = [key EXCEPT ![r] = None])
    PROVE  Gives
<1>1. UNCHANGED <<nameOf, leaked>> /\ Release(Name(r))
  BY DEF refundOnce
<1>2. Unmoved(Reqs \ {r}) /\ at'[r] \notin Live
  BY <1>1, EndsOne DEF End, Unmoved, Name, SlotInv, SlotTypes, FlowTypes, Live
<1> QED BY <1>1, <1>2 DEF Gives

\* A refund that is not saved keeps it.
LEMMA RefundLeaks ==
    ASSUME SlotInv, NEW r \in Reqs, RefundThrows(r), at[r] \in Live
    PROVE  Leaks
<1>1. End(r) /\ UNCHANGED <<nameOf, inflight>> /\ leaked' = [leaked EXCEPT ![Name(r)] = @ + 1]
  BY DEF RefundThrows, files, bounds
<1> QED BY <1>1, EndsOne DEF Leaks

\* A step that does not touch a request keeps the slots, a mint included: the
\* key it names is nobody's yet.
LEMMA ElsewhereKeeps ==
    ASSUME SlotInv, UNCHANGED <<at, key, inflight, leaked>>,
           nameOf' = nameOf \/ \E k \in Keys, n \in Names :
                                  access[k] # "done" /\ nameOf' = [nameOf EXCEPT ![k] = n]
    PROVE  Keeps
BY DEF Keeps, Unmoved, Name, SlotInv, SlotTypes, FlowTypes, KeySound

\* Every step does one of these to the slots.
LEMMA SlotSteps ==
    ASSUME SlotInv, [Next]_vars
    PROVE  Keeps \/ Takes \/ Gives \/ Leaks \/ LeaksAtOnce \/ Lost
<1> USE ProxyAssumption DEF files, memory, flow, history, bounds
<1> DEFINE Goal == Keeps \/ Takes \/ Gives \/ Leaks \/ LeaksAtOnce \/ Lost
<1>t. SlotTypes
  BY DEF SlotInv
<1>n. Identity \in Names /\ Alias \in Names
  OBVIOUS
<1>1. CASE UNCHANGED vars
  BY <1>1, ElsewhereKeeps DEF vars
<1>2. ASSUME NEW t \in Txs, NEW b \in BOOLEAN, ReverseDeposit(t) \/ OperatorReads(t) \/ CreditDeposit(t, b)
      PROVE Goal
  BY <1>2, ElsewhereKeeps DEF ReverseDeposit, OperatorReads, CreditDeposit
<1>3. CASE OperatorWrites
  BY <1>3, ElsewhereKeeps DEF OperatorWrites
<1>4. ASSUME NEW k \in Keys, RequestAccess(k) \/ checkNonceAfterVerify(k) \/ revokeApiKey(k)
      PROVE Goal
  BY <1>4, ElsewhereKeeps DEF RequestAccess, checkNonceAfterVerify, revokeApiKey
<1>5. ASSUME NEW k \in Keys, NEW resolved, NEW lands, mintApiKey(k, resolved, lands) PROVE Goal
  <2>1. UNCHANGED <<at, key, inflight, leaked>> /\ access[k] # "done"
        /\ \E n \in Names : nameOf' = [nameOf EXCEPT ![k] = n]
    BY <1>5, <1>n DEF mintApiKey
  <2> QED BY <2>1, ElsewhereKeeps
<1>6. ASSUME NEW n \in Names, Refill(n) PROVE Goal
  BY <1>6, ElsewhereKeeps DEF Refill
<1>7. ASSUME NEW healthy, setHealth(healthy) \/ CircuitElapses PROVE Goal
  BY <1>7, ElsewhereKeeps DEF setHealth, CircuitElapses
<1>8. ASSUME NEW r \in Reqs, NEW k \in Keys, Arrive(r, k) PROVE Goal
  <2>1. UNCHANGED nameOf /\ at[r] \notin Live
    BY <1>8 DEF Arrive, NoOwner, TooFast, CircuitOpen, AllInFlight, ReserveThrows, TurnedAway,
       Admit, Starts, Enters, Live
  <2>2. CASE End(r) /\ UNCHANGED <<inflight, leaked>>
    BY <2>1, <2>2, EndsOne DEF Keeps
  <2>3. CASE ReserveThrows(r, k)
    <3>1. nameOf[k] \in Names
      BY <1>t DEF SlotTypes, FlowTypes
    <3>2. End(r) /\ inflight' = [inflight EXCEPT ![nameOf[k]] = @ + 1]
          /\ leaked' = [leaked EXCEPT ![nameOf[k]] = @ + 1]
      BY <2>3 DEF ReserveThrows
    <3> QED BY <2>1, <3>1, <3>2, EndsOne DEF LeaksAtOnce
  <2>4. ASSUME NEW lands, Admit(r, k, lands) PROVE Goal
    <3>1. nameOf[k] \in Names
      BY <1>t DEF SlotTypes, FlowTypes
    <3>2. inflight' = [inflight EXCEPT ![nameOf[k]] = @ + 1] /\ UNCHANGED leaked
          /\ at' = [at EXCEPT ![r] = "dns"] /\ key' = [key EXCEPT ![r] = k]
      BY <2>4 DEF Admit
    <3>3. Unmoved(Reqs \ {r}) /\ at'[r] \in Live /\ nameOf'[key'[r]] = nameOf[k]
      BY <1>t, <2>1, <3>2 DEF Unmoved, Name, SlotTypes, FlowTypes, Live
    <3> QED BY <2>1, <3>1, <3>2, <3>3 DEF Takes
  <2> QED BY <1>8, <2>2, <2>3, <2>4 DEF Arrive, NoOwner, TooFast, CircuitOpen, AllInFlight,
             TurnedAway
<1>9. ASSUME NEW r \in Reqs, HostIsSafe(r) \/ Fetch(r) \/ UpstreamAnswers(r) PROVE Goal
  BY <1>9, <1>t, MovesOn DEF HostIsSafe, Fetch, UpstreamAnswers, Live, Points, SlotTypes, FlowTypes
<1>10. ASSUME NEW r \in Reqs, NEW lands,
              HostIsUnsafe(r, lands) \/ UpstreamFails(r, lands) \/ UpstreamTimesOut(r, lands)
              \/ BodyBreaks(r, lands)
       PROVE Goal
  <2>1. at[r] \in Live
    BY <1>10 DEF HostIsUnsafe, UpstreamFails, UpstreamTimesOut, BodyBreaks, Live
  <2>2. CASE RefundThrows(r)
    BY <2>1, <2>2, RefundLeaks
  <2>3. CASE /\ refundOnce(r, lands)
             /\ End(r) \/ (at' = [at EXCEPT ![r] = "drain"] /\ key' = [key EXCEPT ![r] = None])
    BY <2>1, <2>3, RefundGives
  <2> QED BY <1>10, <2>2, <2>3 DEF HostIsUnsafe, UpstreamFails, UpstreamTimesOut, BodyBreaks
<1>11. ASSUME NEW r \in Reqs, Drained(r) PROVE Goal
  <2>1. End(r) /\ UNCHANGED <<nameOf, inflight, leaked>> /\ at[r] \notin Live
    BY <1>11 DEF Drained, Live
  <2> QED BY <2>1, EndsOne DEF Keeps
<1>12. ASSUME NEW r \in Reqs, NEW actual, NEW lands, Settle(r, actual, lands) PROVE Goal
  <2>1. UNCHANGED <<nameOf, leaked>> /\ at[r] \in Live /\ Release(Name(r))
    BY <1>12 DEF Settle, Live
  <2>2. End(r) \/ (at' = [at EXCEPT ![r] = "low"] /\ UNCHANGED key)
    BY <1>12 DEF Settle
  <2>3. Unmoved(Reqs \ {r}) /\ at'[r] \notin Live
    BY <1>t, <2>1, <2>2, EndsOne DEF Unmoved, Name, SlotTypes, FlowTypes, Live
  <2> QED BY <2>1, <2>3 DEF Gives
<1>13. ASSUME NEW r \in Reqs, NEW actual, SettleThrows(r, actual) PROVE Goal
  <2>1. UNCHANGED <<nameOf, inflight>> /\ at[r] \in Live /\ End(r)
        /\ leaked' = [leaked EXCEPT ![Name(r)] = @ + 1]
    BY <1>13 DEF SettleThrows, Live
  <2> QED BY <2>1, EndsOne DEF Leaks
<1>14. ASSUME NEW r \in Reqs, NEW lands, maybeNotifyCreditLow(r, lands) PROVE Goal
  <2>1. at[r] = "low" /\ End(r) /\ UNCHANGED <<nameOf, inflight, leaked>>
    BY <1>14, <1>t DEF maybeNotifyCreditLow, SlotTypes, FlowTypes
  <2> QED BY <2>1, EndsOne DEF Keeps, Live
<1>15. CASE Crash
  BY <1>15 DEF Crash, Lost, Live
<1> QED
  BY <1>1, <1>2, <1>3, <1>4, <1>5, <1>6, <1>7, <1>8, <1>9, <1>10, <1>11, <1>12, <1>13, <1>14,
     <1>15 DEF Next, Lookup, Upstream, Notice

\* Counters stay counters.
LEMMA CountersTyped ==
    ASSUME SlotInv, Keeps \/ Takes \/ Gives \/ Leaks \/ LeaksAtOnce \/ Lost
    PROVE  inflight' \in [Names -> Nat] /\ leaked' \in [Names -> Nat]
<1>t. inflight \in [Names -> Nat] /\ leaked \in [Names -> Nat]
  BY DEF SlotInv, SlotTypes, FlowTypes
<1>f. ASSUME NEW f \in [Names -> Nat], NEW n
      PROVE  /\ [f EXCEPT ![n] = @ + 1] \in [Names -> Nat]
             /\ [f EXCEPT ![n] = IF @ > 0 THEN @ - 1 ELSE 0] \in [Names -> Nat]
  <2>1. CASE n \in Names
    BY <2>1
  <2>2. CASE n \notin Names
    BY <2>2
  <2> QED BY <2>1, <2>2
<1>1. CASE Keeps
  BY <1>1, <1>t DEF Keeps
<1>2. CASE Takes
  BY <1>2, <1>t, <1>f DEF Takes
<1>3. CASE Gives
  BY <1>3, <1>t, <1>f DEF Gives, Release
<1>4. CASE Leaks
  BY <1>4, <1>t, <1>f DEF Leaks
<1>5. CASE LeaksAtOnce
  BY <1>5, <1>t, <1>f DEF LeaksAtOnce
<1>6. CASE Lost
  BY <1>6 DEF Lost
<1> QED BY <1>1, <1>2, <1>3, <1>4, <1>5, <1>6

-----------------------------------------------------------------------------
(* Counting *)

\* There are finitely many requests, so the slots of a name can be counted.
LEMMA HeldCount ==
    ASSUME NEW n
    PROVE  IsFiniteSet(Held(n)) /\ Cardinality(Held(n)) \in Nat
<1>1. Held(n) \subseteq Reqs
  BY DEF Held
<1> QED BY <1>1, ProxyAssumption, FS_Subset, FS_CardinalityType

\* The requests of a name on their way after a step, when one request moved.
LEMMA HeldMoves ==
    ASSUME NEW n, NEW r \in Reqs, Unmoved(Reqs \ {r})
    PROVE  /\ r \notin Held(n) /\ r \notin Held(n)' => Held(n)' = Held(n)
           /\ r \notin Held(n) /\ r \in Held(n)' => Held(n)' = Held(n) \cup {r}
           /\ r \in Held(n) /\ r \notin Held(n)' => Held(n)' = Held(n) \ {r}
BY DEF Held, Unmoved, Name

\* Whatever a step does to the slots, they are accounted for.
LEMMA SlotsCount ==
    ASSUME SlotInv, Keeps \/ Takes \/ Gives \/ Leaks \/ LeaksAtOnce \/ Lost
    PROVE  SlotsAreHeld'
<1> SUFFICES ASSUME NEW n \in Names
             PROVE  inflight'[n] = Cardinality(Held(n)') + leaked'[n]
  BY DEF SlotsAreHeld
<1>t. inflight \in [Names -> Nat] /\ leaked \in [Names -> Nat]
  BY DEF SlotInv, SlotTypes, FlowTypes
<1>c. /\ inflight[n] = Cardinality(Held(n)) + leaked[n]
      /\ Cardinality(Held(n)) \in Nat /\ IsFiniteSet(Held(n))
  BY HeldCount DEF SlotInv, SlotsAreHeld
<1>h. ASSUME Unmoved(Reqs) PROVE Held(n)' = Held(n)
  BY <1>h DEF Held, Unmoved, Name
<1>1. CASE Keeps
  BY <1>1, <1>c, <1>h DEF Keeps
<1>2. CASE Takes
  <2>1. PICK r \in Reqs, m \in Names :
           /\ Unmoved(Reqs \ {r}) /\ at[r] \notin Live /\ at'[r] \in Live
           /\ nameOf'[key'[r]] = m
           /\ inflight' = [inflight EXCEPT ![m] = @ + 1] /\ UNCHANGED leaked
    BY <1>2 DEF Takes
  <2>2. r \notin Held(n) /\ (r \in Held(n)' <=> n = m)
    BY <2>1 DEF Held, Name
  <2>3. CASE n = m
    <3>1. Held(n)' = Held(n) \cup {r}
      BY <2>1, <2>2, <2>3, HeldMoves
    <3>2. Cardinality(Held(n)') = Cardinality(Held(n)) + 1
      BY <3>1, <2>2, <1>c, FS_AddElement
    <3> QED BY <3>2, <2>1, <2>3, <1>c, <1>t
  <2>4. CASE n # m
    BY <2>1, <2>2, <2>4, <1>c, <1>t, HeldMoves
  <2> QED BY <2>3, <2>4
<1>3. CASE Gives
  <2>1. PICK r \in Reqs : /\ Unmoved(Reqs \ {r}) /\ at[r] \in Live /\ at'[r] \notin Live
                          /\ Release(Name(r)) /\ UNCHANGED leaked
    BY <1>3 DEF Gives
  <2>2. r \notin Held(n)' /\ (r \in Held(n) <=> n = Name(r))
    BY <2>1 DEF Held
  <2>3. CASE n = Name(r)
    <3>1. Held(n)' = Held(n) \ {r} /\ r \in Held(n)
      BY <2>1, <2>2, <2>3, HeldMoves
    <3>2. Cardinality(Held(n)') = Cardinality(Held(n)) - 1
      BY <3>1, <1>c, FS_RemoveElement
    <3>3. Cardinality(Held(n)') \in Nat
      BY <3>1, <1>c, FS_RemoveElement, FS_CardinalityType
    <3>4. inflight[n] > 0
      BY <3>2, <3>3, <1>c, <1>t
    <3>5. inflight'[n] = inflight[n] - 1
      BY <2>1, <2>3, <3>4, <1>t DEF Release
    <3> QED BY <3>2, <3>5, <2>1, <1>c, <1>t
  <2>4. CASE n # Name(r)
    <3>1. Held(n)' = Held(n) /\ inflight'[n] = inflight[n]
      BY <2>1, <2>2, <2>4, <1>t, HeldMoves DEF Release
    <3> QED BY <3>1, <2>1, <1>c
  <2> QED BY <2>3, <2>4
<1>4. CASE Leaks
  <2>1. PICK r \in Reqs : /\ Unmoved(Reqs \ {r}) /\ at[r] \in Live /\ at'[r] \notin Live
                          /\ leaked' = [leaked EXCEPT ![Name(r)] = @ + 1] /\ UNCHANGED inflight
    BY <1>4 DEF Leaks
  <2>2. r \notin Held(n)' /\ (r \in Held(n) <=> n = Name(r))
    BY <2>1 DEF Held
  <2>3. CASE n = Name(r)
    <3>1. Held(n)' = Held(n) \ {r} /\ r \in Held(n)
      BY <2>1, <2>2, <2>3, HeldMoves
    <3>2. Cardinality(Held(n)') = Cardinality(Held(n)) - 1
      BY <3>1, <1>c, FS_RemoveElement
    <3> QED BY <3>2, <2>1, <2>3, <1>c, <1>t
  <2>4. CASE n # Name(r)
    BY <2>1, <2>2, <2>4, <1>c, <1>t, HeldMoves
  <2> QED BY <2>3, <2>4
<1>5. CASE LeaksAtOnce
  BY <1>5, <1>c, <1>h, <1>t DEF LeaksAtOnce
<1>6. CASE Lost
  <2>1. Held(n)' = {}
    BY <1>6 DEF Lost, Held
  <2> QED BY <1>6, <2>1, FS_EmptySet DEF Lost
<1> QED BY <1>1, <1>2, <1>3, <1>4, <1>5, <1>6

-----------------------------------------------------------------------------
(* Types and keys *)

\* Nothing that they are about changes.
LEMMA FlowStays ==
    ASSUME FlowTypes, KeySound,
           UNCHANGED <<at, key, nameOf, keys, access, cache, tick>>
    PROVE  FlowTypes' /\ KeySound'
BY DEF FlowTypes, KeySound

\* One request moves on, or ends, while no low-credit notice is due.
LEMMA FlowMoves ==
    ASSUME FlowTypes, KeySound, UNCHANGED <<nameOf, keys, access>>,
           NEW r \in Reqs, NEW p \in Points, NEW k \in Keys \cup {None},
           at' = [at EXCEPT ![r] = p], key' = [key EXCEPT ![r] = k],
           tick = None, tick' = None \/ (tick' = r /\ p = "low" /\ k \in Keys),
           cache' \subseteq Keys, \A c \in cache' : keys[c] # "none",
           p \in Live => k \in Keys /\ keys[k] # "none"
    PROVE  FlowTypes' /\ KeySound'
BY DEF FlowTypes, KeySound

\* Every step keeps them.
LEMMA FlowNext ==
    ASSUME FlowTypes, KeySound, [Next]_vars
    PROVE  FlowTypes' /\ KeySound'
<1> USE ProxyAssumption DEF files, memory, flow, history, bounds
<1> DEFINE Goal == FlowTypes' /\ KeySound'
<1>e. "done" \in Points /\ "done" \notin Live
  BY DEF Points, Live
<1>k. {k \in Keys : keys[k] = "active"} \subseteq Keys
      /\ \A c \in {k \in Keys : keys[k] = "active"} : keys[c] # "none"
  OBVIOUS
<1>d. ASSUME NEW r \in Reqs, End(r), UNCHANGED <<nameOf, keys, access>>, tick = None, tick' = None,
             cache' \subseteq Keys, \A c \in cache' : keys[c] # "none"
      PROVE  Goal
  BY <1>d, <1>e, FlowMoves DEF End
<1>c. cache \subseteq Keys /\ \A c \in cache : keys[c] # "none"
  BY DEF KeySound
<1>1. CASE UNCHANGED vars
  BY <1>1, FlowStays DEF vars
<1>2. ASSUME NEW t \in Txs, NEW b \in BOOLEAN, ReverseDeposit(t) \/ OperatorReads(t) \/ CreditDeposit(t, b)
      PROVE Goal
  BY <1>2, FlowStays DEF ReverseDeposit, OperatorReads, CreditDeposit
<1>3. CASE OperatorWrites
  BY <1>3, FlowStays DEF OperatorWrites
<1>4. ASSUME NEW k \in Keys, RequestAccess(k) PROVE Goal
  BY <1>4 DEF RequestAccess, FlowTypes, KeySound
<1>5. ASSUME NEW k \in Keys, checkNonceAfterVerify(k) PROVE Goal
  BY <1>5 DEF checkNonceAfterVerify, FlowTypes, KeySound
<1>6. ASSUME NEW k \in Keys, revokeApiKey(k) PROVE Goal
  BY <1>6 DEF revokeApiKey, saveKeys, FlowTypes, KeySound
<1>7. ASSUME NEW k \in Keys, NEW resolved, NEW lands, mintApiKey(k, resolved, lands) PROVE Goal
  BY <1>7 DEF mintApiKey, saveKeys, FlowTypes, KeySound
<1>8. ASSUME NEW n \in Names, Refill(n) PROVE Goal
  BY <1>8, FlowStays DEF Refill
<1>9. ASSUME NEW healthy, setHealth(healthy) \/ CircuitElapses PROVE Goal
  BY <1>9, FlowStays DEF setHealth, CircuitElapses
<1>10. ASSUME NEW r \in Reqs, NEW k \in Keys, Arrive(r, k) PROVE Goal
  <2>1. CASE NoOwner(r, k)
    BY <2>1, <1>c, <1>d DEF NoOwner
  <2>2. CASE Enters(r, k)
    <3>1. UNCHANGED <<nameOf, keys, access, tick>> /\ tick = None
      BY <1>10, <2>2 DEF Enters, Arrive, NoOwner, TooFast, CircuitOpen, AllInFlight,
         ReserveThrows, TurnedAway, Admit
    <3>2. keys[k] # "none" /\ cache' \subseteq Keys /\ \A c \in cache' : keys[c] # "none"
      BY <1>c, <2>2 DEF Enters, findKeyOwner
    <3>3. CASE End(r)
      BY <3>1, <3>2, <3>3, <1>d
    <3>4. CASE at' = [at EXCEPT ![r] = "dns"] /\ key' = [key EXCEPT ![r] = k]
      <4>1. "dns" \in Points
        BY DEF Points
      <4> QED BY <3>1, <3>2, <3>4, <4>1, FlowMoves
    <3> QED BY <1>10, <2>2, <3>3, <3>4 DEF Enters, Arrive, NoOwner, TooFast, CircuitOpen,
               AllInFlight, ReserveThrows, TurnedAway, Admit
  <2> QED BY <1>10, <2>1, <2>2 DEF Arrive, TooFast, CircuitOpen, AllInFlight, ReserveThrows,
             TurnedAway, Admit, Starts
<1>11. ASSUME NEW r \in Reqs, HostIsSafe(r) \/ Fetch(r) \/ UpstreamAnswers(r) PROVE Goal
  <2>1. UNCHANGED <<nameOf, keys, access, cache, tick, key>> /\ at[r] \in Live /\ tick = None
    BY <1>11 DEF HostIsSafe, Fetch, UpstreamAnswers, Live
  <2>3. PICK p \in Live : at' = [at EXCEPT ![r] = p]
    BY <1>11 DEF HostIsSafe, Fetch, UpstreamAnswers, Live
  <2>4. p \in Points
    BY DEF Live, Points
  <2>2. key' = [key EXCEPT ![r] = key[r]] /\ key[r] \in Keys /\ keys[key[r]] # "none"
    BY <2>1 DEF FlowTypes, KeySound
  <2>5. cache' \subseteq Keys /\ \A c \in cache' : keys[c] # "none"
    BY <2>1, <1>c
  <2> QED BY <2>1, <2>2, <2>3, <2>4, <2>5, FlowMoves
<1>12. ASSUME NEW r \in Reqs, NEW lands,
              HostIsUnsafe(r, lands) \/ UpstreamFails(r, lands) \/ UpstreamTimesOut(r, lands)
              \/ BodyBreaks(r, lands)
       PROVE Goal
  <2>1. UNCHANGED <<nameOf, keys, access, cache, tick>> /\ tick = None
    BY <1>12 DEF HostIsUnsafe, UpstreamFails, UpstreamTimesOut, BodyBreaks, refundOnce, RefundThrows
  <2>2. End(r) \/ (at' = [at EXCEPT ![r] = "drain"] /\ key' = [key EXCEPT ![r] = None])
    BY <1>12 DEF HostIsUnsafe, UpstreamFails, UpstreamTimesOut, BodyBreaks, RefundThrows
  <2>3. "drain" \in Points /\ "drain" \notin Live
    BY DEF Points, Live
  <2> QED BY <2>1, <2>2, <2>3, <1>c, <1>d, FlowMoves
<1>13. ASSUME NEW r \in Reqs, Drained(r) PROVE Goal
  BY <1>13, <1>c, <1>d DEF Drained
<1>14. ASSUME NEW r \in Reqs, NEW actual, NEW lands, Settle(r, actual, lands) PROVE Goal
  <2>1. UNCHANGED <<nameOf, keys, access>> /\ tick = None /\ at[r] = "body"
        /\ cache' = {k \in Keys : keys[k] = "active"}
    BY <1>14 DEF Settle, saveKeys
  <2>2. CASE End(r) /\ UNCHANGED tick
    BY <2>1, <2>2, <1>k, <1>d
  <2>3. CASE tick' = r /\ at' = [at EXCEPT ![r] = "low"] /\ UNCHANGED key
    <3>1. key' = [key EXCEPT ![r] = key[r]] /\ key[r] \in Keys
      BY <2>1, <2>3 DEF FlowTypes, KeySound, Live
    <3>2. "low" \in Points /\ "low" \notin Live
      BY DEF Points, Live
    <3> QED BY <2>1, <2>3, <3>1, <3>2, <1>k, FlowMoves
  <2> QED BY <1>14, <2>2, <2>3 DEF Settle
<1>15. ASSUME NEW r \in Reqs, NEW actual, SettleThrows(r, actual) PROVE Goal
  BY <1>15, <1>c, <1>d DEF SettleThrows
<1>16. ASSUME NEW r \in Reqs, NEW lands, maybeNotifyCreditLow(r, lands) PROVE Goal
  <2>1. UNCHANGED <<nameOf, keys, access, cache>> /\ tick' = None /\ End(r)
    BY <1>16 DEF maybeNotifyCreditLow
  <2> QED BY <2>1 DEF End, FlowTypes, KeySound, Points, Live
<1>17. CASE Crash
  <2>1. /\ at' = [r \in Reqs |-> IF at[r] = "new" THEN "new" ELSE "done"]
        /\ key' = [r \in Reqs |-> None]
        /\ access' = [k \in Keys |-> IF access[k] = "new" THEN "new" ELSE "done"]
        /\ cache' = {} /\ tick' = None /\ UNCHANGED <<nameOf, keys>>
    BY <1>17 DEF Crash
  <2>2. FlowTypes'
    BY <2>1 DEF FlowTypes, Points
  <2>3. KeySound'
    BY <2>1 DEF KeySound, Live, FlowTypes
  <2> QED BY <2>2, <2>3
<1> QED
  BY <1>1, <1>2, <1>3, <1>4, <1>5, <1>6, <1>7, <1>8, <1>9, <1>10, <1>11, <1>12, <1>13, <1>14,
     <1>15, <1>16, <1>17 DEF Next, Lookup, Upstream, Notice

\* The daemon starts without slots and without keys.
LEMMA SlotInit == Init => SlotInv
<1> SUFFICES ASSUME Init PROVE SlotInv
  OBVIOUS
<1>1. SlotTypes
  BY ProxyAssumption DEF Init, SlotTypes, FlowTypes, Points
<1>2. KeySound
  BY DEF Init, KeySound, Live
<1>3. SlotsAreHeld
  <2>1. ASSUME NEW n \in Names PROVE Held(n) = {}
    BY DEF Init, Held, Live
  <2>2. \A n \in Names : inflight[n] = 0 /\ leaked[n] = 0
    BY DEF Init
  <2> QED BY <2>1, <2>2, FS_EmptySet DEF SlotsAreHeld
<1> QED BY <1>1, <1>2, <1>3 DEF SlotInv

\* Every step keeps the slots accounted for.
LEMMA SlotNext == SlotInv /\ [Next]_vars => SlotInv'
<1> SUFFICES ASSUME SlotInv, [Next]_vars PROVE SlotInv'
  OBVIOUS
<1>1. FlowTypes' /\ KeySound'
  BY FlowNext DEF SlotInv, SlotTypes, FlowTypes
<1> QED BY <1>1, SlotSteps, CountersTyped, SlotsCount DEF SlotInv, SlotTypes, FlowTypes

\* A slot is counted for exactly the requests on their way and those that ended
\* in a failed save, whatever is refused, refunded, drained or cut short.
THEOREM SlotsAreAccountedFor == Spec => []SlotsAreHeld
<1>1. SlotInv => SlotsAreHeld
  BY DEF SlotInv
<1> QED BY SlotInit, SlotNext, <1>1, PTL DEF Spec

-----------------------------------------------------------------------------
(* One key per envelope *)

\* The access request of the key has passed the nonce check.
Granted(k) == access[k] = "resolve" \/ keys[k] # "none"

\* Until the daemon dies, and forgets its nonces, what was granted has its
\* nonce on record, and no two requests with one nonce were.
EnvelopeInv ==
    ~crashed =>
        /\ \A k \in Keys : Granted(k) => NonceOf[k] \in seen
        /\ \A k, l \in Keys :
              k # l /\ NonceOf[k] = NonceOf[l] => ~Granted(k) \/ ~Granted(l)

\* Access requests, nonces and keys change in four places, and in a crash.
LEMMA AccessSteps ==
    ASSUME [Next]_vars
    PROVE  \/ UNCHANGED <<keys, access, seen, crashed>>
           \/ crashed'
           \/ \E k \in Keys : RequestAccess(k) \/ checkNonceAfterVerify(k) \/ revokeApiKey(k)
           \/ \E k \in Keys : \E resolved, lands \in BOOLEAN : mintApiKey(k, resolved, lands)
<1> USE DEF files, memory, flow, history, bounds
<1> DEFINE Quiet == UNCHANGED <<keys, access, seen, crashed>>
<1>1. CASE UNCHANGED vars
  BY <1>1 DEF vars
<1>2. ASSUME NEW t \in Txs, NEW b \in BOOLEAN, ReverseDeposit(t) \/ OperatorReads(t) \/ CreditDeposit(t, b)
      PROVE Quiet
  BY <1>2 DEF ReverseDeposit, OperatorReads, CreditDeposit
<1>3. ASSUME OperatorWrites \/ CircuitElapses PROVE Quiet
  BY <1>3 DEF OperatorWrites, CircuitElapses
<1>4. ASSUME NEW n \in Names, Refill(n) PROVE Quiet
  BY <1>4 DEF Refill
<1>5. ASSUME NEW healthy, setHealth(healthy) PROVE Quiet
  BY <1>5 DEF setHealth
<1>6. ASSUME NEW r \in Reqs, NEW k \in Keys, Arrive(r, k) PROVE Quiet
  BY <1>6 DEF Arrive, NoOwner, TooFast, CircuitOpen, AllInFlight, ReserveThrows, TurnedAway,
     Admit, Starts, Enters
<1>7. ASSUME NEW r \in Reqs, HostIsSafe(r) \/ Fetch(r) \/ UpstreamAnswers(r) \/ Drained(r) PROVE Quiet
  BY <1>7 DEF HostIsSafe, Fetch, UpstreamAnswers, Drained
<1>8. ASSUME NEW r \in Reqs, NEW lands,
             HostIsUnsafe(r, lands) \/ UpstreamFails(r, lands) \/ UpstreamTimesOut(r, lands)
             \/ BodyBreaks(r, lands)
      PROVE Quiet
  BY <1>8 DEF HostIsUnsafe, UpstreamFails, UpstreamTimesOut, BodyBreaks, refundOnce, RefundThrows
<1>9. ASSUME NEW r \in Reqs, NEW actual, NEW lands,
             Settle(r, actual, lands) \/ SettleThrows(r, actual) \/ maybeNotifyCreditLow(r, lands)
      PROVE Quiet
  BY <1>9 DEF Settle, saveKeys, SettleThrows, maybeNotifyCreditLow
<1>10. CASE Crash
  BY <1>10 DEF Crash
<1> QED
  BY <1>1, <1>2, <1>3, <1>4, <1>5, <1>6, <1>7, <1>8, <1>9, <1>10 DEF Next, Lookup, Upstream, Notice

\* Every step keeps what was granted apart.
LEMMA EnvelopeNext ==
    ASSUME FlowTypes, EnvelopeInv, [Next]_vars
    PROVE  EnvelopeInv'
<1> USE DEF files, memory, bounds
<1>1. CASE UNCHANGED <<keys, access, seen, crashed>>
  BY <1>1 DEF EnvelopeInv, Granted
<1>2. CASE crashed'
  BY <1>2 DEF EnvelopeInv
<1>3. ASSUME NEW k \in Keys, RequestAccess(k) PROVE EnvelopeInv'
  BY <1>3 DEF RequestAccess, EnvelopeInv, Granted, FlowTypes
<1>4. ASSUME NEW k \in Keys, checkNonceAfterVerify(k) PROVE EnvelopeInv'
  BY <1>4 DEF checkNonceAfterVerify, hasSeenNonce, checkAndRecordNonce, EnvelopeInv, Granted, FlowTypes
<1>5. ASSUME NEW k \in Keys, revokeApiKey(k) PROVE EnvelopeInv'
  BY <1>5 DEF revokeApiKey, saveKeys, EnvelopeInv, Granted, FlowTypes
<1>6. ASSUME NEW k \in Keys, NEW resolved, NEW lands, mintApiKey(k, resolved, lands) PROVE EnvelopeInv'
  BY <1>6 DEF mintApiKey, saveKeys, withMeterLock, NoMeterChange, EnvelopeInv, Granted, FlowTypes
<1> QED BY <1>1, <1>2, <1>3, <1>4, <1>5, <1>6, AccessSteps

\* An access envelope that arrives twice, even while it is being verified,
\* yields one key as long as the daemon lives.
THEOREM EnvelopesAreUsedOnce == Spec => []OneKeyPerEnvelope
<1> DEFINE IInv == FlowTypes /\ KeySound /\ EnvelopeInv
<1>1. Init => IInv
  <2> SUFFICES ASSUME Init PROVE IInv
    OBVIOUS
  <2>1. FlowTypes /\ KeySound
    BY SlotInit DEF SlotInv, SlotTypes, FlowTypes
  <2>2. EnvelopeInv
    BY DEF Init, EnvelopeInv, Granted
  <2> QED BY <2>1, <2>2
<1>2. IInv /\ [Next]_vars => IInv'
  BY FlowNext, EnvelopeNext
<1>3. IInv => OneKeyPerEnvelope
  BY DEF EnvelopeInv, Granted, OneKeyPerEnvelope, FlowTypes
<1> HIDE DEF IInv
<1> QED BY <1>1, <1>2, <1>3, PTL DEF Spec

-----------------------------------------------------------------------------
(* What an operation does to the balances *)

\* Every name leads to the identity or nowhere else than itself, and deposits
\* went into the identity's bucket only.
MeterSound(m) ==
    /\ m \in Meter
    /\ \A n \in Names : m.aliases[n] \in {None, Identity}
    /\ Holding(m, Alias).lastTx = None

\* The file m2 differs from m by deposits of d and by c in balances and spending.
Moved(m, m2, d, c) ==
    /\ MeterSound(m2)
    /\ Deposited(m2) = Deposited(m) + d
    /\ Coins(m2) = Coins(m) + c
LastTx(m) == Holding(m, Identity).lastTx

\* What a name holds is a bucket, if only an empty one.
LEMMA HoldingTyped ==
    ASSUME NEW m \in Meter, NEW n \in Names
    PROVE  /\ Holding(m, n) \in Bucket
           /\ Has(m, n) <=> m.buyers[n] # None
           /\ Has(m, n) => Holding(m, n) = m.buyers[n]
           /\ ~Has(m, n) => Holding(m, n) = NewBucket
           /\ NewBucket \in Bucket
<1>1. NewBucket \in Bucket
  BY DEF NewBucket, Bucket
<1>2. m.buyers[n] \in Bucket \cup {None} /\ n # None
  BY NoneAssumption DEF Meter
<1> QED BY <1>1, <1>2, NoneAssumption DEF Holding, Has

\* A name leads to a name, whose bucket is the one that is changed.
LEMMA Resolves ==
    ASSUME NEW m \in Meter, NEW n \in Names
    PROVE  /\ resolveBuyerKey(m, n) \in Names
           /\ ensureBuyer(m, n) = Holding(m, resolveBuyerKey(m, n))
           /\ ensureBuyer(m, n) \in Bucket
           /\ resolveBuyerKey(m, n) # n => resolveBuyerKey(m, n) = m.aliases[n]
<1>1. resolveBuyerKey(m, n) \in Names
  BY DEF resolveBuyerKey, Meter, Has
<1>2. ensureBuyer(m, n) = Holding(m, resolveBuyerKey(m, n))
  BY DEF ensureBuyer, Holding
<1>3. resolveBuyerKey(m, n) # n => resolveBuyerKey(m, n) = m.aliases[n]
  BY DEF resolveBuyerKey
<1> QED BY <1>1, <1>2, <1>3, HoldingTyped

\* A bucket put under a name replaces that one.
LEMMA PutHolding ==
    ASSUME NEW m \in Meter, NEW n \in Names, NEW b \in Bucket
    PROVE  LET k == resolveBuyerKey(m, n) IN
           /\ Put(m, n, b) \in Meter
           /\ Put(m, n, b).aliases = m.aliases
           /\ Holding(Put(m, n, b), k) = b
           /\ \A x \in Names : x # k => Holding(Put(m, n, b), x) = Holding(m, x)
<1> DEFINE k == resolveBuyerKey(m, n)
           q == [m EXCEPT !.buyers[k] = b]
<1>1. k \in Names
  BY Resolves
<1>2. q \in Meter /\ q.aliases = m.aliases /\ q.buyers = [m.buyers EXCEPT ![k] = b]
  BY <1>1 DEF Meter
<1>3. q.buyers[k] = b /\ \A x \in Names : x # k => q.buyers[x] = m.buyers[x]
  BY <1>1, <1>2 DEF Meter
<1>4. b # None /\ None \notin Names
  BY NoneAssumption
<1>5. Holding(q, k) = b /\ \A x \in Names : x # k => Holding(q, x) = Holding(m, x)
  BY <1>1, <1>3, <1>4 DEF Holding, Has
<1> QED BY <1>2, <1>5 DEF Put

\* The totals after a bucket was changed.
LEMMA PutMoves ==
    ASSUME NEW m, MeterSound(m), NEW n \in Names, NEW b \in Bucket,
           n = Identity \/ b.lastTx = ensureBuyer(m, n).lastTx
    PROVE  LET e == ensureBuyer(m, n) IN
           /\ Moved(m, Put(m, n, b), b.deposited - e.deposited,
                    b.balance + b.spent - e.balance - e.spent)
           /\ n = Identity => LastTx(Put(m, n, b)) = b.lastTx
           /\ b.lastTx = e.lastTx => LastTx(Put(m, n, b)) = LastTx(m)
<1> USE ProxyAssumption
<1> DEFINE k == resolveBuyerKey(m, n)
           p == Put(m, n, b)
           e == ensureBuyer(m, n)
<1>1. m \in Meter /\ (\A x \in Names : m.aliases[x] \in {None, Identity})
      /\ Holding(m, Alias).lastTx = None
  BY DEF MeterSound
<1>2. /\ p \in Meter /\ p.aliases = m.aliases
      /\ Holding(p, k) = b /\ \A x \in Names : x # k => Holding(p, x) = Holding(m, x)
  BY <1>1, PutHolding
<1>3. k \in Names /\ e = Holding(m, k) /\ e \in Bucket
  BY <1>1, Resolves
<1>4. n = Identity => k = Identity
  <2>1. k # n => k = m.aliases[n]
    BY <1>1, Resolves
  <2> QED BY <2>1, <1>1, <1>3, NoneAssumption
<1>5. Identity \in Names /\ Alias \in Names
  OBVIOUS
<1>6. /\ Holding(m, Identity) \in Bucket /\ Holding(m, Alias) \in Bucket
      /\ Holding(p, Identity) \in Bucket /\ Holding(p, Alias) \in Bucket
  BY <1>1, <1>2, <1>5, HoldingTyped
<1>7. Holding(p, Alias).lastTx = None
  BY <1>1, <1>2, <1>3, <1>4, <1>5
<1>8. MeterSound(p)
  BY <1>1, <1>2, <1>7 DEF MeterSound
<1>9. CASE k = Identity
  <2>1. /\ Holding(p, Identity) = b /\ Holding(m, Identity) = e
        /\ Holding(p, Alias) = Holding(m, Alias)
    BY <1>9, <1>2, <1>3, <1>5
  <2>2. /\ Deposited(p) = Deposited(m) + (b.deposited - e.deposited)
        /\ Coins(p) = Coins(m) + (b.balance + b.spent - e.balance - e.spent)
    BY <2>1, <1>6 DEF Deposited, Coins, Bucket
  <2> QED BY <2>1, <2>2, <1>8 DEF Moved, LastTx
<1>10. CASE k = Alias
  <2>1. /\ Holding(p, Alias) = b /\ Holding(m, Alias) = e
        /\ Holding(p, Identity) = Holding(m, Identity)
    BY <1>10, <1>2, <1>3, <1>5
  <2>2. /\ Deposited(p) = Deposited(m) + (b.deposited - e.deposited)
        /\ Coins(p) = Coins(m) + (b.balance + b.spent - e.balance - e.spent)
    BY <2>1, <1>6 DEF Deposited, Coins, Bucket
  <2>3. n # Identity
    BY <1>4, <1>10
  <2> QED BY <2>1, <2>2, <2>3, <1>8 DEF Moved, LastTx
<1> QED BY <1>3, <1>9, <1>10

\* A reservation is taken, given back, or replaced by the charge.
LEMMA ReserveMoves ==
    ASSUME NEW m, MeterSound(m), NEW n \in Names, NEW e \in Int
    PROVE  Moved(m, reserveCredit(m, n, e), 0, -e) /\ LastTx(reserveCredit(m, n, e)) = LastTx(m)
<1> DEFINE o == ensureBuyer(m, n)
           b == [o EXCEPT !.balance = @ - e]
<1>1. o \in Bucket
  BY Resolves DEF MeterSound
<1>2. /\ b \in Bucket /\ b.lastTx = o.lastTx
      /\ b.deposited - o.deposited = 0 /\ b.balance + b.spent - o.balance - o.spent = -e
  BY <1>1 DEF Bucket
<1> HIDE DEF b
<1>3. reserveCredit(m, n, e) = Put(m, n, b)
  BY DEF reserveCredit, b
<1> QED BY <1>2, <1>3, PutMoves

\* A refund puts the estimate back into the balance.
LEMMA RefundMoves ==
    ASSUME NEW m, MeterSound(m), NEW n \in Names, NEW e \in Int
    PROVE  Moved(m, refundReservation(m, n, e), 0, e) /\ LastTx(refundReservation(m, n, e)) = LastTx(m)
<1> DEFINE o == ensureBuyer(m, n)
           b == [o EXCEPT !.balance = @ + e]
<1>1. o \in Bucket
  BY Resolves DEF MeterSound
<1>2. /\ b \in Bucket /\ b.lastTx = o.lastTx
      /\ b.deposited - o.deposited = 0 /\ b.balance + b.spent - o.balance - o.spent = e
  BY <1>1 DEF Bucket
<1> HIDE DEF b
<1>3. refundReservation(m, n, e) = Put(m, n, b)
  BY DEF refundReservation, b
<1> QED BY <1>2, <1>3, PutMoves

\* A settle books the actual cost as spent and puts the rest of the estimate back.
LEMMA AdjustMoves ==
    ASSUME NEW m, MeterSound(m), NEW n \in Names, NEW a \in Int, NEW e \in Int
    PROVE  Moved(m, adjustCredit(m, n, a, e), 0, e) /\ LastTx(adjustCredit(m, n, a, e)) = LastTx(m)
<1>1. ensureBuyer(m, n) \in Bucket
  BY Resolves DEF MeterSound
<1>2. ASSUME NEW o \in Bucket,
             NEW b, b = [o EXCEPT !.balance = @ - (a - e), !.spent = @ + a]
      PROVE  /\ b \in Bucket /\ b.lastTx = o.lastTx
             /\ b.deposited - o.deposited = 0 /\ b.balance + b.spent - o.balance - o.spent = e
  <2>1. {o.balance, o.deposited, o.spent} \subseteq Int
    BY DEF Bucket
  <2>2. b = [balance |-> o.balance - (a - e), deposited |-> o.deposited, spent |-> o.spent + a,
             lastTx |-> o.lastTx, low |-> o.low]
    BY <1>2 DEF Bucket
  <2>3. b \in Bucket
    BY <2>1, <2>2 DEF Bucket
  <2> QED BY <2>1, <2>2, <2>3
<1>3. PICK b : b = [ensureBuyer(m, n) EXCEPT !.balance = @ - (a - e), !.spent = @ + a]
  OBVIOUS
<1>4. adjustCredit(m, n, a, e) = Put(m, n, b)
  BY <1>3 DEF adjustCredit
<1>5. LET o == ensureBuyer(m, n) IN
      /\ b \in Bucket /\ b.lastTx = o.lastTx
      /\ b.deposited - o.deposited = 0 /\ b.balance + b.spent - o.balance - o.spent = e
  BY <1>1, <1>2, <1>3
<1> QED BY <1>4, <1>5, PutMoves

\* The low-credit flag moves nothing.
LEMMA FlagMoves ==
    ASSUME NEW m, MeterSound(m), NEW n \in Names
    PROVE  Moved(m, checkAndFlagLow(m, n), 0, 0) /\ LastTx(checkAndFlagLow(m, n)) = LastTx(m)
<1>1. ensureBuyer(m, n) \in Bucket
  BY Resolves DEF MeterSound
<1>2. ASSUME NEW o \in Bucket, NEW b, b = [o EXCEPT !.low = TRUE]
      PROVE  /\ b \in Bucket /\ b.lastTx = o.lastTx
             /\ b.deposited - o.deposited = 0 /\ b.balance + b.spent - o.balance - o.spent = 0
  <2>1. {o.balance, o.deposited, o.spent} \subseteq Int
    BY DEF Bucket
  <2>2. b = [balance |-> o.balance, deposited |-> o.deposited, spent |-> o.spent,
             lastTx |-> o.lastTx, low |-> TRUE]
    BY <1>2 DEF Bucket
  <2>3. b \in Bucket
    BY <2>1, <2>2 DEF Bucket
  <2> QED BY <2>1, <2>2, <2>3
<1>3. PICK b : b = [ensureBuyer(m, n) EXCEPT !.low = TRUE]
  OBVIOUS
<1>4. checkAndFlagLow(m, n) = Put(m, n, b)
  BY <1>3 DEF checkAndFlagLow
<1>5. LET o == ensureBuyer(m, n) IN
      /\ b \in Bucket /\ b.lastTx = o.lastTx
      /\ b.deposited - o.deposited = 0 /\ b.balance + b.spent - o.balance - o.spent = 0
  BY <1>1, <1>2, <1>3
<1> QED BY <1>4, <1>5, PutMoves

\* Linking names to the identity moves nothing either.
LEMMA LinkMoves ==
    ASSUME NEW m, MeterSound(m), NEW as \in SUBSET Names
    PROVE  /\ Moved(m, linkBuyerAliases(m, Identity, as), 0, 0)
           /\ linkBuyerAliases(m, Identity, as).buyers = m.buyers
<1> DEFINE q == linkBuyerAliases(m, Identity, as)
<1> USE ProxyAssumption
<1>1. m \in Meter /\ Identity \in Names /\ Alias \in Names
  BY DEF MeterSound
<1>2. /\ q \in Meter /\ q.buyers = m.buyers
      /\ \A x \in Names : q.aliases[x] \in {Identity, m.aliases[x]}
  BY <1>1 DEF linkBuyerAliases, Meter
<1>3. \A x \in Names : Holding(q, x) = Holding(m, x)
  BY <1>2 DEF Holding, Has
<1>4. MeterSound(q)
  BY <1>1, <1>2, <1>3 DEF MeterSound
<1> HIDE DEF q
<1>5. Deposited(q) = Deposited(m) + 0 /\ Coins(q) = Coins(m) + 0
  <2>1. Holding(m, Identity) \in Bucket /\ Holding(m, Alias) \in Bucket
    BY <1>1, HoldingTyped
  <2>2. Holding(q, Identity) = Holding(m, Identity) /\ Holding(q, Alias) = Holding(m, Alias)
    BY <1>1, <1>3
  <2> QED BY <2>1, <2>2 DEF Deposited, Coins, Bucket
<1> QED BY <1>2, <1>4, <1>5 DEF Moved, q

-----------------------------------------------------------------------------
(* Merging the names of a buyer: the fold over the names, unfolded *)

\* The file with the canonical name linked and its bucket there, and the fold.
Opened(m, canonical, as) ==
    [linkBuyerAliases(m, canonical, as) EXCEPT
        !.buyers[canonical] = IF @ = None THEN NewBucket ELSE @]
Merging(m, canonical, as) ==
    LET iter[s \in SUBSET as] ==
            IF s = {} THEN m
            ELSE LET a == CHOOSE x \in s : TRUE IN MergeOne(iter[s \ {a}], canonical, a)
    IN  iter

\* applyBuyerAliases is its fold, written as a recursive function on sets of names.
LEMMA FoldIsMerging ==
    ASSUME NEW m, NEW canonical, NEW as
    PROVE  applyBuyerAliases(m, canonical, as) = Merging(Opened(m, canonical, as), canonical, as)[as]
BY DEF applyBuyerAliases, FoldSet, MapThenFoldSet, Opened, Merging

Recurs(f, m, canonical, as) ==
    f = [s \in SUBSET as |->
            IF s = {} THEN m
            ELSE MergeOne(f[s \ {CHOOSE x \in s : TRUE}], canonical, CHOOSE x \in s : TRUE)]

\* A function that satisfies the recursion makes it the one that is chosen.
LEMMA MergingUnfolds ==
    ASSUME NEW m, NEW canonical, NEW as, NEW f, Recurs(f, m, canonical, as)
    PROVE  Recurs(Merging(m, canonical, as), m, canonical, as)
BY Zenon DEF Merging, Recurs

\* Without names to merge nothing is merged.
LEMMA MergeNobody ==
    ASSUME NEW m, NEW canonical
    PROVE  applyBuyerAliases(m, canonical, {}) = Opened(m, canonical, {})
<1> DEFINE q == Opened(m, canonical, {})
           g == Merging(q, canonical, {})
<1> HIDE DEF q, g
<1>1. PICK f : f = [s \in SUBSET {} |-> q]
  OBVIOUS
<1>2. Recurs(f, q, canonical, {})
  BY <1>1 DEF Recurs
<1>3. Recurs(g, q, canonical, {})
  BY <1>2, MergingUnfolds DEF g
<1>4. g[{}] = q
  BY <1>3 DEF Recurs
<1> QED BY <1>4, FoldIsMerging DEF g, q

\* Of two names one is the canonical one: the other one's bucket is emptied
\* into its, in whichever order the names come.
LEMMA MergeBoth ==
    ASSUME NEW m, NEW c, NEW a, c # a
    PROVE  applyBuyerAliases(m, c, {c, a}) = MergeOne(Opened(m, c, {c, a}), c, a)
<1> DEFINE S == {c, a}
           q == Opened(m, c, S)
           g == Merging(q, c, S)
           z(s) == CHOOSE x \in s : TRUE
<1>c. ASSUME NEW w PROVE MergeOne(w, c, c) = w
  BY DEF MergeOne
<1>z. z({c}) = c /\ z({a}) = a /\ z(S) \in S
  OBVIOUS
<1> DEFINE V(s) == IF a \in s THEN MergeOne(q, c, a) ELSE q
<1> HIDE DEF q, g
<1>1. PICK f : f = [s \in SUBSET S |-> V(s)]
  OBVIOUS
<1>2. ASSUME NEW s \in SUBSET S, s # {}
      PROVE  V(s) = MergeOne(f[s \ {z(s)}], c, z(s))
  <2>1. z(s) \in s /\ s \ {z(s)} \in SUBSET S
    BY <1>2
  <2>2. f[s \ {z(s)}] = V(s \ {z(s)})
    BY <1>1, <2>1
  <2>3. CASE z(s) = c
    <3>1. a \in s <=> a \in s \ {z(s)}
      BY <2>3
    <3> HIDE DEF z
    <3> QED BY <2>2, <2>3, <3>1, <1>c
  <2>4. CASE z(s) = a
    <3>1. a \in s /\ a \notin s \ {z(s)}
      BY <2>1, <2>4
    <3> HIDE DEF z
    <3> QED BY <2>2, <2>4, <3>1
  <2> QED BY <2>1, <2>3, <2>4
<1>3. f = [s \in SUBSET S |-> IF s = {} THEN q ELSE MergeOne(f[s \ {z(s)}], c, z(s))]
  <2>1. \A s \in SUBSET S : V(s) = IF s = {} THEN q ELSE MergeOne(f[s \ {z(s)}], c, z(s))
    BY <1>2
  <2> HIDE DEF V, S, z
  <2> QED BY <2>1, <1>1
<1>4. Recurs(g, q, c, S)
  <2>1. Recurs(f, q, c, S)
    BY <1>3 DEF Recurs
  <2> QED BY <2>1, MergingUnfolds DEF g
<1>5. /\ g[{}] = q
      /\ \A s \in SUBSET S : s # {} => g[s] = MergeOne(g[s \ {z(s)}], c, z(s))
  BY <1>4 DEF Recurs
<1>6. g[{c}] = q
  <2>1. {c} \ {z({c})} = {} /\ {c} \in SUBSET S /\ {c} # {}
    BY <1>z
  <2> HIDE DEF z
  <2> QED BY <2>1, <1>5, <1>z, <1>c
<1>7. g[{a}] = MergeOne(q, c, a)
  <2>1. {a} \ {z({a})} = {} /\ {a} \in SUBSET S /\ {a} # {}
    BY <1>z
  <2> HIDE DEF z
  <2> QED BY <2>1, <1>5, <1>z
<1>8. g[S] = MergeOne(q, c, a)
  <2>1. S \in SUBSET S /\ S # {} /\ z(S) \in {c, a}
    BY <1>z
  <2>2. CASE z(S) = c
    <3>1. S \ {z(S)} = {a}
      BY <2>2
    <3> HIDE DEF z, S
    <3> QED BY <2>1, <2>2, <3>1, <1>5, <1>7, <1>c
  <2>3. CASE z(S) = a
    <3>1. S \ {z(S)} = {c}
      BY <2>3
    <3> HIDE DEF z, S
    <3> QED BY <2>1, <2>3, <3>1, <1>5, <1>6
  <2> QED BY <2>1, <2>2, <2>3
<1> QED BY <1>8, FoldIsMerging DEF g, q

\* The bucket that is opened is an empty one.
LEMMA OpenMoves ==
    ASSUME NEW m, MeterSound(m), NEW as \in SUBSET Names
    PROVE  LET q == Opened(m, Identity, as) IN
           Moved(m, q, 0, 0) /\ LastTx(q) = LastTx(m) /\ Has(q, Identity)
<1> USE ProxyAssumption, NoneAssumption
<1> DEFINE l == linkBuyerAliases(m, Identity, as)
           q == [l EXCEPT !.buyers[Identity] = IF @ = None THEN NewBucket ELSE @]
<1>1. Moved(m, l, 0, 0) /\ l.buyers = m.buyers
  BY LinkMoves
<1> HIDE DEF l
<1>2. MeterSound(l) /\ l \in Meter /\ Identity \in Names /\ Alias \in Names
  BY <1>1 DEF Moved, MeterSound
<1>3. NewBucket \in Bucket /\ Identity # None
  BY <1>2, HoldingTyped
<1>4. /\ q \in Meter /\ q.aliases = l.aliases
      /\ q.buyers = [l.buyers EXCEPT ![Identity] = IF @ = None THEN NewBucket ELSE @]
  BY <1>2, <1>3 DEF Meter
<1>5. q.buyers[Identity] # None /\ q.buyers[Alias] = l.buyers[Alias]
      /\ q.buyers[Identity] = IF l.buyers[Identity] = None THEN NewBucket ELSE l.buyers[Identity]
  BY <1>2, <1>3, <1>4 DEF Meter
<1> HIDE DEF q
<1>6. Has(q, Identity) /\ Holding(q, Identity) = Holding(l, Identity) /\ Holding(q, Alias) = Holding(l, Alias)
  BY <1>3, <1>5 DEF Has, Holding
<1>7. MeterSound(q) /\ Deposited(q) = Deposited(l) /\ Coins(q) = Coins(l)
  BY <1>2, <1>4, <1>6 DEF MeterSound, Deposited, Coins
<1>8. Holding(l, Identity) = Holding(m, Identity)
  BY <1>1 DEF Holding, Has
<1>9. Moved(m, q, 0, 0) /\ LastTx(q) = LastTx(m) /\ Has(q, Identity)
  BY <1>1, <1>6, <1>7, <1>8 DEF Moved, LastTx
<1> QED BY <1>9 DEF Opened, q, l

\* The alias's bucket, which names no deposit, is merged with all it holds.
LEMMA MergeMoves ==
    ASSUME NEW m, MeterSound(m), Has(m, Identity)
    PROVE  LET q == MergeOne(m, Identity, Alias) IN
           Moved(m, q, 0, 0) /\ LastTx(q) = LastTx(m) /\ Has(q, Identity)
<1> USE ProxyAssumption, NoneAssumption
<1> DEFINE q == MergeOne(m, Identity, Alias)
           i == m.buyers[Identity]
           o == m.buyers[Alias]
<1>1. m \in Meter /\ Identity \in Names /\ Alias \in Names
  BY DEF MeterSound
<1>2. i = Holding(m, Identity) /\ i \in Bucket
  BY <1>1, HoldingTyped
<1>t. Deposited(m) \in Int /\ Coins(m) \in Int
  <2>1. Holding(m, Identity) \in Bucket /\ Holding(m, Alias) \in Bucket
    BY <1>1, HoldingTyped
  <2> QED BY <2>1 DEF Deposited, Coins, Bucket
<1>3. CASE ~Has(m, Alias)
  <2>1. q = m
    BY <1>3 DEF MergeOne
  <2> QED BY <2>1, <1>t DEF Moved
<1>4. CASE Has(m, Alias)
  <2>1. o = Holding(m, Alias) /\ o \in Bucket /\ o.lastTx = None
    BY <1>1, <1>4, HoldingTyped DEF MeterSound
  <2> DEFINE SumOf(x, y) == [x EXCEPT !.balance = @ + y.balance, !.deposited = @ + y.deposited,
                                      !.spent = @ + y.spent,
                                      !.lastTx = IF @ = None THEN y.lastTx ELSE @]
             sum == SumOf(i, o)
  <2>2. q = [m EXCEPT !.buyers[Alias] = None, !.buyers[Identity] = sum]
    BY <1>4, <2>1 DEF MergeOne
  <2>3. /\ sum \in Bucket /\ sum.lastTx = i.lastTx
        /\ sum.deposited = i.deposited + o.deposited
        /\ sum.balance = i.balance + o.balance /\ sum.spent = i.spent + o.spent
    <3>1. ASSUME NEW x \in Bucket, NEW y \in Bucket, y.lastTx = None
          PROVE  LET c == SumOf(x, y) IN
                 /\ c \in Bucket /\ c.lastTx = x.lastTx
                 /\ c.deposited = x.deposited + y.deposited
                 /\ c.balance = x.balance + y.balance /\ c.spent = x.spent + y.spent
      <4>1. {x.balance, x.deposited, x.spent, y.balance, y.deposited, y.spent} \subseteq Int
            /\ x.lastTx \in Txs \cup {None} /\ x.low \in BOOLEAN
        BY DEF Bucket
      <4>2. SumOf(x, y) =
              [balance |-> x.balance + y.balance, deposited |-> x.deposited + y.deposited,
               spent |-> x.spent + y.spent, lastTx |-> x.lastTx, low |-> x.low]
        <5>1. ASSUME NEW c, c = SumOf(x, y)
              PROVE  c = [balance |-> x.balance + y.balance, deposited |-> x.deposited + y.deposited,
                          spent |-> x.spent + y.spent, lastTx |-> x.lastTx, low |-> x.low]
          BY <3>1, <5>1 DEF Bucket
        <5> HIDE DEF SumOf
        <5> QED BY <5>1
      <4> HIDE DEF SumOf
      <4>3. SumOf(x, y) \in Bucket
        BY <4>1, <4>2 DEF Bucket
      <4> QED BY <4>2, <4>3
    <3> HIDE DEF SumOf, i, o
    <3> QED BY <1>2, <2>1, <3>1
  <2> HIDE DEF sum, SumOf, i, o
  <2>4. q \in Meter /\ q.aliases = m.aliases /\ q.buyers[Identity] = sum /\ q.buyers[Alias] = None
    <3>1. m.buyers \in [Names -> Bucket \cup {None}] /\ m.aliases \in [Names -> Names \cup {None}]
          /\ m = [buyers |-> m.buyers, aliases |-> m.aliases]
      BY <1>1 DEF Meter
    <3> DEFINE f == [[m.buyers EXCEPT ![Alias] = None] EXCEPT ![Identity] = sum]
    <3>2. f \in [Names -> Bucket \cup {None}] /\ f[Identity] = sum /\ f[Alias] = None
      BY <1>1, <2>3, <3>1
    <3> HIDE DEF f
    <3>3. q = [buyers |-> f, aliases |-> m.aliases]
      BY <2>2, <3>1 DEF f
    <3> HIDE DEF q
    <3> QED BY <3>1, <3>2, <3>3 DEF Meter
  <2> HIDE DEF q
  <2>5. Has(q, Identity) /\ Holding(q, Identity) = sum /\ Holding(q, Alias) = NewBucket
    BY <1>1, <2>3, <2>4, HoldingTyped
  <2>6. MeterSound(q)
    BY <1>1, <2>4, <2>5 DEF MeterSound, NewBucket
  <2>7. {i.balance, i.deposited, i.spent, o.balance, o.deposited, o.spent} \subseteq Int
    BY <1>2, <2>1 DEF Bucket
  <2>8. Deposited(q) = Deposited(m) + 0 /\ Coins(q) = Coins(m) + 0
    BY <1>2, <2>1, <2>3, <2>5, <2>7 DEF Deposited, Coins, NewBucket
  <2>9. Moved(m, q, 0, 0) /\ LastTx(q) = LastTx(m) /\ Has(q, Identity)
    BY <1>2, <2>3, <2>5, <2>6, <2>8 DEF Moved, LastTx
  <2> QED BY <2>9 DEF q
<1> QED BY <1>3, <1>4

\* Merging moves coins between the buckets of a buyer and loses none.
LEMMA MergingMoves ==
    ASSUME NEW m, MeterSound(m), NEW as \in {{}, {Identity, Alias}}
    PROVE  LET q == applyBuyerAliases(m, Identity, as) IN
           Moved(m, q, 0, 0) /\ LastTx(q) = LastTx(m)
<1> USE ProxyAssumption
<1> DEFINE o == Opened(m, Identity, as)
           q == applyBuyerAliases(m, Identity, as)
<1>1. Moved(m, o, 0, 0) /\ LastTx(o) = LastTx(m) /\ Has(o, Identity)
  BY OpenMoves
<1>2. MeterSound(o)
  BY <1>1 DEF Moved
<1>3. CASE as = {}
  BY <1>1, <1>3, MergeNobody
<1>4. CASE as = {Identity, Alias}
  <2>1. q = MergeOne(o, Identity, Alias)
    BY <1>4, MergeBoth
  <2> HIDE DEF q, o
  <2>2. Moved(o, q, 0, 0) /\ LastTx(q) = LastTx(o)
    BY <1>1, <1>2, <2>1, MergeMoves
  <2>3. m \in Meter /\ Identity \in Names /\ Alias \in Names
    BY DEF MeterSound
  <2>4. Holding(m, Identity) \in Bucket /\ Holding(m, Alias) \in Bucket
    BY <2>3, HoldingTyped
  <2>5. Deposited(m) \in Int /\ Coins(m) \in Int
    BY <2>4 DEF Deposited, Coins, Bucket
  <2>6. Moved(m, q, 0, 0) /\ LastTx(q) = LastTx(m)
    BY <1>1, <2>2, <2>5 DEF Moved
  <2> QED BY <2>6 DEF q
<1> QED BY <1>3, <1>4

\* A deposit that the meter does not take for its last one is added.
LEMMA CreditMoves ==
    ASSUME NEW m, MeterSound(m), NEW as \in {{}, {Identity, Alias}}, NEW t \in Txs, LastTx(m) # t
    PROVE  LET q == creditDeposit(m, Identity, as, Amount, t) IN
           Moved(m, q, Amount, Amount) /\ LastTx(q) = t
<1> USE ProxyAssumption
<1> DEFINE w == applyBuyerAliases(m, Identity, as)
           q == creditDeposit(m, Identity, as, Amount, t)
<1>1. Moved(m, w, 0, 0) /\ LastTx(w) = LastTx(m)
  BY MergingMoves
<1> HIDE DEF w
<1>2. MeterSound(w) /\ w \in Meter /\ Identity \in Names /\ Alias \in Names /\ m \in Meter
  BY <1>1 DEF Moved, MeterSound
<1>3. ensureBuyer(w, Identity) \in Bucket /\ ensureBuyer(w, Identity) = Holding(w, Identity)
  <2>1. resolveBuyerKey(w, Identity) = Identity
    <3>1. w.aliases[Identity] \in {None, Identity}
      BY <1>2 DEF MeterSound
    <3> QED BY <3>1, <1>2, Resolves, NoneAssumption
  <2> QED BY <2>1, <1>2, Resolves
<1>4. PICK b : b = [ensureBuyer(w, Identity) EXCEPT !.balance = @ + Amount, !.deposited = @ + Amount,
                                                    !.lastTx = t, !.low = FALSE]
  OBVIOUS
<1>5. ensureBuyer(w, Identity).lastTx # t
  BY <1>1, <1>3 DEF LastTx
<1>6. q = Put(w, Identity, b)
  BY <1>4, <1>5 DEF creditDeposit, w
<1>7. ASSUME NEW o \in Bucket,
             NEW c, c = [o EXCEPT !.balance = @ + Amount, !.deposited = @ + Amount,
                                  !.lastTx = t, !.low = FALSE]
      PROVE  /\ c \in Bucket /\ c.lastTx = t
             /\ c.deposited - o.deposited = Amount
             /\ c.balance + c.spent - o.balance - o.spent = Amount
  <2>1. {o.balance, o.deposited, o.spent} \subseteq Int /\ Amount \in Int
    BY DEF Bucket
  <2>2. c = [balance |-> o.balance + Amount, deposited |-> o.deposited + Amount, spent |-> o.spent,
             lastTx |-> t, low |-> FALSE]
    BY <1>7 DEF Bucket
  <2>3. c \in Bucket
    BY <2>1, <2>2 DEF Bucket
  <2> QED BY <2>1, <2>2, <2>3
<1>8. LET o == ensureBuyer(w, Identity) IN
      /\ b \in Bucket /\ b.lastTx = t
      /\ b.deposited - o.deposited = Amount
      /\ b.balance + b.spent - o.balance - o.spent = Amount
  BY <1>3, <1>4, <1>7
<1> HIDE DEF q
<1>9. Moved(w, q, Amount, Amount) /\ LastTx(q) = t
  BY <1>2, <1>6, <1>8, PutMoves
<1>10. Holding(m, Identity) \in Bucket /\ Holding(m, Alias) \in Bucket
  BY <1>2, HoldingTyped
<1>11. Deposited(m) \in Int /\ Coins(m) \in Int
  BY <1>10 DEF Deposited, Coins, Bucket
<1>12. Moved(m, q, Amount, Amount) /\ LastTx(q) = t
  BY <1>1, <1>9, <1>11 DEF Moved
<1> QED BY <1>12 DEF q

\* A deposit that it takes for its last one is not; names are merged all the same.
LEMMA CreditAgain ==
    ASSUME NEW m, MeterSound(m), NEW as \in {{}, {Identity, Alias}}, NEW t \in Txs, LastTx(m) = t
    PROVE  MeterSound(creditDeposit(m, Identity, as, Amount, t))
<1> DEFINE w == applyBuyerAliases(m, Identity, as)
<1>1. Moved(m, w, 0, 0) /\ LastTx(w) = LastTx(m)
  BY MergingMoves
<1> HIDE DEF w
<1>2. MeterSound(w) /\ w \in Meter /\ Identity \in Names
  BY <1>1, ProxyAssumption DEF Moved, MeterSound
<1>3. ensureBuyer(w, Identity) = Holding(w, Identity)
  <2>1. w.aliases[Identity] \in {None, Identity}
    BY <1>2 DEF MeterSound
  <2>2. resolveBuyerKey(w, Identity) = Identity
    BY <2>1, <1>2, Resolves, NoneAssumption
  <2> QED BY <2>2, <1>2, Resolves
<1>4. creditDeposit(m, Identity, as, Amount, t) = w
  BY <1>1, <1>3 DEF creditDeposit, LastTx, w
<1> QED BY <1>2, <1>4

\* A deposit taken back.
LEMMA ReverseMoves ==
    ASSUME NEW m, MeterSound(m), NEW t \in Txs
    PROVE  LET q == reverseDeposit(m, Identity, Amount, t) IN
           Moved(m, q, -Amount, -Amount) /\ LastTx(q) = (IF LastTx(m) = t THEN None ELSE LastTx(m))
<1> USE ProxyAssumption
<1> DEFINE q == reverseDeposit(m, Identity, Amount, t)
<1>2. m \in Meter /\ Identity \in Names
  BY DEF MeterSound
<1>3. ensureBuyer(m, Identity) \in Bucket /\ ensureBuyer(m, Identity) = Holding(m, Identity)
  <2>1. resolveBuyerKey(m, Identity) = Identity
    <3>1. m.aliases[Identity] \in {None, Identity}
      BY <1>2 DEF MeterSound
    <3> QED BY <3>1, <1>2, Resolves, NoneAssumption
  <2> QED BY <2>1, <1>2, Resolves
<1>4. PICK b : b = [ensureBuyer(m, Identity) EXCEPT !.balance = @ - Amount, !.deposited = @ - Amount,
                                                    !.lastTx = IF @ = t THEN None ELSE @]
  OBVIOUS
<1>6. q = Put(m, Identity, b)
  BY <1>4 DEF reverseDeposit
<1>7. ASSUME NEW o \in Bucket,
             NEW c, c = [o EXCEPT !.balance = @ - Amount, !.deposited = @ - Amount,
                                  !.lastTx = IF @ = t THEN None ELSE @]
      PROVE  /\ c \in Bucket /\ c.lastTx = (IF o.lastTx = t THEN None ELSE o.lastTx)
             /\ c.deposited - o.deposited = -Amount
             /\ c.balance + c.spent - o.balance - o.spent = -Amount
  <2>1. {o.balance, o.deposited, o.spent} \subseteq Int /\ Amount \in Int
    BY DEF Bucket
  <2>2. c = [balance |-> o.balance - Amount, deposited |-> o.deposited - Amount, spent |-> o.spent,
             lastTx |-> IF o.lastTx = t THEN None ELSE o.lastTx, low |-> o.low]
    BY <1>7 DEF Bucket
  <2>3. c \in Bucket
    BY <2>1, <2>2 DEF Bucket
  <2> QED BY <2>1, <2>2, <2>3
<1>8. LET o == ensureBuyer(m, Identity) IN
      /\ b \in Bucket /\ b.lastTx = (IF o.lastTx = t THEN None ELSE o.lastTx)
      /\ b.deposited - o.deposited = -Amount
      /\ b.balance + b.spent - o.balance - o.spent = -Amount
  BY <1>3, <1>4, <1>7
<1> HIDE DEF q
<1>9. Moved(m, q, -Amount, -Amount) /\ LastTx(q) = (IF LastTx(m) = t THEN None ELSE LastTx(m))
  BY <1>2, <1>3, <1>6, <1>8, PutMoves DEF LastTx
<1> QED BY <1>9 DEF q

-----------------------------------------------------------------------------
(* The balances are explained *)

\* The identity's last deposit is one that stands.
LastIsCredited(m) == LastTx(m) # None => deposits[LastTx(m)] = "credited"

\* The file, and what the operator's process has read of it and will write, are
\* sound; as long as nothing was overwritten that process adds one deposit to
\* what it has read.
MeterTypes ==
    /\ deposits \in [Txs -> {"new", "credited", "reversed"}]
    /\ stranded \in Nat /\ overwritten \in BOOLEAN
    /\ MeterSound(meter)
    /\ adj # None => /\ adj \in [read : Meter, write : Meter]
                     /\ MeterSound(adj.write)
Explained ==
    /\ BalanceIsExplained
    /\ LastIsCredited(meter)
    /\ adj # None => /\ Moved(adj.read, adj.write, Amount, Amount)
                     /\ LastIsCredited(adj.write)
BalanceInv == MeterTypes /\ (~overwritten => Explained)

\* Nothing moved.
LEMMA TotalsTyped ==
    ASSUME NEW m, MeterSound(m)
    PROVE  Deposited(m) \in Int /\ Coins(m) \in Int /\ Moved(m, m, 0, 0)
<1>1. m \in Meter /\ Identity \in Names /\ Alias \in Names
  BY ProxyAssumption DEF MeterSound
<1>2. Holding(m, Identity) \in Bucket /\ Holding(m, Alias) \in Bucket
  BY <1>1, HoldingTyped
<1>3. Deposited(m) \in Int /\ Coins(m) \in Int
  BY <1>2 DEF Deposited, Coins, Bucket
<1> QED BY <1>3 DEF Moved

\* What is reserved, as requests come and go.
LEMMA ReservedTyped ==
    /\ Estimate \in Nat /\ Reserved \in Nat
    /\ IsFiniteSet(OnTheWay) /\ Cardinality(OnTheWay) \in Nat
<1>1. OnTheWay \subseteq Reqs
  BY DEF OnTheWay
<1>2. IsFiniteSet(OnTheWay) /\ Cardinality(OnTheWay) \in Nat
  BY <1>1, ProxyAssumption, FS_Subset, FS_CardinalityType
<1>3. Estimate \in Nat
  BY ProxyAssumption DEF Estimate
<1>4. \A x, y \in Nat : x * y \in Nat
  OBVIOUS
<1> QED BY <1>2, <1>3, <1>4 DEF Reserved

\* What is reserved grows with a request that starts and shrinks with one that ends.
LEMMA ReservedChanges ==
    ASSUME FlowTypes, NEW r \in Reqs, NEW p, at' = [at EXCEPT ![r] = p]
    PROVE  /\ (at[r] \in Live <=> p \in Live) => Reserved' = Reserved
           /\ at[r] \notin Live /\ p \in Live => Reserved' = Reserved + Estimate
           /\ at[r] \in Live /\ p \notin Live => Reserved' = Reserved - Estimate
<1>1. at'[r] = p /\ \A q \in Reqs \ {r} : at'[q] = at[q]
  BY DEF FlowTypes
<1>m. \A x, y \in Int : x * (y + 1) = x * y + x /\ x * (y - 1) = x * y - x
  OBVIOUS
<1>2. CASE at[r] \in Live <=> p \in Live
  <2>1. OnTheWay' = OnTheWay
    BY <1>1, <1>2 DEF OnTheWay
  <2> QED BY <2>1, <1>2 DEF Reserved
<1>3. CASE at[r] \notin Live /\ p \in Live
  <2>1. OnTheWay' = OnTheWay \cup {r} /\ r \notin OnTheWay
    BY <1>1, <1>3 DEF OnTheWay
  <2>2. Cardinality(OnTheWay') = Cardinality(OnTheWay) + 1
    BY <2>1, ReservedTyped, FS_AddElement
  <2>3. Estimate * (Cardinality(OnTheWay) + 1) = Estimate * Cardinality(OnTheWay) + Estimate
    BY <1>m, ReservedTyped
  <2> QED BY <2>2, <2>3, <1>3 DEF Reserved
<1>4. CASE at[r] \in Live /\ p \notin Live
  <2>1. OnTheWay' = OnTheWay \ {r} /\ r \in OnTheWay
    BY <1>1, <1>4 DEF OnTheWay
  <2>2. Cardinality(OnTheWay') = Cardinality(OnTheWay) - 1
    BY <2>1, ReservedTyped, FS_RemoveElement
  <2>3. Estimate * (Cardinality(OnTheWay) - 1) = Estimate * Cardinality(OnTheWay) - Estimate
    BY <1>m, ReservedTyped
  <2> QED BY <2>2, <2>3, <1>4 DEF Reserved
<1> QED BY <1>2, <1>3, <1>4

\* It stays when no request moves.
LEMMA ReservedStays ==
    ASSUME UNCHANGED at
    PROVE  Reserved' = Reserved
BY DEF Reserved, OnTheWay

\* A step that moves no deposit and accounts for every coin it takes out of a
\* balance or puts back keeps the balances explained.
LEMMA CoinsMove ==
    ASSUME BalanceInv, NEW c \in Int, UNCHANGED deposits,
           Moved(meter, meter', 0, c), LastTx(meter') = LastTx(meter),
           adj' = adj \/ adj' = None,
           overwritten' \in BOOLEAN, ~overwritten' => ~overwritten /\ adj' = adj,
           stranded' \in Nat, Reserved' \in Int,
           c + Reserved' + stranded' = Reserved + stranded
    PROVE  BalanceInv'
<1>1. MeterTypes'
  BY DEF BalanceInv, MeterTypes, Moved
<1>2. ASSUME ~overwritten' PROVE Explained'
  <2>1. ~overwritten /\ adj' = adj /\ Explained /\ MeterSound(meter)
    BY <1>2 DEF BalanceInv, MeterTypes
  <2>2. Deposited(meter') = Deposited(meter) /\ Coins(meter') = Coins(meter) + c
    BY <2>1, TotalsTyped DEF Moved
  <2>3. Coins(meter') + Reserved' + stranded' = Deposited(meter')
    <3>1. Coins(meter) + Reserved + stranded = Deposited(meter)
      BY <2>1 DEF Explained, BalanceIsExplained
    <3>2. {Coins(meter), Deposited(meter), Reserved, Reserved', stranded, stranded'} \subseteq Int
      BY <2>1, TotalsTyped, ReservedTyped DEF BalanceInv, MeterTypes
    <3> QED BY <2>2, <3>1, <3>2
  <2>4. CreditedTxs' = CreditedTxs
    BY DEF CreditedTxs
  <2>5. BalanceIsExplained'
    BY <2>1, <2>2, <2>3, <2>4 DEF Explained, BalanceIsExplained
  <2>6. LastIsCredited(meter)' /\ (adj # None => LastIsCredited(adj.write))'
    BY <2>1 DEF Explained, LastIsCredited
  <2> QED BY <2>1, <2>5, <2>6 DEF Explained
<1> QED BY <1>1, <1>2 DEF BalanceInv

\* A change under the lock, or without it while the operator's process has it.
LEMMA Locked ==
    ASSUME BalanceInv, NEW new, NEW lands \in BOOLEAN,
           withMeterLock(new, lands) \/ WithoutLock(new, lands)
    PROVE  /\ meter' = new /\ (adj' = adj \/ adj' = None)
           /\ overwritten' \in BOOLEAN /\ (~overwritten' => ~overwritten /\ adj' = adj)
BY DEF withMeterLock, WithoutLock, BalanceInv, MeterTypes

\* Neither file nor counts change, or only how far requests are.
LEMMA CoinsStay ==
    ASSUME BalanceInv, UNCHANGED <<meter, deposits, adj, stranded, overwritten>>,
           Reserved' = Reserved
    PROVE  BalanceInv'
<1>1. MeterSound(meter) /\ stranded \in Nat /\ overwritten \in BOOLEAN
  BY DEF BalanceInv, MeterTypes
<1>2. Moved(meter, meter', 0, 0)
  BY <1>1, TotalsTyped
<1>3. 0 + Reserved' + stranded' = Reserved + stranded /\ Reserved' \in Int /\ stranded' \in Nat
  BY <1>1, ReservedTyped
<1> QED BY <1>1, <1>2, <1>3, CoinsMove

\* A refund, saved or not.
LEMMA RefundStep ==
    ASSUME BalanceInv, FlowTypes, KeySound, NEW r \in Reqs, NEW p \in Points \ Live, NEW lands \in BOOLEAN,
           at[r] \in Live, at' = [at EXCEPT ![r] = p], refundOnce(r, lands) \/ RefundThrows(r)
    PROVE  BalanceInv'
<1>1. MeterSound(meter) /\ stranded \in Nat /\ overwritten \in BOOLEAN /\ Name(r) \in Names
  BY DEF BalanceInv, MeterTypes, FlowTypes, KeySound, Name
<1>2. Estimate \in Nat /\ Reserved \in Nat /\ Reserved' = Reserved - Estimate
  BY ReservedTyped, ReservedChanges
<1>3. CASE refundOnce(r, lands)
  <2>1. /\ withMeterLock(refundReservation(meter, Name(r), Estimate), lands)
        /\ UNCHANGED <<deposits, stranded>>
    BY <1>3 DEF refundOnce
  <2>2. /\ meter' = refundReservation(meter, Name(r), Estimate) /\ (adj' = adj \/ adj' = None)
        /\ overwritten' \in BOOLEAN /\ (~overwritten' => ~overwritten /\ adj' = adj)
    BY <2>1, Locked
  <2>3. Moved(meter, meter', 0, Estimate) /\ LastTx(meter') = LastTx(meter)
    BY <1>1, <1>2, <2>2, RefundMoves
  <2>4. Estimate + Reserved' + stranded' = Reserved + stranded /\ Reserved' \in Int /\ stranded' \in Nat
    BY <1>1, <1>2, <2>1
  <2> QED BY <1>2, <2>1, <2>2, <2>3, <2>4, CoinsMove
<1>4. CASE RefundThrows(r)
  <2>1. UNCHANGED <<meter, deposits, adj, overwritten>> /\ stranded' = stranded + Estimate
    BY <1>4 DEF RefundThrows, files
  <2>2. Moved(meter, meter', 0, 0)
    BY <1>1, <2>1, TotalsTyped
  <2>3. 0 + Reserved' + stranded' = Reserved + stranded /\ Reserved' \in Int /\ stranded' \in Nat
    BY <1>1, <1>2, <2>1
  <2> QED BY <1>1, <2>1, <2>2, <2>3, CoinsMove
<1> QED BY <1>3, <1>4

\* A settlement replaces the reservation by the charge.
LEMMA SettleStep ==
    ASSUME BalanceInv, FlowTypes, KeySound, NEW r \in Reqs, NEW actual \in Int, NEW lands \in BOOLEAN,
           Settle(r, actual, lands) \/ SettleThrows(r, actual)
    PROVE  BalanceInv'
<1>l. at[r] \in Live /\ "low" \notin Live /\ "done" \notin Live
  BY DEF Settle, SettleThrows, Live
<1>1. MeterSound(meter) /\ stranded \in Nat /\ overwritten \in BOOLEAN /\ Name(r) \in Names
  BY <1>l DEF BalanceInv, MeterTypes, FlowTypes, KeySound, Name
<1>2. Estimate \in Nat /\ Reserved \in Nat /\ Reserved' = Reserved - Estimate
  <2>1. \E p : p \notin Live /\ at' = [at EXCEPT ![r] = p]
    BY <1>l DEF Settle, SettleThrows, End
  <2> QED BY <1>l, <2>1, ReservedTyped, ReservedChanges
<1> DEFINE charged == adjustCredit(meter, Name(r), actual, Estimate)
<1>m. Moved(meter, charged, 0, Estimate) /\ LastTx(charged) = LastTx(meter)
  BY <1>1, <1>2, AdjustMoves
<1>n. Estimate + Reserved' + stranded = Reserved + stranded /\ Reserved' \in Int
      /\ 0 + Reserved' + (stranded + Estimate) = Reserved + stranded /\ stranded + Estimate \in Nat
  BY <1>1, <1>2
<1> HIDE DEF charged
<1>3. CASE Settle(r, actual, lands)
  <2>1. withMeterLock(charged, lands) /\ UNCHANGED <<deposits, stranded>>
    BY <1>3 DEF Settle, charged
  <2>2. /\ meter' = charged /\ (adj' = adj \/ adj' = None)
        /\ overwritten' \in BOOLEAN /\ (~overwritten' => ~overwritten /\ adj' = adj)
    BY <2>1, Locked
  <2> QED BY <1>1, <1>2, <1>m, <1>n, <2>1, <2>2, CoinsMove
<1>4. CASE SettleThrows(r, actual)
  <2>1. UNCHANGED <<deposits, adj, overwritten>>
    BY <1>4 DEF SettleThrows
  <2>2. CASE UNCHANGED meter /\ stranded' = stranded + Estimate
    <3>1. Moved(meter, meter', 0, 0)
      BY <1>1, <2>2, TotalsTyped
    <3> QED BY <1>1, <1>n, <2>1, <2>2, <3>1, CoinsMove
  <2>3. CASE meter' = charged /\ UNCHANGED stranded
    BY <1>1, <1>2, <1>m, <1>n, <2>1, <2>3, CoinsMove
  <2> QED BY <1>4, <2>2, <2>3 DEF SettleThrows, charged
<1> QED BY <1>3, <1>4

\* A request that arrives takes its reservation or nothing.
LEMMA ArriveStep ==
    ASSUME BalanceInv, FlowTypes, NEW r \in Reqs, NEW k \in Keys, Arrive(r, k)
    PROVE  BalanceInv'
<1>l. at[r] \notin Live /\ "dns" \in Live /\ "done" \notin Live /\ UNCHANGED deposits
  BY DEF Arrive, NoOwner, TooFast, CircuitOpen, AllInFlight, ReserveThrows, TurnedAway,
     Admit, Starts, Enters, Live, files
<1>1. MeterSound(meter) /\ stranded \in Nat /\ overwritten \in BOOLEAN /\ nameOf[k] \in Names
  BY DEF BalanceInv, MeterTypes, FlowTypes
<1>2. Estimate \in Nat /\ Estimate \in Int /\ Reserved \in Nat /\ Reserved \in Int
  BY ReservedTyped
<1>e. End(r) => Reserved' = Reserved
  BY <1>l, ReservedChanges DEF End
<1>3. CASE NoOwner(r, k) \/ TooFast(r, k) \/ CircuitOpen(r, k) \/ AllInFlight(r, k) \/ ReserveThrows(r, k)
  <2>1. End(r) /\ UNCHANGED <<meter, adj, stranded, overwritten>>
    BY <1>3 DEF NoOwner, TooFast, CircuitOpen, AllInFlight, ReserveThrows, files, history
  <2> QED BY <2>1, <1>e, <1>l, CoinsStay
<1>4. ASSUME NEW lands \in BOOLEAN, TurnedAway(r, k, lands) PROVE BalanceInv'
  <2> DEFINE taken == reserveCredit(meter, nameOf[k], Estimate)
             back == refundReservation(taken, nameOf[k], Estimate)
  <2>1. End(r) /\ UNCHANGED stranded
    BY <1>4 DEF TurnedAway
  <2>2. CASE NoMeterChange
    <3>1. UNCHANGED <<meter, adj, overwritten>>
      BY <2>2 DEF NoMeterChange
    <3> QED BY <2>1, <3>1, <1>e, <1>l, CoinsStay
  <2>3. CASE withMeterLock(back, lands)
    <3>1. Moved(meter, taken, 0, -Estimate) /\ LastTx(taken) = LastTx(meter)
      BY <1>1, <1>2, ReserveMoves
    <3> HIDE DEF taken
    <3>2. Moved(taken, back, 0, Estimate) /\ LastTx(back) = LastTx(taken)
      BY <1>1, <1>2, <3>1, RefundMoves DEF Moved
    <3> HIDE DEF back
    <3>3. Moved(meter, back, 0, 0) /\ LastTx(back) = LastTx(meter)
      BY <1>1, <1>2, <3>1, <3>2, TotalsTyped DEF Moved
    <3>4. /\ meter' = back /\ (adj' = adj \/ adj' = None)
          /\ overwritten' \in BOOLEAN /\ (~overwritten' => ~overwritten /\ adj' = adj)
      BY <2>3, Locked
    <3>5. 0 + Reserved' + stranded' = Reserved + stranded /\ Reserved' \in Int /\ stranded' \in Nat
      BY <1>1, <1>2, <1>e, <2>1
    <3> QED BY <1>l, <3>3, <3>4, <3>5, CoinsMove
  <2> QED BY <1>4, <2>2, <2>3 DEF TurnedAway
<1>5. ASSUME NEW lands \in BOOLEAN, Admit(r, k, lands) PROVE BalanceInv'
  <2> DEFINE taken == reserveCredit(meter, nameOf[k], Estimate)
  <2>1. withMeterLock(taken, lands) /\ at' = [at EXCEPT ![r] = "dns"] /\ UNCHANGED stranded
    BY <1>5 DEF Admit
  <2>2. Moved(meter, taken, 0, -Estimate) /\ LastTx(taken) = LastTx(meter)
    BY <1>1, <1>2, ReserveMoves
  <2> HIDE DEF taken
  <2>3. /\ meter' = taken /\ (adj' = adj \/ adj' = None)
        /\ overwritten' \in BOOLEAN /\ (~overwritten' => ~overwritten /\ adj' = adj)
    BY <2>1, Locked
  <2>4. Reserved' = Reserved + Estimate
    BY <1>l, <2>1, ReservedChanges
  <2>5. -Estimate + Reserved' + stranded' = Reserved + stranded /\ Reserved' \in Int /\ stranded' \in Nat
        /\ -Estimate \in Int
    BY <1>1, <1>2, <2>1, <2>4
  <2> QED BY <1>l, <2>2, <2>3, <2>5, CoinsMove
<1> QED BY <1>3, <1>4, <1>5 DEF Arrive

\* The daemon dies: what was reserved is stranded.
LEMMA CrashStep ==
    ASSUME BalanceInv, Crash
    PROVE  BalanceInv'
<1>1. MeterSound(meter) /\ stranded \in Nat /\ overwritten \in BOOLEAN
  BY DEF BalanceInv, MeterTypes
<1>2. UNCHANGED <<meter, deposits, adj, overwritten>> /\ stranded' = stranded + Reserved
      /\ at' = [r \in Reqs |-> IF at[r] = "new" THEN "new" ELSE "done"]
  BY DEF Crash, files, Reserved, OnTheWay
<1>3. OnTheWay' = {}
  BY <1>2 DEF OnTheWay, Live
<1>4. Reserved' = 0 /\ Reserved \in Nat
  <2>1. Cardinality(OnTheWay)' = 0
    BY <1>3, FS_EmptySet
  <2> QED BY <2>1, ReservedTyped DEF Reserved
<1>5. 0 + Reserved' + stranded' = Reserved + stranded /\ Reserved' \in Int /\ stranded' \in Nat
  BY <1>1, <1>2, <1>4
<1>6. Moved(meter, meter', 0, 0)
  BY <1>1, <1>2, TotalsTyped
<1> QED BY <1>1, <1>2, <1>5, <1>6, CoinsMove

\* What is credited, when one deposit is credited or taken back.
LEMMA CreditedChanges ==
    ASSUME MeterTypes, NEW t \in Txs, NEW v, deposits' = [deposits EXCEPT ![t] = v]
    PROVE  /\ Amount \in Nat /\ Cardinality(CreditedTxs) \in Nat
           /\ deposits[t] # "credited" /\ v = "credited" =>
                Cardinality(CreditedTxs') = Cardinality(CreditedTxs) + 1
           /\ deposits[t] = "credited" /\ v # "credited" =>
                Cardinality(CreditedTxs') = Cardinality(CreditedTxs) - 1
<1>1. CreditedTxs \subseteq Txs
  BY DEF CreditedTxs
<1>2. IsFiniteSet(CreditedTxs) /\ Cardinality(CreditedTxs) \in Nat /\ Amount \in Nat
  BY <1>1, ProxyAssumption, FS_Subset, FS_CardinalityType
<1>3. deposits'[t] = v /\ \A u \in Txs \ {t} : deposits'[u] = deposits[u]
  BY DEF MeterTypes
<1>4. CASE deposits[t] # "credited" /\ v = "credited"
  <2>1. CreditedTxs' = CreditedTxs \cup {t} /\ t \notin CreditedTxs
    BY <1>3, <1>4 DEF CreditedTxs
  <2> QED BY <2>1, <1>2, <1>4, FS_AddElement
<1>5. CASE deposits[t] = "credited" /\ v # "credited"
  <2>1. CreditedTxs' = CreditedTxs \ {t} /\ t \in CreditedTxs
    BY <1>3, <1>5 DEF CreditedTxs
  <2> QED BY <2>1, <1>2, <1>5, FS_RemoveElement
<1> QED BY <1>2, <1>4, <1>5

\* Products, for the totals.
LEMMA Distributes ==
    \A x, y \in Int : x * (y + 1) = x * y + x /\ x * (y - 1) = x * y - x /\ x * y \in Int
OBVIOUS

\* The last deposit of the file is a transaction or none.
LEMMA LastTyped ==
    ASSUME NEW m, MeterSound(m)
    PROVE  LastTx(m) \in Txs \cup {None}
<1>1. Holding(m, Identity) \in Bucket
  BY ProxyAssumption, HoldingTyped DEF MeterSound
<1> QED BY <1>1 DEF LastTx, Bucket

\* A deposit reported under the identity is credited once, under lock.
LEMMA CreditStep ==
    ASSUME Claimed = Identity, BalanceInv, NEW t \in Txs, NEW resolved \in BOOLEAN,
           CreditDeposit(t, resolved)
    PROVE  BalanceInv'
<1>1. /\ adj = None /\ adj' = None /\ deposits[t] # "credited"
      /\ meter' = Credited(t, resolved) /\ deposits' = [deposits EXCEPT ![t] = "credited"]
      /\ UNCHANGED <<at, stranded, overwritten>>
  BY DEF CreditDeposit, flow, Uncredited
<1>2. MeterTypes /\ MeterSound(meter)
  BY DEF BalanceInv, MeterTypes
<1>3. ASSUME LastTx(meter) # t
      PROVE  Moved(meter, meter', Amount, Amount) /\ LastTx(meter') = t
  BY <1>1, <1>2, <1>3, CreditMoves DEF Credited
<1>4. MeterTypes'
  <2>1. PICK as \in {{}, {Identity, Alias}} : meter' = creditDeposit(meter, Identity, as, Amount, t)
    BY <1>1 DEF Credited
  <2>2. CASE LastTx(meter) # t
    BY <1>1, <1>2, <1>3, <2>2 DEF MeterTypes, Moved
  <2>3. CASE LastTx(meter) = t
    <3>1. MeterSound(meter')
      BY <1>2, <2>1, <2>3, CreditAgain
    <3> QED BY <1>1, <1>2, <3>1 DEF MeterTypes
  <2> QED BY <2>2, <2>3
<1>5. ASSUME ~overwritten' PROVE Explained'
  <2>1. Explained
    BY <1>1, <1>5 DEF BalanceInv
  <2>2. LastTx(meter) # t
    BY <1>1, <2>1, NoneAssumption DEF Explained, LastIsCredited
  <2>3. Moved(meter, meter', Amount, Amount) /\ LastTx(meter') = t
    BY <2>2, <1>3
  <2>4. Cardinality(CreditedTxs') = Cardinality(CreditedTxs) + 1
        /\ Amount \in Nat /\ Cardinality(CreditedTxs) \in Nat
    BY <1>1, <1>2, CreditedChanges
  <2>5. BalanceIsExplained'
    <3>1. {Deposited(meter), Coins(meter), Reserved, stranded, Before} \subseteq Int
      BY <1>2, TotalsTyped, ReservedTyped, ProxyAssumption DEF MeterTypes
    <3>2. Reserved' = Reserved
      BY <1>1, ReservedStays
    <3>3. /\ Deposited(meter) = Before + Amount * (Cardinality(CreditedTxs) - 0)
          /\ Coins(meter) + Reserved + stranded = Deposited(meter)
      BY <1>1, <1>5, <2>1 DEF Explained, BalanceIsExplained
    <3>4. Amount * (Cardinality(CreditedTxs) + 1) = Amount * Cardinality(CreditedTxs) + Amount
          /\ Amount * Cardinality(CreditedTxs) \in Int
      <4>1. Amount \in Int /\ Cardinality(CreditedTxs) \in Int
        BY <2>4
      <4> QED BY <4>1, Distributes
    <3>5. Cardinality(CreditedTxs) - 0 = Cardinality(CreditedTxs)
          /\ Cardinality(CreditedTxs') - 0 = Cardinality(CreditedTxs) + 1
      BY <2>4
    <3>6. /\ Deposited(meter') = Before + Amount * (Cardinality(CreditedTxs') - 0)
          /\ Coins(meter') + Reserved' + stranded' = Deposited(meter')
      BY <1>1, <2>3, <2>4, <3>1, <3>2, <3>3, <3>4, <3>5 DEF Moved
    <3> QED BY <3>6, <1>1 DEF BalanceIsExplained
  <2>6. LastIsCredited(meter)'
    BY <1>1, <1>2, <2>3 DEF LastIsCredited, MeterTypes
  <2> QED BY <1>1, <2>5, <2>6 DEF Explained
<1> QED BY <1>4, <1>5 DEF BalanceInv

\* A deposit taken back.
LEMMA ReverseStep ==
    ASSUME Claimed = Identity, BalanceInv, NEW t \in Txs, ReverseDeposit(t)
    PROVE  BalanceInv'
<1>1. /\ adj = None /\ adj' = None /\ deposits[t] = "credited"
      /\ meter' = reverseDeposit(meter, Identity, Amount, t)
      /\ deposits' = [deposits EXCEPT ![t] = "reversed"]
      /\ UNCHANGED <<at, stranded, overwritten>>
  BY DEF ReverseDeposit, flow, history
<1>2. MeterTypes /\ MeterSound(meter)
  BY DEF BalanceInv, MeterTypes
<1>3. /\ Moved(meter, meter', -Amount, -Amount)
      /\ LastTx(meter') = (IF LastTx(meter) = t THEN None ELSE LastTx(meter))
  BY <1>1, <1>2, ReverseMoves
<1>4. MeterTypes'
  BY <1>1, <1>2, <1>3 DEF MeterTypes, Moved
<1>5. ASSUME ~overwritten' PROVE Explained'
  <2>1. Explained
    BY <1>1, <1>5 DEF BalanceInv
  <2>4. Cardinality(CreditedTxs') = Cardinality(CreditedTxs) - 1
        /\ Amount \in Nat /\ Cardinality(CreditedTxs) \in Nat
    <3>1. "reversed" # "credited"
      OBVIOUS
    <3> QED BY <1>1, <1>2, <3>1, CreditedChanges
  <2>5. BalanceIsExplained'
    <3>1. {Deposited(meter), Coins(meter), Reserved, stranded, Before} \subseteq Int
      BY <1>2, TotalsTyped, ReservedTyped, ProxyAssumption DEF MeterTypes
    <3>2. Reserved' = Reserved
      BY <1>1, ReservedStays
    <3>3. /\ Deposited(meter) = Before + Amount * (Cardinality(CreditedTxs) - 0)
          /\ Coins(meter) + Reserved + stranded = Deposited(meter)
      BY <1>1, <1>5, <2>1 DEF Explained, BalanceIsExplained
    <3>4. Amount * (Cardinality(CreditedTxs) - 1) = Amount * Cardinality(CreditedTxs) - Amount
          /\ Amount * Cardinality(CreditedTxs) \in Int
      <4>1. Amount \in Int /\ Cardinality(CreditedTxs) \in Int
        BY <2>4
      <4> QED BY <4>1, Distributes
    <3>5. Cardinality(CreditedTxs) - 0 = Cardinality(CreditedTxs)
          /\ Cardinality(CreditedTxs') - 0 = Cardinality(CreditedTxs) - 1
      BY <2>4
    <3>6. /\ Deposited(meter') = Before + Amount * (Cardinality(CreditedTxs') - 0)
          /\ Coins(meter') + Reserved' + stranded' = Deposited(meter')
      BY <1>1, <1>3, <2>4, <3>1, <3>2, <3>3, <3>4, <3>5 DEF Moved
    <3> QED BY <3>6, <1>1 DEF BalanceIsExplained
  <2>6. LastIsCredited(meter)'
    <3>1. LastTx(meter') # None => LastTx(meter') = LastTx(meter) /\ LastTx(meter) # t
      BY <1>3
    <3>2. LastTx(meter) \in Txs \cup {None}
      BY <1>2, LastTyped
    <3>3. \A u \in Txs \ {t} : deposits'[u] = deposits[u]
      BY <1>1, <1>2 DEF MeterTypes
    <3> QED BY <2>1, <3>1, <3>2, <3>3 DEF LastIsCredited, Explained
  <2> QED BY <1>1, <2>5, <2>6 DEF Explained
<1> QED BY <1>4, <1>5 DEF BalanceInv

\* The operator's process reads, and has a deposit in hand.
LEMMA ReadStep ==
    ASSUME Claimed = Identity, BalanceInv, NEW t \in Txs, OperatorReads(t)
    PROVE  BalanceInv'
<1> DEFINE w == creditDeposit(meter, Identity, {}, Amount, t)
<1>1. /\ adj = None /\ adj' = [read |-> meter, write |-> w] /\ deposits[t] # "credited"
      /\ deposits' = [deposits EXCEPT ![t] = "credited"]
      /\ UNCHANGED <<meter, at, stranded, overwritten>>
  BY DEF OperatorReads, flow, history, Credited
<1>2. MeterTypes /\ MeterSound(meter)
  BY DEF BalanceInv, MeterTypes
<1>3. LastTx(meter) # t => Moved(meter, w, Amount, Amount) /\ LastTx(w) = t
  BY <1>2, CreditMoves
<1>c. MeterSound(w)
  BY <1>2, <1>3, CreditAgain DEF Moved
<1> HIDE DEF w
<1>a. adj' \in [read : Meter, write : Meter] /\ adj' # None /\ adj'.read = meter /\ adj'.write = w
  BY <1>1, <1>2, <1>c, ProxyAssumption DEF MeterSound
<1>4. MeterTypes'
  BY <1>1, <1>2, <1>a, <1>c DEF MeterTypes
<1>5. ASSUME ~overwritten' PROVE Explained'
  <2>1. Explained
    BY <1>1, <1>5 DEF BalanceInv
  <2>2. LastTx(meter) # t
    BY <1>1, <2>1, NoneAssumption DEF Explained, LastIsCredited
  <2>3. Moved(meter, w, Amount, Amount) /\ LastTx(w) = t
    BY <2>2, <1>3
  <2>4. Cardinality(CreditedTxs') = Cardinality(CreditedTxs) + 1
        /\ Amount \in Nat /\ Cardinality(CreditedTxs) \in Nat
    BY <1>1, <1>2, CreditedChanges
  <2>5. BalanceIsExplained'
    <3>2. Reserved' = Reserved
      BY <1>1, ReservedStays
    <3>3. /\ Deposited(meter) = Before + Amount * (Cardinality(CreditedTxs) - 0)
          /\ Coins(meter) + Reserved + stranded = Deposited(meter)
      BY <1>1, <1>5, <2>1 DEF Explained, BalanceIsExplained
    <3>5. Cardinality(CreditedTxs) - 0 = Cardinality(CreditedTxs') - 1
      BY <2>4
    <3>6. /\ Deposited(meter') = Before + Amount * (Cardinality(CreditedTxs') - 1)
          /\ Coins(meter') + Reserved' + stranded' = Deposited(meter')
      BY <1>1, <3>2, <3>3, <3>5
    <3> QED BY <3>6, <1>a DEF BalanceIsExplained
  <2>6. LastIsCredited(meter)' /\ LastIsCredited(adj.write)'
    <3>1. deposits'[t] = "credited" /\ \A u \in Txs : deposits[u] = "credited" => deposits'[u] = "credited"
      BY <1>1, <1>2 DEF MeterTypes
    <3>2. LastTx(meter) \in Txs \cup {None}
      BY <1>2, LastTyped
    <3> QED BY <1>1, <1>a, <2>1, <2>3, <3>1, <3>2 DEF LastIsCredited, Explained
  <2> QED BY <1>a, <2>3, <2>5, <2>6 DEF Explained
<1> QED BY <1>4, <1>5 DEF BalanceInv

\* It writes what it has computed from what it had read.
LEMMA WriteStep ==
    ASSUME BalanceInv, OperatorWrites
    PROVE  BalanceInv'
<1>1. /\ adj # None /\ adj' = None /\ meter' = adj.write
      /\ overwritten' = (overwritten \/ adj.read # meter)
      /\ UNCHANGED <<deposits, at, stranded>>
  BY DEF OperatorWrites, flow
<1>2. MeterTypes /\ MeterSound(meter) /\ MeterSound(adj.write)
  BY <1>1 DEF BalanceInv, MeterTypes
<1>4. MeterTypes'
  BY <1>1, <1>2 DEF MeterTypes
<1>5. ASSUME ~overwritten' PROVE Explained'
  <2>1. Explained /\ ~overwritten /\ adj.read = meter
    BY <1>1, <1>2, <1>5 DEF BalanceInv, MeterTypes
  <2>2. Moved(meter, meter', Amount, Amount) /\ LastIsCredited(adj.write)
    BY <1>1, <2>1 DEF Explained
  <2>3. CreditedTxs' = CreditedTxs /\ Reserved' = Reserved
    BY <1>1, ReservedStays DEF CreditedTxs
  <2>4. Cardinality(CreditedTxs) \in Nat /\ Amount \in Nat
    <3>1. CreditedTxs \subseteq Txs
      BY DEF CreditedTxs
    <3> QED BY <3>1, ProxyAssumption, FS_Subset, FS_CardinalityType
  <2>5. BalanceIsExplained'
    <3>1. {Deposited(meter), Coins(meter), Reserved, stranded, Before} \subseteq Int
      BY <1>2, TotalsTyped, ReservedTyped, ProxyAssumption DEF MeterTypes
    <3>3. /\ Deposited(meter) = Before + Amount * (Cardinality(CreditedTxs) - 1)
          /\ Coins(meter) + Reserved + stranded = Deposited(meter)
      BY <1>1, <2>1 DEF Explained, BalanceIsExplained
    <3>4. Amount * (Cardinality(CreditedTxs) - 1) = Amount * Cardinality(CreditedTxs) - Amount
          /\ Amount * Cardinality(CreditedTxs) \in Int
      BY <2>4, Distributes
    <3>5. Cardinality(CreditedTxs) - 0 = Cardinality(CreditedTxs)
      BY <2>4
    <3>6. /\ Deposited(meter') = Before + Amount * (Cardinality(CreditedTxs') - 0)
          /\ Coins(meter') + Reserved' + stranded' = Deposited(meter')
      BY <1>1, <2>2, <2>3, <2>4, <3>1, <3>3, <3>4, <3>5 DEF Moved
    <3> QED BY <3>6, <1>1 DEF BalanceIsExplained
  <2>6. LastIsCredited(meter)'
    BY <1>1, <2>2 DEF LastIsCredited
  <2> QED BY <1>1, <2>5, <2>6 DEF Explained
<1> QED BY <1>4, <1>5 DEF BalanceInv

\* What was deposited before the run is in the alias's bucket.
LEMMA BalanceInit == Init => BalanceInv
<1> SUFFICES ASSUME Init PROVE BalanceInv
  OBVIOUS
<1> USE ProxyAssumption, NoneAssumption
<1> DEFINE b == [NewBucket EXCEPT !.balance = Before, !.deposited = Before]
<1>0. Before \in Nat /\ Identity \in Names /\ Alias \in Names
  OBVIOUS
<1>1. b \in Bucket /\ b # None /\ b.lastTx = None /\ b.balance = Before /\ b.deposited = Before
      /\ b.spent = 0
  <2>1. ASSUME NEW o \in Bucket, NEW c, c = [o EXCEPT !.balance = Before, !.deposited = Before]
        PROVE  /\ c \in Bucket /\ c.lastTx = o.lastTx /\ c.spent = o.spent
               /\ c.balance = Before /\ c.deposited = Before
    <3>1. c = [balance |-> Before, deposited |-> Before, spent |-> o.spent,
               lastTx |-> o.lastTx, low |-> o.low]
      BY <2>1 DEF Bucket
    <3>2. o.spent \in Int /\ o.lastTx \in Txs \cup {None} /\ o.low \in BOOLEAN
      BY DEF Bucket
    <3>3. Before \in Int
      BY <1>0
    <3>4. c \in Bucket
      BY <3>1, <3>2, <3>3 DEF Bucket
    <3> QED BY <3>1, <3>4
  <2>2. NewBucket \in Bucket /\ NewBucket.lastTx = None /\ NewBucket.spent = 0
    BY DEF NewBucket, Bucket
  <2>3. /\ b \in Bucket /\ b.lastTx = NewBucket.lastTx /\ b.spent = NewBucket.spent
        /\ b.balance = Before /\ b.deposited = Before
    BY <2>1, <2>2
  <2> HIDE DEF b
  <2> QED BY <2>2, <2>3
<1> HIDE DEF b
<1>2. NoMeter \in Meter /\ NoMeter = [buyers |-> [n \in Names |-> None], aliases |-> [n \in Names |-> None]]
  BY DEF NoMeter, Meter
<1>3. /\ meter \in Meter
      /\ \A n \in Names : meter.aliases[n] = None
      /\ meter.buyers[Identity] = None
      /\ meter.buyers[Alias] = IF Before = 0 THEN None ELSE b
  <2>1. CASE Before = 0
    BY <2>1, <1>0, <1>2 DEF Init
  <2>2. CASE Before # 0
    <3>1. meter = [NoMeter EXCEPT !.buyers[Alias] = b]
      BY <2>2 DEF Init, b
    <3> QED BY <2>2, <3>1, <1>0, <1>1, <1>2 DEF Meter
  <2> QED BY <2>1, <2>2
<1>4. /\ Holding(meter, Identity) = NewBucket
      /\ Holding(meter, Alias) = IF Before = 0 THEN NewBucket ELSE b
  BY <1>0, <1>1, <1>3 DEF Holding, Has
<1>5. MeterSound(meter) /\ LastTx(meter) = None
  BY <1>1, <1>3, <1>4 DEF MeterSound, LastTx, NewBucket
<1>6. Deposited(meter) = Before /\ Coins(meter) = Before
  BY <1>0, <1>1, <1>4 DEF Deposited, Coins, NewBucket
<1>7. CreditedTxs = {} /\ OnTheWay = {} /\ stranded = 0 /\ adj = None /\ overwritten = FALSE
      /\ deposits \in [Txs -> {"new", "credited", "reversed"}]
  BY DEF Init, CreditedTxs, OnTheWay, Live
<1>8. Cardinality(CreditedTxs) = 0 /\ Reserved = 0 /\ Amount \in Nat
  <2>1. Cardinality(OnTheWay) = 0 /\ Cardinality(CreditedTxs) = 0
    BY <1>7, FS_EmptySet
  <2> QED BY <2>1, ReservedTyped DEF Reserved
<1>9. BalanceIsExplained
  <2>1. Amount * (Cardinality(CreditedTxs) - 0) = 0
    BY <1>8
  <2> QED BY <2>1, <1>0, <1>6, <1>7, <1>8 DEF BalanceIsExplained
<1> QED BY <1>5, <1>7, <1>9 DEF BalanceInv, MeterTypes, Explained, LastIsCredited

\* A response costs a number.
LEMMA CostTyped ==
    ASSUME NEW good \in BOOLEAN, NEW aborted \in BOOLEAN, NEW usage \in Usages
    PROVE  settleTokenCounts(good, aborted, usage) \in Int
BY ProxyAssumption DEF settleTokenCounts, Usages

\* Every step keeps the balances explained.
LEMMA BalanceNext ==
    ASSUME Claimed = Identity, BalanceInv, FlowTypes, KeySound, [Next]_vars
    PROVE  BalanceInv'
<1> USE DEF files, memory, flow, history, bounds
<1>1. CASE UNCHANGED vars
  BY <1>1, CoinsStay, ReservedStays DEF vars
<1>2. ASSUME NEW t \in Txs, NEW resolved \in BOOLEAN, CreditDeposit(t, resolved) PROVE BalanceInv'
  BY <1>2, CreditStep
<1>3. ASSUME NEW t \in Txs, ReverseDeposit(t) PROVE BalanceInv'
  BY <1>3, ReverseStep
<1>4. ASSUME NEW t \in Txs, OperatorReads(t) PROVE BalanceInv'
  BY <1>4, ReadStep
<1>5. CASE OperatorWrites
  BY <1>5, WriteStep
<1>6. ASSUME NEW k \in Keys, RequestAccess(k) \/ checkNonceAfterVerify(k) \/ revokeApiKey(k)
      PROVE BalanceInv'
  BY <1>6, CoinsStay, ReservedStays DEF RequestAccess, checkNonceAfterVerify, revokeApiKey
<1>7. ASSUME NEW k \in Keys, NEW resolved \in BOOLEAN, NEW lands \in BOOLEAN, mintApiKey(k, resolved, lands)
      PROVE BalanceInv'
  <2>1. UNCHANGED <<deposits, stranded, at>>
    BY <1>7 DEF mintApiKey
  <2>2. CASE NoMeterChange
    BY <2>1, <2>2, CoinsStay, ReservedStays DEF NoMeterChange
  <2>3. CASE withMeterLock(linkBuyerAliases(meter, Identity, {Alias}), lands)
    <3> DEFINE linked == linkBuyerAliases(meter, Identity, {Alias})
    <3>1. MeterSound(meter) /\ stranded \in Nat /\ {Alias} \in SUBSET Names
      BY ProxyAssumption DEF BalanceInv, MeterTypes
    <3>2. Moved(meter, linked, 0, 0) /\ linked.buyers = meter.buyers
      BY <3>1, LinkMoves
    <3> HIDE DEF linked
    <3>3. LastTx(linked) = LastTx(meter)
      BY <3>2 DEF LastTx, Holding, Has
    <3>4. /\ meter' = linked /\ (adj' = adj \/ adj' = None)
          /\ overwritten' \in BOOLEAN /\ (~overwritten' => ~overwritten /\ adj' = adj)
      BY <2>3, Locked DEF linked
    <3>5. 0 + Reserved' + stranded' = Reserved + stranded /\ Reserved' \in Int /\ stranded' \in Nat
      BY <2>1, <3>1, ReservedStays, ReservedTyped
    <3> QED BY <2>1, <3>2, <3>3, <3>4, <3>5, CoinsMove
  <2> QED BY <1>7, <2>2, <2>3 DEF mintApiKey
<1>8. ASSUME NEW n \in Names, Refill(n) PROVE BalanceInv'
  BY <1>8, CoinsStay, ReservedStays DEF Refill
<1>9. ASSUME NEW healthy, setHealth(healthy) \/ CircuitElapses PROVE BalanceInv'
  BY <1>9, CoinsStay, ReservedStays DEF setHealth, CircuitElapses
<1>10. ASSUME NEW r \in Reqs, NEW k \in Keys, Arrive(r, k) PROVE BalanceInv'
  BY <1>10, ArriveStep
<1>11. ASSUME NEW r \in Reqs, HostIsSafe(r) \/ Fetch(r) \/ UpstreamAnswers(r) \/ Drained(r)
       PROVE BalanceInv'
  <2>1. UNCHANGED <<meter, deposits, adj, stranded, overwritten>>
    BY <1>11 DEF HostIsSafe, Fetch, UpstreamAnswers, Drained
  <2>2. \E p : at' = [at EXCEPT ![r] = p] /\ (at[r] \in Live <=> p \in Live)
    BY <1>11 DEF HostIsSafe, Fetch, UpstreamAnswers, Drained, End, Live
  <2>3. Reserved' = Reserved
    BY <2>2, ReservedChanges
  <2> QED BY <2>1, <2>3, CoinsStay
<1>12. ASSUME NEW r \in Reqs, NEW lands \in BOOLEAN,
              HostIsUnsafe(r, lands) \/ UpstreamFails(r, lands) \/ UpstreamTimesOut(r, lands)
              \/ BodyBreaks(r, lands)
       PROVE BalanceInv'
  <2>1. at[r] \in Live /\ (refundOnce(r, lands) \/ RefundThrows(r))
    BY <1>12 DEF HostIsUnsafe, UpstreamFails, UpstreamTimesOut, BodyBreaks, Live
  <2>2. PICK p \in {"done", "drain"} : at' = [at EXCEPT ![r] = p]
    BY <1>12 DEF HostIsUnsafe, UpstreamFails, UpstreamTimesOut, BodyBreaks, RefundThrows, End
  <2>3. p \in Points \ Live
    BY DEF Points, Live
  <2> QED BY <2>1, <2>2, <2>3, RefundStep
<1>13. ASSUME NEW r \in Reqs, NEW lands \in BOOLEAN, NEW good \in BOOLEAN, NEW aborted \in BOOLEAN, NEW usage \in Usages,
              \/ Settle(r, settleTokenCounts(good, aborted, usage), lands)
              \/ SettleThrows(r, settleTokenCounts(good, aborted, usage))
       PROVE BalanceInv'
  BY <1>13, CostTyped, SettleStep
<1>14. ASSUME NEW r \in Reqs, NEW lands \in BOOLEAN, maybeNotifyCreditLow(r, lands) PROVE BalanceInv'
  <2>1. /\ at[r] = "low" /\ Name(r) \in Names
        /\ End(r) /\ UNCHANGED <<deposits, stranded>>
    BY <1>14, ProxyAssumption DEF maybeNotifyCreditLow, FlowTypes, Name
  <2>2. Reserved' = Reserved
    <3>1. at' = [at EXCEPT ![r] = "done"] /\ (at[r] \in Live <=> "done" \in Live)
      BY <2>1 DEF End, Live
    <3> QED BY <3>1, ReservedChanges
  <2>3. CASE NoMeterChange
    BY <2>1, <2>2, <2>3, CoinsStay DEF NoMeterChange
  <2>4. CASE WithoutLock(checkAndFlagLow(meter, Name(r)), lands)
    <3> DEFINE flagged == checkAndFlagLow(meter, Name(r))
    <3>1. MeterSound(meter) /\ stranded \in Nat
      BY DEF BalanceInv, MeterTypes
    <3>2. Moved(meter, flagged, 0, 0) /\ LastTx(flagged) = LastTx(meter)
      BY <3>1, <2>1, FlagMoves
    <3> HIDE DEF flagged
    <3>4. /\ meter' = flagged /\ (adj' = adj \/ adj' = None)
          /\ overwritten' \in BOOLEAN /\ (~overwritten' => ~overwritten /\ adj' = adj)
      BY <2>4, Locked DEF flagged
    <3>5. 0 + Reserved' + stranded' = Reserved + stranded /\ Reserved' \in Int /\ stranded' \in Nat
      BY <2>1, <2>2, <3>1, ReservedTyped
    <3> QED BY <2>1, <3>2, <3>4, <3>5, CoinsMove
  <2> QED BY <1>14, <2>3, <2>4 DEF maybeNotifyCreditLow
<1>15. CASE Crash
  BY <1>15, CrashStep
<1> QED
  BY <1>1, <1>2, <1>3, <1>4, <1>5, <1>6, <1>7, <1>8, <1>9, <1>10, <1>11, <1>12, <1>13, <1>14,
     <1>15 DEF Next, Lookup, Upstream, Notice

\* As long as no process has written over another's change, every coin deposited
\* under the identity is in a balance, spent, reserved by a request on its way or
\* stranded by one that ended without a settle, whatever was linked, merged,
\* credited, taken back, refused or cut short in between.
THEOREM CoinsAreAccountedFor ==
    ASSUME Claimed = Identity
    PROVE  Spec => []BalanceIsExplained
<1> DEFINE IInv == FlowTypes /\ KeySound /\ BalanceInv
<1>1. Init => IInv
  BY SlotInit, BalanceInit DEF SlotInv, SlotTypes
<1>2. IInv /\ [Next]_vars => IInv'
  BY FlowNext, BalanceNext
<1>3. IInv => BalanceIsExplained
  BY DEF BalanceInv, Explained, BalanceIsExplained
<1> HIDE DEF IInv
<1> QED BY <1>1, <1>2, <1>3, PTL DEF Spec
=============================================================================
