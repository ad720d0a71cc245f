----------------------------- MODULE LockProofs -----------------------------
(***************************************************************************)
(* The two locks that live in files.  The history of sends, which          *)
(* SpendPolicy keeps under a lock of the older kind, is complete, and the  *)
(* limits that are judged by it hold, as long as nobody had to do without  *)
(* the lock.                                                               *)
(*                                                                         *)
(* FileLock implements Mutex for any number of processes, dead holders and *)
(* deaths, as long as nobody dies inside the gate.  The gate is then never *)
(* reclaimed: it belongs to the one process that is taking over a lock.    *)
(***************************************************************************)
EXTENDS SpendPolicyInv, FiniteSetTheorems, WellFoundedInduction, TLAPS

(* Sums *)

\* The fold of a sum, written as a recursive function on sets.
Adding(f, I) ==
    LET iter[s \in SUBSET I] ==
            IF s = {} THEN 0 ELSE LET x == CHOOSE y \in s : TRUE IN iter[s \ {x}] + f[x]
    IN  iter
Adds(g, f, I) ==
    g = [s \in SUBSET I |->
            IF s = {} THEN 0 ELSE g[s \ {CHOOSE y \in s : TRUE}] + f[CHOOSE y \in s : TRUE]]

\* A function that satisfies the recursion makes it the one that is chosen.
LEMMA AddingUnfolds ==
    ASSUME NEW f, NEW I, NEW g, Adds(g, f, I)
    PROVE  Adds(Adding(f, I), f, I)
BY Zenon DEF Adding, Adds

\* Among sets of finite sets there is one without which no element ...
LEMMA Minimal ==
    ASSUME NEW U, IsFiniteSet(U), NEW T, T \subseteq SUBSET U, T # {}
    PROVE  \E s \in T : \A x \in s : s \ {x} \notin T
<1> DEFINE R == StrictSubsetOrdering(U)
<1>1. IsWellFoundedOn(R, SUBSET U)
  BY FS_StrictSubsetOrderingWellFounded, FS_FiniteSubsetsOfFinite
<1> HIDE DEF R
<1>2. PICK s \in T : \A y \in T : ~(<<y, s>> \in R)
  BY <1>1, WFMin
<1>3. ASSUME NEW x \in s, s \ {x} \in T PROVE FALSE
  <2>1. <<s \ {x}, s>> \in R
    <3>1. s \in SUBSET U /\ s \ {x} \in SUBSET U /\ s \ {x} # s
      BY <1>3
    <3> QED BY <3>1 DEF R, StrictSubsetOrdering
  <2> QED BY <2>1, <1>2, <1>3
<1> QED BY <1>3

\* The units that are added: a column for each element.
Units(f, I) == UNION {{i} \X (1..f[i]) : i \in I}

\* A column has as many units as the amount, ...
LEMMA Column ==
    ASSUME NEW x, NEW n \in Nat
    PROVE  IsFiniteSet({x} \X (1..n)) /\ Cardinality({x} \X (1..n)) = n
<1>1. IsFiniteSet(1..n) /\ Cardinality(1..n) = n
  BY FS_Interval
<1>2. IsFiniteSet({x}) /\ Cardinality({x}) = 1
  BY FS_Singleton
<1> QED BY <1>1, <1>2, FS_Product

\* ... is apart from the others, ...
LEMMA UnitsSplit ==
    ASSUME NEW f, NEW s, NEW x \in s
    PROVE  /\ Units(f, s) = Units(f, s \ {x}) \cup ({x} \X (1..f[x]))
           /\ Units(f, s \ {x}) \cap ({x} \X (1..f[x])) = {}
BY DEF Units

\* ... and is finite as they all are.
LEMMA UnitsFinite ==
    ASSUME NEW I, IsFiniteSet(I), NEW f, \A i \in I : f[i] \in Nat
    PROVE  \A s \in SUBSET I : IsFiniteSet(Units(f, s))
<1> SUFFICES ASSUME NEW z \in SUBSET I, ~IsFiniteSet(Units(f, z)) PROVE FALSE
  OBVIOUS
<1> DEFINE T == {s \in SUBSET I : ~IsFiniteSet(Units(f, s))}
<1>1. PICK s \in T : \A x \in s : s \ {x} \notin T
  BY Minimal
<1>2. CASE s = {}
  BY <1>2, FS_EmptySet DEF Units
<1>3. CASE s # {}
  <2>1. PICK x \in s : TRUE
    BY <1>3
  <2>2. IsFiniteSet(Units(f, s \ {x}))
    BY <1>1, <2>1
  <2>3. IsFiniteSet({x} \X (1..f[x]))
    BY <2>1, Column
  <2>4. Units(f, s) = Units(f, s \ {x}) \cup ({x} \X (1..f[x]))
    BY <2>1, UnitsSplit
  <2> HIDE DEF T
  <2>5. IsFiniteSet(Units(f, s))
    <3>1. ASSUME NEW A, NEW B, IsFiniteSet(A), IsFiniteSet(B) PROVE IsFiniteSet(A \cup B)
      BY <3>1, FS_Union
    <3> DEFINE A == Units(f, s \ {x})
               B == {x} \X (1..f[x])
    <3>2. IsFiniteSet(A) /\ IsFiniteSet(B) /\ Units(f, s) = A \cup B
      BY <2>2, <2>3, <2>4
    <3> HIDE DEF A, B
    <3> QED BY <3>1, <3>2
  <2> QED BY <2>5, <1>1 DEF T
<1> QED BY <1>2, <1>3

\* An element adds its amount to the number of units.
LEMMA UnitsCount ==
    ASSUME NEW I, IsFiniteSet(I), NEW f, \A i \in I : f[i] \in Nat,
           NEW s \in SUBSET I, NEW x \in s
    PROVE  Cardinality(Units(f, s)) = Cardinality(Units(f, s \ {x})) + f[x]
<1>1. IsFiniteSet(Units(f, s \ {x}))
  BY UnitsFinite
<1>2. IsFiniteSet({x} \X (1..f[x])) /\ Cardinality({x} \X (1..f[x])) = f[x]
  BY Column
<1>3. Cardinality(Units(f, s))
         = Cardinality(Units(f, s \ {x})) + Cardinality({x} \X (1..f[x])) - Cardinality({})
  BY <1>1, <1>2, UnitsSplit, FS_Union
<1>4. Cardinality(Units(f, s \ {x})) \in Nat
  BY <1>1, FS_CardinalityType
<1> QED BY <1>2, <1>3, <1>4, FS_EmptySet

\* The sum over a finite set is the number of its units.
LEMMA SumIsCount ==
    ASSUME NEW I, IsFiniteSet(I), NEW f, \A i \in I : f[i] \in Nat
    PROVE  Adding(f, I)[I] = Cardinality(Units(f, I))
<1> DEFINE V(s) == Cardinality(Units(f, s))
           z(s) == CHOOSE y \in s : TRUE
           g == [s \in SUBSET I |-> V(s)]
<1>1. V({}) = 0
  BY FS_EmptySet DEF Units
<1>2. ASSUME NEW s \in SUBSET I, s # {}
      PROVE  V(s) = V(s \ {z(s)}) + f[z(s)]
  <2>1. z(s) \in s
    BY <1>2
  <2> QED BY <2>1, UnitsCount
<1>3. Adds(g, f, I)
  <2>1. \A s \in SUBSET I : V(s) = IF s = {} THEN 0 ELSE g[s \ {z(s)}] + f[z(s)]
    <3> HIDE DEF V, z
    <3> QED BY <1>1, <1>2
  <2> HIDE DEF V
  <2> QED BY <2>1 DEF Adds
<1> DEFINE h == Adding(f, I)
<1>4. Adds(h, f, I)
  BY <1>3, AddingUnfolds
<1> HIDE DEF h
<1> SUFFICES ASSUME h[I] # V(I) PROVE FALSE
  BY DEF h
<1> DEFINE T == {s \in SUBSET I : h[s] # V(s)}
<1> HIDE DEF V
<1>5. PICK s \in T : \A x \in s : s \ {x} \notin T
  BY Minimal
<1>6. h[s] = IF s = {} THEN 0 ELSE h[s \ {z(s)}] + f[z(s)]
  BY <1>4, <1>5 DEF Adds
<1>7. s # {}
  BY <1>1, <1>5, <1>6
<1>8. z(s) \in s /\ s \in SUBSET I
  BY <1>5, <1>7
<1>9. h[s \ {z(s)}] = V(s \ {z(s)})
  BY <1>5, <1>8
<1> QED BY <1>2, <1>5, <1>6, <1>7, <1>8, <1>9

-----------------------------------------------------------------------------
(* The history of the sends and its lock *)

USE SpendAssumption DEF SpendAssumption, file, ofSend, ofSender, bounds, Goes, Fault

\* There are finitely many sends.
LEMMA SendsAreFinite == IsFiniteSet(SendIds)
<1>1. MaxSends \in Int
  OBVIOUS
<1>2. IsFiniteSet(1..MaxSends)
  BY <1>1, FS_Interval
<1> QED BY <1>2 DEF SendIds

\* At first the state is typed, ...
LEMMA HistoryTyped ==
    ASSUME Init
    PROVE  TypeOK
BY DEF Init, TypeOK, Histories, Places, Busy, NoHistory, SendIds

\* ... and every step keeps it so.
LEMMA HistoryTypesStay ==
    ASSUME TypeOK, [Next]_vars
    PROVE  TypeOK'
<1> USE DEF TypeOK, Busy
<1>n. NoHistory \in Histories
  BY DEF NoHistory, Histories
<1>1. ASSUME NEW s \in Senders, NEW k \in Keys, NEW a \in AmountsOf[k],
             gateExternalSend(s, k, a)
      PROVE TypeOK'
  <2>1. sends + 1 \in SendIds /\ a \in Nat
    BY <1>1 DEF gateExternalSend, SendIds
  <2>2. keyOf' \in [SendIds -> Keys] /\ amount' \in [SendIds -> Nat]
    BY <1>1, <2>1 DEF gateExternalSend
  <2>3. sends' \in 0..MaxSends /\ send' \in [Senders -> 0..sends']
    BY <1>1 DEF gateExternalSend
  <2>4. \A t \in Senders : Busy(t)' => send'[t] # 0
    BY <1>1 DEF gateExternalSend
  <2> QED BY <1>1, <2>2, <2>3, <2>4 DEF gateExternalSend, Places
<1>2. ASSUME NEW s \in Senders, SendFails(s) PROVE TypeOK'
  BY <1>2, <1>n DEF SendFails, Stops, Places
<1>3. ASSUME NEW s \in Senders, recordDispatcherSend(s) PROVE TypeOK'
  BY <1>3 DEF recordDispatcherSend, Places
<1>4. ASSUME NEW s \in Senders, Create(s) \/ Fill(s) PROVE TypeOK'
  BY <1>4 DEF Create, Fill, Places
<1>5. ASSUME NEW s \in Senders, Judge(s) \/ EnterGate(s) PROVE TypeOK'
  BY <1>5 DEF Judge, EnterGate, Places, Stealable
<1>6. ASSUME NEW s \in Senders, GateIsTaken(s) \/ RemoveGate(s)
      PROVE TypeOK'
  BY <1>6 DEF GateIsTaken, RemoveGate, Places
<1>7. ASSUME NEW s \in Senders, Recheck(s) \/ Install(s) PROVE TypeOK'
  BY <1>7 DEF Recheck, Install, Places, Stealable
<1>8. ASSUME NEW s \in Senders, ReadBack(s) \/ LeaveGate(s)
      PROVE TypeOK'
  BY <1>8 DEF ReadBack, LeaveGate, Places
<1>9. ASSUME NEW s \in Senders, GivesUp(s) PROVE TypeOK'
  BY <1>9 DEF GivesUp, Places
<1>10. ASSUME NEW s \in Senders, Load(s) PROVE TypeOK'
  BY <1>10, <1>n DEF Load, Places
<1>11. ASSUME NEW s \in Senders, Save(s) PROVE TypeOK'
  <2>1. send[s] \in SendIds
    <3>1. send[s] \in 0..sends /\ send[s] # 0
      BY <1>11 DEF Save
    <3> QED BY <3>1 DEF SendIds
  <2>2. Recorded(copy[s], send[s]) \in Histories
    <3>1. copy[s] \in Histories
      OBVIOUS
    <3> QED BY <2>1, <3>1 DEF Recorded, Histories
  <2>3. history' \in Histories /\ saved' \subseteq SendIds
    BY <1>11, <2>1, <2>2 DEF Save
  <2>4. CASE Goes(s, "token")
    BY <1>11, <2>3, <2>4 DEF Save, Places
  <2>5. CASE Stops(s)
    BY <1>11, <2>3, <2>5, <1>n DEF Save, Stops, Places
  <2> QED BY <1>11, <2>4, <2>5 DEF Save
<1>12. ASSUME NEW s \in Senders, CheckToken(s) \/ Unlink(s) PROVE TypeOK'
  <2>1. CASE Goes(s, "unlink")
    BY <1>12, <2>1 DEF CheckToken, Unlink, Places
  <2>2. CASE Stops(s)
    BY <1>12, <2>2, <1>n DEF CheckToken, Unlink, Stops, Places
  <2> QED BY <1>12, <2>1, <2>2 DEF CheckToken, Unlink
<1>13. ASSUME NEW s \in Senders, Dies(s) PROVE TypeOK'
  BY <1>13, <1>n DEF Dies, Places
<1>14. ASSUME NEW i \in SendIds, TimePasses(i) PROVE TypeOK'
  BY <1>14 DEF TimePasses
<1>15. CASE UNCHANGED vars
  BY <1>15 DEF vars
<1> QED
  BY <1>1, <1>2, <1>3, <1>4, <1>5, <1>6, <1>7, <1>8, <1>9, <1>10, <1>11,
     <1>12, <1>13, <1>14, <1>15 DEF Next, Records, Locks

\* As long as nothing fails, the lock is handed on and no record is overwritten.
LEMMA KeptNext ==
    ASSUME TypeOK, KeptInv, [Next]_vars, faults' = 0,
           faults = 0
    PROVE  KeptInv'
<1> USE DEF TypeOK, KeptInv, RecordIsKept, LockInv, CopyInv, Replaceable,
        Filling, Alive, Gated, Inside
<1>1. ASSUME NEW s \in Senders, NEW k \in Keys, NEW a \in AmountsOf[k],
             gateExternalSend(s, k, a)
      PROVE KeptInv'
  BY <1>1 DEF gateExternalSend
<1>2. ASSUME NEW s \in Senders, SendFails(s) PROVE KeptInv'
  BY <1>2 DEF SendFails, Stops
<1>3. ASSUME NEW s \in Senders, recordDispatcherSend(s) PROVE KeptInv'
  BY <1>3 DEF recordDispatcherSend
<1>4. ASSUME NEW s \in Senders, Create(s) PROVE KeptInv'
  BY <1>4 DEF Create
<1>4b. ASSUME NEW s \in Senders, Fill(s) PROVE KeptInv'
  BY <1>4b DEF Fill
<1>5. ASSUME NEW s \in Senders, Judge(s) \/ EnterGate(s) PROVE KeptInv'
  BY <1>5 DEF Judge, EnterGate, Stealable
<1>6. ASSUME NEW s \in Senders, GateIsTaken(s) \/ RemoveGate(s)
      PROVE KeptInv'
  BY <1>6 DEF GateIsTaken, RemoveGate
<1>7. ASSUME NEW s \in Senders, Recheck(s) PROVE KeptInv'
  BY <1>7 DEF Recheck, Stealable
<1>7b. ASSUME NEW s \in Senders, Install(s) PROVE KeptInv'
  BY <1>7b DEF Install
<1>8. ASSUME NEW s \in Senders, ReadBack(s) \/ LeaveGate(s)
      PROVE KeptInv'
  BY <1>8 DEF ReadBack, LeaveGate
<1>9. ASSUME NEW s \in Senders, GivesUp(s) PROVE KeptInv'
  BY <1>9 DEF GivesUp
<1>10. ASSUME NEW s \in Senders, Load(s) PROVE KeptInv'
  BY <1>10 DEF Load
<1>11. ASSUME NEW s \in Senders, Save(s) PROVE KeptInv'
  <2>1. history' = Recorded(history, send[s]) /\ saved' = saved \cup {send[s]}
    BY <1>11 DEF Save
  <2>2. saved' \subseteq history'.perJob
    BY <2>1 DEF Recorded
  <2>3. \A t \in Senders : at'[t] # "save"
    BY <1>11 DEF Save, Stops
  <2> QED BY <1>11, <2>2, <2>3 DEF Save, Stops
<1>12. ASSUME NEW s \in Senders, CheckToken(s) \/ Unlink(s) PROVE KeptInv'
  BY <1>12 DEF CheckToken, Unlink, Stops
<1>13. ASSUME NEW s \in Senders, Dies(s) PROVE KeptInv'
  BY <1>13 DEF Dies
<1>14. ASSUME NEW i \in SendIds, TimePasses(i) PROVE KeptInv'
  BY <1>14 DEF TimePasses
<1>15. CASE UNCHANGED vars
  BY <1>15 DEF vars
<1> QED
  BY <1>1, <1>2, <1>3, <1>4, <1>4b, <1>5, <1>6, <1>7, <1>7b, <1>8, <1>9, <1>10, <1>11,
     <1>12, <1>13, <1>14, <1>15 DEF Next, Records, Locks

\* Every send that is under way keeps a number of its own.
LEMMA FreshNext ==
    ASSUME TypeOK, KeptInv, FreshInv, [Next]_vars,
           faults' = 0
    PROVE  FreshInv'
<1> USE DEF TypeOK, Busy, FreshInv
<1>1. ASSUME NEW s \in Senders, NEW k \in Keys, NEW a \in AmountsOf[k],
             gateExternalSend(s, k, a)
      PROVE FreshInv'
  <2>1. sends' = sends + 1 /\ send' = [send EXCEPT ![s] = sends + 1] /\ history' = history
    BY <1>1 DEF gateExternalSend
  <2>2. \A t \in Senders \ {s} :
          send'[t] = send[t] /\ send[t] \in 0..sends /\ at'[t] = at[t]
    BY <1>1, <2>1 DEF gateExternalSend
  <2>3. send'[s] = sends + 1
    BY <2>1
  <2>4. /\ history.global \subseteq 1..(sends + 1)
        /\ sends + 1 \notin history.global
        /\ sends + 1 \notin 0..sends
    OBVIOUS
  <2> QED BY <2>1, <2>2, <2>3, <2>4
<1>2. ASSUME NEW s \in Senders, SendFails(s) PROVE FreshInv'
  BY <1>2 DEF SendFails, Stops
<1>3. ASSUME NEW s \in Senders, recordDispatcherSend(s) PROVE FreshInv'
  BY <1>3 DEF recordDispatcherSend
<1>4. ASSUME NEW s \in Senders, Create(s) \/ Fill(s) PROVE FreshInv'
  BY <1>4 DEF Create, Fill
<1>5. ASSUME NEW s \in Senders,
             Judge(s) \/ EnterGate(s) \/ GateIsTaken(s) \/ RemoveGate(s)
      PROVE FreshInv'
  BY <1>5 DEF Judge, EnterGate, GateIsTaken, RemoveGate
<1>6. ASSUME NEW s \in Senders,
             Recheck(s) \/ Install(s) \/ ReadBack(s) \/ LeaveGate(s)
      PROVE FreshInv'
  BY <1>6 DEF Recheck, Install, ReadBack, LeaveGate
<1>7. ASSUME NEW s \in Senders, GivesUp(s) \/ Load(s) PROVE FreshInv'
  BY <1>7 DEF GivesUp, Load
<1>8. ASSUME NEW s \in Senders, Save(s) PROVE FreshInv'
  <2>1. history' = Recorded(history, send[s])
    BY <1>8 DEF Save, KeptInv, CopyInv
  <2>2. history'.global \subseteq history.global \cup {send[s]}
    BY <2>1 DEF Recorded
  <2>3. send[s] \in 0..sends /\ send[s] # 0 /\ sends' = sends /\ sends \in Nat
    BY <1>8 DEF Save
  <2>4. \A t \in Senders : /\ send'[t] = send[t] \/ (t = s /\ send'[t] = 0)
                           /\ at'[t] = "send" => at[t] = "send" /\ t # s
    <3>1. CASE Goes(s, "token")
      BY <1>8, <3>1 DEF Save
    <3>2. CASE Stops(s)
      BY <1>8, <3>2 DEF Save, Stops
    <3> QED BY <1>8, <3>1, <3>2 DEF Save
  <2>5. history'.global \subseteq 1..sends'
    BY <2>2, <2>3
  <2> QED BY <2>2, <2>3, <2>4, <2>5
<1>9. ASSUME NEW s \in Senders, CheckToken(s) \/ Unlink(s) PROVE FreshInv'
  BY <1>9 DEF CheckToken, Unlink, Stops
<1>10. ASSUME NEW s \in Senders, Dies(s) PROVE FreshInv'
  BY <1>10 DEF Dies
<1>11. ASSUME NEW i \in SendIds, TimePasses(i) PROVE FreshInv'
  BY <1>11 DEF TimePasses
<1>12. CASE UNCHANGED vars
  BY <1>12 DEF vars
<1> QED
  BY <1>1, <1>2, <1>3, <1>4, <1>5, <1>6, <1>7, <1>8, <1>9, <1>10, <1>11, <1>12
     DEF Next, Records, Locks

\* A step lets a send through, counts one that was under way, or at most drops
\* some.
Admits == /\ Cardinality(Recent(history)) < MaxSendsPerHour
          /\ Recent(history)' = Recent(history)
Counts == \E s \in InFlight : /\ InFlight' = InFlight \ {s}
                              /\ Recent(history)' \subseteq Recent(history) \cup {send[s]}
Drops == InFlight' \subseteq InFlight /\ Recent(history)' \subseteq Recent(history)

\* Every step is one of the three.
LEMMA HourSteps ==
    ASSUME TypeOK, KeptInv, FreshInv, [Next]_vars,
           faults' = 0
    PROVE  Admits \/ Counts \/ Drops
<1> USE DEF TypeOK, Busy, Recent, InFlight
<1>1. ASSUME NEW s \in Senders, NEW k \in Keys, NEW a \in AmountsOf[k],
             gateExternalSend(s, k, a)
      PROVE Admits
  BY <1>1 DEF gateExternalSend, checkDispatcherRateLimit, Admits
<1>2. ASSUME NEW s \in Senders, SendFails(s) PROVE Drops
  BY <1>2 DEF SendFails, Stops, Drops
<1>3. ASSUME NEW s \in Senders, recordDispatcherSend(s) PROVE Drops
  <2>1. \A i \in history.global : i # send[s]
    BY <1>3 DEF recordDispatcherSend, FreshInv
  <2>2. \A i \in history.global : age'[i] = age[i]
    BY <1>3, <2>1 DEF recordDispatcherSend, Histories
  <2>3. history' = history /\ InFlight' = InFlight
    BY <1>3 DEF recordDispatcherSend
  <2> QED BY <2>2, <2>3 DEF Drops
<1>4. ASSUME NEW s \in Senders, Create(s) \/ Fill(s) PROVE Drops
  BY <1>4 DEF Create, Fill, Drops
<1>5. ASSUME NEW s \in Senders,
             Judge(s) \/ EnterGate(s) \/ GateIsTaken(s) \/ RemoveGate(s)
      PROVE Drops
  BY <1>5 DEF Judge, EnterGate, GateIsTaken, RemoveGate, Drops
<1>6. ASSUME NEW s \in Senders,
             Recheck(s) \/ Install(s) \/ ReadBack(s) \/ LeaveGate(s)
      PROVE Drops
  BY <1>6 DEF Recheck, Install, ReadBack, LeaveGate, Drops
<1>7. ASSUME NEW s \in Senders, GivesUp(s) \/ Load(s) PROVE Drops
  BY <1>7 DEF GivesUp, Load, Drops
<1>8. ASSUME NEW s \in Senders, Save(s) PROVE Counts
  <2>1. history' = Recorded(history, send[s]) /\ age' = age
    BY <1>8 DEF Save, KeptInv, CopyInv
  <2>2. Recent(history)' \subseteq Recent(history) \cup {send[s]}
    BY <2>1 DEF Recorded
  <2>3. s \in InFlight /\ InFlight' = InFlight \ {s}
    BY <1>8 DEF Save, Stops
  <2> HIDE DEF Recent, InFlight
  <2> QED BY <2>2, <2>3 DEF Counts
<1>9. ASSUME NEW s \in Senders, CheckToken(s) \/ Unlink(s) PROVE Drops
  BY <1>9 DEF CheckToken, Unlink, Stops, Drops
<1>10. ASSUME NEW s \in Senders, Dies(s) PROVE Drops
  BY <1>10 DEF Dies, Drops
<1>11. ASSUME NEW i \in SendIds, TimePasses(i) PROVE Drops
  BY <1>11 DEF TimePasses, Drops
<1>12. CASE UNCHANGED vars
  BY <1>12 DEF vars, Drops
<1> QED
  BY <1>1, <1>2, <1>3, <1>4, <1>5, <1>6, <1>7, <1>8, <1>9, <1>10, <1>11, <1>12
     DEF Next, Records, Locks

\* None of them exceeds the limit by more than the senders under way.
LEMMA HourNext ==
    ASSUME TypeOK, TypeOK', KeptInv, FreshInv,
           [Next]_vars, faults' = 0, faults = 0, HourIsBounded
    PROVE  HourIsBounded'
<1> DEFINE R == Cardinality(Recent(history))
           F == Cardinality(InFlight)
           N == Cardinality(Senders)
<1>1. IsFiniteSet(Recent(history)) /\ IsFiniteSet(InFlight)
  <2>1. IsFiniteSet(SendIds)
    BY SendsAreFinite
  <2>2. Recent(history) \subseteq SendIds /\ InFlight \subseteq Senders
    BY DEF TypeOK, Histories, Recent, InFlight
  <2> QED BY <2>1, <2>2, FS_Subset
<1>2. R \in Nat /\ F \in Nat /\ N \in Nat /\ N > 0
  BY <1>1, FS_CardinalityType, FS_EmptySet
<1>3. R + F <= MaxSendsPerHour + N - 1
  BY DEF HourIsBounded
<1>4. CASE Admits
  <2>1. IsFiniteSet(InFlight') /\ F' <= N
    <3>1. InFlight' \subseteq Senders
      BY DEF InFlight
    <3> QED BY <3>1, FS_Subset
  <2>2. R' = R /\ R < MaxSendsPerHour
    BY <1>4 DEF Admits
  <2>3. F' \in Nat
    BY <2>1, FS_CardinalityType
  <2>4. R' + F' <= MaxSendsPerHour + N - 1
    BY <2>1, <2>2, <2>3, <1>2
  <2> QED BY <2>4 DEF HourIsBounded
<1>5. CASE Counts
  <2>1. PICK s \in InFlight : /\ InFlight' = InFlight \ {s}
                              /\ Recent(history)' \subseteq Recent(history) \cup {send[s]}
    BY <1>5 DEF Counts
  <2>2. F' = F - 1
    BY <2>1, <1>1, FS_RemoveElement
  <2>3. /\ IsFiniteSet(Recent(history) \cup {send[s]})
        /\ Cardinality(Recent(history) \cup {send[s]}) \in {R, R + 1}
    BY <1>1, FS_AddElement
  <2>4. R' <= Cardinality(Recent(history) \cup {send[s]}) /\ IsFiniteSet(Recent(history)')
    BY <2>1, <2>3, FS_Subset
  <2>5. R' \in Nat
    BY <2>4, FS_CardinalityType
  <2>6. R' + F' <= MaxSendsPerHour + N - 1
    <3>1. R' <= R + 1
      BY <2>3, <2>4, <2>5, <1>2
    <3> HIDE DEF R, F, N
    <3> QED BY <3>1, <2>2, <2>5, <1>2, <1>3
  <2> QED BY <2>6 DEF HourIsBounded
<1>6. CASE Drops
  <2>1. R' <= R /\ F' <= F /\ IsFiniteSet(Recent(history)') /\ IsFiniteSet(InFlight')
    BY <1>6, <1>1, FS_Subset DEF Drops
  <2>2. R' \in Nat /\ F' \in Nat
    BY <2>1, FS_CardinalityType
  <2>3. R' + F' <= MaxSendsPerHour + N - 1
    <3> HIDE DEF R, F, N
    <3> QED BY <2>1, <2>2, <1>2, <1>3
  <2> QED BY <2>3 DEF HourIsBounded
<1> QED BY <1>4, <1>5, <1>6, HourSteps

-----------------------------------------------------------------------------
(* What a job was refunded *)

\* The sum that the code folds is the one the lemmas count, ...
LEMMA RefundedIs ==
    ASSUME TypeOK, NEW k
    PROVE  Refunded(k) = Cardinality(Units(amount, SavedOf(k)))
<1>1. SavedOf(k) \subseteq SendIds
  BY DEF TypeOK, SavedOf
<1>2. IsFiniteSet(SendIds)
  BY SendsAreFinite
<1>3. IsFiniteSet(SavedOf(k)) /\ \A i \in SavedOf(k) : amount[i] \in Nat
  BY <1>1, <1>2, FS_Subset DEF TypeOK
<1>4. Refunded(k) = Adding(amount, SavedOf(k))[SavedOf(k)]
  BY DEF Refunded, Total, FoldSet, MapThenFoldSet, Adding
<1> QED BY <1>3, <1>4, SumIsCount

\* ... before a step and after it.
LEMMA RefundedIsThen ==
    ASSUME TypeOK', NEW k
    PROVE  Refunded(k)' = Cardinality(Units(amount', SavedOf(k)'))
<1>1. SavedOf(k)' \subseteq SendIds
  BY DEF TypeOK, SavedOf
<1>2. IsFiniteSet(SendIds)
  BY SendsAreFinite
<1>3. IsFiniteSet(SavedOf(k)') /\ \A i \in SavedOf(k)' : amount'[i] \in Nat
  BY <1>1, <1>2, FS_Subset DEF TypeOK
<1>4. Refunded(k)' = Adding(amount', SavedOf(k)')[SavedOf(k)']
  BY DEF Refunded, Total, FoldSet, MapThenFoldSet, Adding
<1> QED BY <1>3, <1>4, SumIsCount

\* A sum stays when its sends and their amounts do, ...
LEMMA RefundedStays ==
    ASSUME TypeOK, TypeOK', NEW k, SavedOf(k)' = SavedOf(k),
           \A i \in SavedOf(k) : amount'[i] = amount[i]
    PROVE  Refunded(k)' = Refunded(k)
<1>1. Units(amount', SavedOf(k)') = Units(amount, SavedOf(k))
  BY DEF Units
<1> QED BY <1>1, RefundedIs, RefundedIsThen

\* ... and grows by the amount of a send that is recorded.
LEMMA RefundedGrows ==
    ASSUME TypeOK, TypeOK', NEW k, amount' = amount,
           NEW i \in SendIds, i \notin SavedOf(k), SavedOf(k)' = SavedOf(k) \cup {i}
    PROVE  Refunded(k)' = Refunded(k) + amount[i]
<1> DEFINE J == SavedOf(k) \cup {i}
<1>1. J \subseteq SendIds /\ J \ {i} = SavedOf(k) /\ i \in J
  BY DEF TypeOK, SavedOf
<1>2. IsFiniteSet(J) /\ \A x \in J : amount[x] \in Nat
  <2>1. IsFiniteSet(SendIds)
    BY SendsAreFinite
  <2> QED BY <1>1, <2>1, FS_Subset DEF TypeOK
<1> HIDE DEF J
<1>3. Cardinality(Units(amount, J)) = Cardinality(Units(amount, J \ {i})) + amount[i]
  BY <1>1, <1>2, UnitsCount
<1>4. Refunded(k)' = Cardinality(Units(amount, J))
  BY RefundedIsThen DEF J
<1> QED BY <1>1, <1>3, <1>4, RefundedIs

\* The sums are numbers.
LEMMA RefundedTyped ==
    ASSUME TypeOK, NEW k
    PROVE  Refunded(k) \in Nat
<1>1. SavedOf(k) \subseteq SendIds /\ IsFiniteSet(SendIds)
  BY SendsAreFinite DEF TypeOK, SavedOf
<1>2. IsFiniteSet(SavedOf(k)) /\ \A i \in SavedOf(k) : amount[i] \in Nat
  BY <1>1, FS_Subset DEF TypeOK
<1>3. IsFiniteSet(Units(amount, SavedOf(k)))
  BY <1>2, UnitsFinite
<1> QED BY <1>3, RefundedIs, FS_CardinalityType

\* A send that is let through, one that is recorded, and all other steps.
Allowed(s, k, a) == gateExternalSend(s, k, a)
Booked(s) ==
    /\ Due(s) /\ UNCHANGED <<keyOf, amount, sends, send>>
    /\ saved' = saved \cup {send[s]} /\ history'.perJob = history.perJob \cup {send[s]}
    /\ at' = [at EXCEPT ![s] = "token"]
Unbooked ==
    /\ UNCHANGED <<history, saved, keyOf, amount, sends>>
    /\ \A t \in Senders :
          send'[t] # 0 => /\ send'[t] = send[t] /\ Busy(t)'
                          /\ Due(t)' => Due(t)

\* Every step is one of them.
LEMMA RefundSteps ==
    ASSUME TypeOK, KeptInv, RefundInv, [Next]_vars,
           faults = 0, faults' = 0
    PROVE  \/ \E s \in Senders : \E k \in Keys : \E a \in AmountsOf[k] : Allowed(s, k, a)
           \/ \E s \in Senders : Booked(s)
           \/ Unbooked
<1> USE DEF TypeOK, Busy, Due, Unbooked
<1>b. \A s \in Senders : send[s] # 0 => Busy(s)
  BY DEF RefundInv
<1>1. ASSUME NEW s \in Senders, SendFails(s) \/ recordDispatcherSend(s) PROVE Unbooked
  BY <1>1, <1>b DEF SendFails, recordDispatcherSend, Stops
<1>2. ASSUME NEW s \in Senders, Create(s) \/ Fill(s) PROVE Unbooked
  BY <1>2, <1>b DEF Create, Fill
<1>3. ASSUME NEW s \in Senders, Judge(s) \/ EnterGate(s) PROVE Unbooked
  BY <1>3, <1>b DEF Judge, EnterGate
<1>4. ASSUME NEW s \in Senders, GateIsTaken(s) \/ RemoveGate(s)
      PROVE Unbooked
  BY <1>4, <1>b DEF GateIsTaken, RemoveGate
<1>5. ASSUME NEW s \in Senders, Recheck(s) \/ Install(s) PROVE Unbooked
  BY <1>5, <1>b DEF Recheck, Install
<1>6. ASSUME NEW s \in Senders, ReadBack(s) \/ LeaveGate(s)
      PROVE Unbooked
  BY <1>6, <1>b DEF ReadBack, LeaveGate
<1>7. ASSUME NEW s \in Senders, GivesUp(s) \/ Load(s) PROVE Unbooked
  BY <1>7, <1>b DEF GivesUp, Load
<1>8. ASSUME NEW s \in Senders, Save(s) PROVE Booked(s)
  <2>1. history' = Recorded(history, send[s]) /\ saved' = saved \cup {send[s]}
    BY <1>8 DEF Save, KeptInv, CopyInv
  <2>2. held[s] /\ send[s] # 0 /\ at[s] = "save"
    BY <1>8 DEF Save, KeptInv, LockInv, Inside
  <2>3. Goes(s, "token")
    BY <1>8, <2>2 DEF Save
  <2>4. history'.perJob = history.perJob \cup {send[s]}
    BY <2>1 DEF Recorded
  <2> QED BY <1>8, <2>1, <2>2, <2>3, <2>4 DEF Save, Booked
<1>9. ASSUME NEW s \in Senders, CheckToken(s) PROVE Unbooked
  BY <1>9, <1>b DEF CheckToken, Stops
<1>10. ASSUME NEW s \in Senders, Unlink(s) \/ Dies(s) PROVE Unbooked
  BY <1>10, <1>b DEF Unlink, Dies, Stops
<1>11. ASSUME NEW i \in SendIds, TimePasses(i) PROVE Unbooked
  BY <1>11, <1>b DEF TimePasses
<1>12. CASE UNCHANGED vars
  BY <1>12, <1>b DEF vars
<1> QED
  BY <1>1, <1>2, <1>3, <1>4, <1>5, <1>6, <1>7, <1>8, <1>9, <1>10, <1>11, <1>12
     DEF Next, Records, Locks, Allowed

\* The parts of RefundInv: sends and history, one refund of a job at a time,
\* and what a refund under way leaves.
Numbered ==
    /\ history.perJob \subseteq saved /\ saved \subseteq 1..sends
    /\ \A s \in Senders : send[s] # 0 => Busy(s)
    /\ \A s \in Senders : Due(s) => send[s] \notin saved
OneRefund ==
    \A s, t \in Senders :
        (send[s] # 0 /\ send[t] # 0 /\ IsRefund(s) /\ keyOf[send[s]] = keyOf[send[t]])
            => s = t
Fits(s, k) ==
    Due(s) /\ IsRefund(s) /\ keyOf[send[s]] = k =>
        10 * (Refunded(k) + amount[send[s]]) <= 11 * Price
AllFit == \A s \in Senders, k \in Keys : Fits(s, k)
Within == \A k \in Keys : KindOf[k] = "refund" => 10 * Refunded(k) <= 11 * Price

\* RefundInv is these parts, and the property the last of them, ...
LEMMA RefundParts ==
    /\ RefundInv <=> Numbered /\ OneRefund /\ AllFit
    /\ RefundIsBounded <=> (faults = 0 => Within)
BY DEF RefundInv, Numbered, OneRefund, AllFit, Fits, Within, RefundIsBounded,
       Refunded, SavedOf

\* ... before a step and after it.
LEMMA RefundPartsThen ==
    /\ RefundInv' <=> Numbered' /\ OneRefund' /\ AllFit'
    /\ RefundIsBounded' <=> (faults' = 0 => Within')
BY DEF RefundInv, Numbered, OneRefund, AllFit, Fits, Within, RefundIsBounded,
       Refunded, SavedOf

\* A refund that is let through fits into what is left of the price, ...
LEMMA AllowedFits ==
    ASSUME TypeOK, TypeOK', KeptInv, FreshInv, RefundInv,
           Within, faults = 0,
           NEW s \in Senders, NEW k \in Keys, NEW a \in AmountsOf[k], Allowed(s, k, a)
    PROVE  Numbered' /\ OneRefund' /\ AllFit' /\ Within'
<1> DEFINE n == sends + 1
<1>1. /\ n \in SendIds /\ send' = [send EXCEPT ![s] = n] /\ sends' = n
      /\ keyOf' = [keyOf EXCEPT ![n] = k] /\ amount' = [amount EXCEPT ![n] = a]
      /\ at' = [at EXCEPT ![s] = "send"] /\ history' = history /\ saved' = saved
  BY DEF Allowed, gateExternalSend, TypeOK, SendIds, file
<1>2. n \notin saved /\ \A t \in Senders : send[t] # n
  BY DEF RefundInv, TypeOK
<1>3. ASSUME NEW q PROVE Refunded(q)' = Refunded(q)
  <2>1. \A i \in saved : keyOf'[i] = keyOf[i] /\ amount'[i] = amount[i]
    BY <1>1, <1>2 DEF TypeOK
  <2>2. SavedOf(q)' = SavedOf(q)
    BY <1>1, <2>1 DEF SavedOf
  <2>3. \A i \in SavedOf(q) : amount'[i] = amount[i]
    BY <2>1 DEF SavedOf
  <2> QED BY <2>2, <2>3, RefundedStays
<1>4. keyOf'[n] = k /\ amount'[n] = a /\ send'[s] = n
  BY <1>1 DEF TypeOK
<1>5. \A t \in Senders \ {s} : send'[t] = send[t] /\ at'[t] = at[t]
  BY <1>1 DEF TypeOK
<1>6. \A t \in Senders : send[t] # 0 => /\ keyOf'[send[t]] = keyOf[send[t]]
                                       /\ amount'[send[t]] = amount[send[t]]
                                       /\ keyOf[send[t]] \in Keys
  BY <1>1, <1>2 DEF TypeOK, SendIds
<1>7. KindOf[k] = "refund" => 10 * (Refunded(k) + a) <= 11 * Price
  <2>1. Of(history, k) = SavedOf(k)
    BY DEF Of, SavedOf, KeptInv, RecordIsKept, RefundInv
  <2> QED BY <2>1 DEF Allowed, gateExternalSend, checkDispatcherRateLimit,
                       jobPrice, Refunded
<1>8. KindOf[k] = "refund" => \A t \in Senders : send[t] # 0 => keyOf[send[t]] # k
  BY DEF Allowed, gateExternalSend, SendLocked, Alive, Busy, RefundInv
<1> HIDE DEF n
<1>9. Within'
  BY <1>3 DEF Within
<1>10. OneRefund'
  BY <1>4, <1>5, <1>6, <1>8 DEF RefundInv, IsRefund, OneRefund
<1>11. ASSUME NEW t \in Senders, NEW q \in Keys PROVE Fits(t, q)'
  <2>1. CASE t = s
    BY <2>1, <1>3, <1>4, <1>7 DEF IsRefund, Fits
  <2>2. CASE t # s
    BY <2>2, <1>3, <1>5, <1>6 DEF IsRefund, Due, RefundInv, Fits
  <2> QED BY <2>1, <2>2
<1>12. \A t \in Senders : /\ send'[t] # 0 => Busy(t)'
                          /\ Due(t)' => send'[t] \notin saved'
  BY <1>1, <1>2, <1>4, <1>5 DEF RefundInv, Busy, Due, TypeOK
<1>13. history'.perJob \subseteq saved' /\ saved' \subseteq 1..sends'
  BY <1>1 DEF RefundInv, TypeOK, n
<1> QED BY <1>9, <1>10, <1>11, <1>12, <1>13 DEF Numbered, AllFit

\* ... its record moves the amount from the one to the other, ...
LEMMA BookedFits ==
    ASSUME TypeOK, TypeOK', FreshInv, RefundInv, Within,
           NEW s \in Senders, Booked(s)
    PROVE  Numbered' /\ OneRefund' /\ AllFit' /\ Within'
<1>0. /\ send[s] # 0 /\ send[s] \in SendIds /\ send[s] \in 1..sends
      /\ send[s] \notin saved /\ keyOf[send[s]] \in Keys
  BY DEF Booked, Due, RefundInv, TypeOK, SendIds
<1>n. PICK n \in SendIds : n = send[s]
  BY <1>0
<1>k. PICK k \in Keys : k = keyOf[n]
  BY <1>0, <1>n
<1>1. /\ n \notin saved /\ saved' = saved \cup {n}
      /\ keyOf' = keyOf /\ amount' = amount /\ sends' = sends /\ send' = send
  BY <1>0, <1>n DEF Booked
<1>2. Refunded(k)' = Refunded(k) + amount[n]
  <2>1. SavedOf(k)' = SavedOf(k) \cup {n} /\ n \notin SavedOf(k)
    BY <1>1, <1>k DEF SavedOf
  <2> QED BY <1>1, <2>1, RefundedGrows
<1>3. ASSUME NEW q, q # k PROVE Refunded(q)' = Refunded(q)
  <2>1. SavedOf(q)' = SavedOf(q)
    BY <1>1, <1>3, <1>k DEF SavedOf
  <2> QED BY <1>1, <2>1, RefundedStays
<1>4. KindOf[k] = "refund" => 10 * Refunded(k)' <= 11 * Price
  BY <1>2, <1>n, <1>k DEF Booked, RefundInv, IsRefund
<1>5. Within'
  BY <1>3, <1>4 DEF Within
<1>6. \A t \in Senders : /\ Due(t)' => Due(t) /\ t # s
                         /\ send'[t] # 0 => Busy(t)'
  BY DEF Booked, Due, Busy, RefundInv, TypeOK
<1>7. \A t \in Senders : Due(t)' => send'[t] \notin saved'
  BY <1>1, <1>n, <1>6 DEF Due, RefundInv, FreshInv
<1>8. ASSUME NEW t \in Senders, NEW q \in Keys PROVE Fits(t, q)'
  <2> SUFFICES ASSUME Due(t)', IsRefund(t)', keyOf'[send'[t]] = q
               PROVE  10 * (Refunded(q)' + amount'[send'[t]]) <= 11 * Price
    BY DEF Fits
  <2>1. Due(t) /\ t # s /\ IsRefund(t) /\ keyOf[send[t]] = q
    BY <1>1, <1>6 DEF IsRefund
  <2>2. q # k
    BY <2>1, <1>0, <1>n, <1>k DEF RefundInv, Due
  <2>3. Refunded(q)' = Refunded(q)
    BY <1>3, <2>2
  <2>4. 10 * (Refunded(q) + amount[send[t]]) <= 11 * Price
    BY <2>1 DEF RefundInv
  <2> QED BY <1>1, <2>3, <2>4
<1>9. history'.perJob \subseteq saved' /\ saved' \subseteq 1..sends'
  BY <1>0, <1>1, <1>n DEF Booked, RefundInv
<1>10. OneRefund'
  BY <1>1 DEF RefundInv, IsRefund, OneRefund
<1> QED BY <1>5, <1>6, <1>7, <1>8, <1>9, <1>10 DEF Numbered, AllFit

\* ... and no other step changes either.
LEMMA UnbookedFits ==
    ASSUME TypeOK, TypeOK', RefundInv, Within, Unbooked
    PROVE  Numbered' /\ OneRefund' /\ AllFit' /\ Within'
<1>1. /\ history' = history /\ saved' = saved /\ keyOf' = keyOf /\ amount' = amount
      /\ sends' = sends
  BY DEF Unbooked
<1>2. ASSUME NEW q PROVE Refunded(q)' = Refunded(q)
  <2>1. SavedOf(q)' = SavedOf(q)
    BY <1>1 DEF SavedOf
  <2> QED BY <1>1, <2>1, RefundedStays
<1>3. \A t \in Senders : send'[t] # 0 => /\ send'[t] = send[t] /\ Busy(t)'
                                         /\ Due(t)' => Due(t)
  BY DEF Unbooked
<1>4. ASSUME NEW t \in Senders, NEW q \in Keys PROVE Fits(t, q)'
  <2> SUFFICES ASSUME Due(t)', IsRefund(t)', keyOf'[send'[t]] = q
               PROVE  10 * (Refunded(q)' + amount'[send'[t]]) <= 11 * Price
    BY DEF Fits
  <2>1. send'[t] # 0
    BY DEF Due
  <2>2. send'[t] = send[t] /\ Due(t) /\ IsRefund(t) /\ keyOf[send[t]] = q
    BY <1>1, <1>3, <2>1 DEF IsRefund
  <2>3. 10 * (Refunded(q) + amount[send[t]]) <= 11 * Price
    BY <2>2 DEF RefundInv
  <2> QED BY <1>1, <1>2, <2>2, <2>3
<1>5. \A t \in Senders : /\ send'[t] # 0 => Busy(t)'
                         /\ Due(t)' => send'[t] \notin saved'
  <2>1. \A t \in Senders : Due(t)' => send'[t] # 0
    BY DEF Due
  <2> QED BY <1>1, <1>3, <2>1 DEF RefundInv
<1>6. OneRefund'
  BY <1>1, <1>3 DEF RefundInv, IsRefund, OneRefund
<1>7. Within'
  BY <1>2 DEF Within
<1>8. history'.perJob \subseteq saved' /\ saved' \subseteq 1..sends'
  BY <1>1 DEF RefundInv
<1> QED BY <1>4, <1>5, <1>6, <1>7, <1>8 DEF Numbered, AllFit

\* Every step keeps what was refunded within the price.
LEMMA RefundNext ==
    ASSUME TypeOK, TypeOK', KeptInv, FreshInv, RefundInv,
           RefundIsBounded, [Next]_vars, faults = 0, faults' = 0
    PROVE  RefundInv' /\ RefundIsBounded'
<1>1. Within
  BY RefundParts
<1>2. Numbered' /\ OneRefund' /\ AllFit' /\ Within'
  BY <1>1, RefundSteps, AllowedFits, BookedFits, UnbookedFits
<1> QED BY <1>2, RefundPartsThen

-----------------------------------------------------------------------------
(* The history, for any number of senders and sends *)

\* At first nobody is under way.
LEMMA HistoryStarts ==
    ASSUME Init
    PROVE  HistoryInv
<1>1. KeptInv /\ FreshInv
  BY DEF Init, KeptInv, LockInv, CopyInv, RecordIsKept, FreshInv,
         Gated, Inside, NoHistory
<1>2. Recent(history) = {} /\ InFlight = {}
  BY DEF Init, Recent, InFlight, NoHistory
<1>3. Cardinality(Senders) \in Nat /\ Cardinality(Senders) > 0
  BY FS_CardinalityType, FS_EmptySet
<1>4. HourIsBounded
  BY <1>2, <1>3, FS_EmptySet DEF HourIsBounded
<1>5. \A k : Refunded(k) = 0
  <2> TAKE k
  <2>1. Units(amount, SavedOf(k)) = {}
    BY DEF Init, SavedOf, Units
  <2> QED BY <2>1, RefundedIs, HistoryTyped, FS_EmptySet
<1>6. RefundInv
  BY DEF Init, RefundInv, Due, NoHistory
<1>7. RefundIsBounded
  <2>1. \A k \in Keys : 10 * Refunded(k) <= 11 * Price
    BY <1>5
  <2> QED BY <2>1 DEF RefundIsBounded, Refunded, SavedOf
<1> QED BY <1>1, <1>4, <1>6, <1>7, HistoryTyped DEF HistoryInv

\* A fault is never forgotten.
LEMMA FaultsCount ==
    ASSUME TypeOK, [Next]_vars, faults' = 0
    PROVE  faults = 0
BY DEF TypeOK, file, ofSend, ofSender, bounds, Fault, Stealable, vars,
       Next, Records, Locks, gateExternalSend, SendFails, recordDispatcherSend,
       Create, Fill, Judge, EnterGate, GateIsTaken, RemoveGate, Recheck,
       Install, ReadBack, LeaveGate, GivesUp, Load, Save, CheckToken,
       Unlink, Dies, TimePasses

\* The history of the sends, for any number of senders and sends.
LEMMA HistoryInvariant == Spec => []HistoryInv
<1>1. Init => HistoryInv
  BY HistoryStarts
<1>2. HistoryInv /\ [Next]_vars => HistoryInv'
  <2> SUFFICES ASSUME HistoryInv, [Next]_vars PROVE HistoryInv'
    OBVIOUS
  <2>1. TypeOK'
    BY HistoryTypesStay DEF HistoryInv
  <2>2. ASSUME faults' = 0
        PROVE  /\ KeptInv' /\ FreshInv' /\ HourIsBounded'
               /\ RefundInv' /\ RefundIsBounded'
    <3>1. faults = 0
      BY <2>2, FaultsCount DEF HistoryInv
    <3> QED BY <2>1, <2>2, <3>1, KeptNext, FreshNext, HourNext, RefundNext DEF HistoryInv
  <2> QED BY <2>1, <2>2 DEF HistoryInv
<1> QED BY <1>1, <1>2, PTL DEF Spec

\* A record that was written stays in the history, whoever dies with its lock
\* or while taking it over, as long as nobody gives the lock up, stalls or finds
\* the disk full.
THEOREM RecordsAreKept == Spec => []RecordIsKept
<1>1. HistoryInv => RecordIsKept
  BY DEF HistoryInv, KeptInv, RecordIsKept
<1> QED BY <1>1, HistoryInvariant, PTL

\* Under the same condition the sends of an hour are at most one per further
\* sender above the limit.
THEOREM HourIsKept == Spec => []HourIsBounded
<1>1. HistoryInv => HourIsBounded
  BY DEF HistoryInv, HourIsBounded
<1> QED BY <1>1, HistoryInvariant, PTL

\* What was recorded as refunds of a job is at most eleven tenths of its price.
THEOREM RefundsAreBounded == Spec => []RefundIsBounded
<1>1. HistoryInv => RefundIsBounded
  BY DEF HistoryInv, RefundIsBounded
<1> QED BY <1>1, HistoryInvariant, PTL

-----------------------------------------------------------------------------
(* The lock of the history *)

\* Who believes it has the lock.
Holding == {s \in Senders : held[s]}
HistoryLock == INSTANCE Mutex WITH Procs <- Senders, inside <- Holding

\* At most one sender does.
LEMMA OneHolds ==
    ASSUME LockInv, NEW s \in Holding
    PROVE  Holding = {s}
BY DEF LockInv, Holding

\* A step is one sender's.
LEMMA OneMoves ==
    ASSUME TypeOK, [Next]_vars
    PROVE  \E s \in Senders : \A t \in Senders \ {s} : held'[t] = held[t]
BY DEF TypeOK, file, ofSend, ofSender, vars, Next, Records, Locks, Goes, Stops,
       gateExternalSend, SendFails, recordDispatcherSend, Create, Fill, Judge, EnterGate,
       GateIsTaken, RemoveGate, Recheck, Install, ReadBack, LeaveGate, GivesUp, Load, Save,
       CheckToken, Unlink, Dies, TimePasses

\* As long as nobody gives the lock up, stalls or finds the disk full, the lock
\* of the history is taken by one sender at a time and left by it, be the lock
\* file torn or its holder dead, or die whoever takes it over.
THEOREM HistoryLockIsMutex == Spec /\ [](faults = 0) => HistoryLock!Spec
<1>1. Init => HistoryLock!Init
  BY DEF Init, HistoryLock!Init, Holding
<1>2. ASSUME TypeOK, LockInv, LockInv', [Next]_vars
      PROVE  [HistoryLock!Next]_Holding
  <2>1. PICK s \in Senders : \A t \in Senders \ {s} : held'[t] = held[t]
    BY <1>2, OneMoves
  <2>2. CASE held[s]
    <3>1. Holding = {s}
      BY <1>2, <2>2, OneHolds DEF Holding
    <3>2. Holding' = {} \/ Holding' = {s}
      BY <2>1, <3>1 DEF Holding
    <3> QED BY <3>1, <3>2 DEF HistoryLock!Next, HistoryLock!Leave
  <2>3. CASE ~held[s] /\ held'[s]
    <3>1. \A t \in Senders : held'[t] => t = s
      BY <1>2, <2>3 DEF LockInv
    <3>2. Holding = {} /\ Holding' = {s}
      BY <2>1, <2>3, <3>1 DEF Holding
    <3> QED BY <3>2 DEF HistoryLock!Next, HistoryLock!Enter
  <2>4. CASE ~held[s] /\ ~held'[s]
    BY <2>1, <2>4 DEF Holding
  <2> QED BY <2>2, <2>3, <2>4
<1>3. HistoryInv /\ faults = 0 => TypeOK /\ LockInv
  BY DEF HistoryInv, KeptInv
<1>4. Spec /\ [](faults = 0) => [](TypeOK /\ LockInv)
  BY <1>3, HistoryInvariant, PTL
<1>5. TypeOK /\ LockInv /\ (TypeOK /\ LockInv)' /\ [Next]_vars => [HistoryLock!Next]_Holding
  BY <1>2
<1> QED BY <1>1, <1>4, <1>5, PTL DEF Spec, HistoryLock!Spec

-----------------------------------------------------------------------------
(* The lock file of src/file-lock.js *)

CONSTANTS Procs, Gone, LeftGates, GateDeaths, Missing, MaxCrashes
VARIABLES tokenFile, gateFile, aside, orphan, won, pc, alive, kills

F == INSTANCE FileLock WITH lock <- tokenFile, gate <- gateFile, at <- pc, crashes <- kills

\* The lock file names the process that acts as its holder.
Owning == {"held", "check", "unlink", "readback"}

\* Who dies stops; the gate names the process inside it, and is not moved.
FileGateInv ==
    /\ \A p \in Procs : p \in alive <=> pc[p] # "dead"
    /\ gateFile \in Procs \cup {Missing}
    /\ \A p \in Procs : pc[p] \in F!Stealing <=> gateFile = p
    /\ \A p \in Procs : pc[p] \notin {"rename", "prove", "putback", "regate"}

\* The lock names its holder, and a lock about to be replaced a dead process.
FileHolderInv ==
    /\ \A p \in Procs : pc[p] \in Owning => tokenFile = p
    /\ \A p \in Procs : pc[p] = "ungate" /\ won[p] => tokenFile = p
    /\ \A p \in Procs : pc[p] # "ungate" /\ pc[p] # "dead" => ~won[p]
    /\ \A p \in Procs : pc[p] = "install" => tokenFile \notin alive /\ tokenFile # Missing

FileInv == F!TypeOK /\ FileGateInv /\ FileHolderInv

USE DEF F!File, F!Path, F!FileLockAssumption

-----------------------------------------------------------------------------
\* The state stays typed.
LEMMA FileTypeInit ==
    ASSUME F!FileLockAssumption
    PROVE  F!Init => F!TypeOK
BY DEF F!Init, F!TypeOK, F!Points

\* Every step keeps the types.
LEMMA FileTypeNext ==
    ASSUME F!FileLockAssumption
    PROVE  F!TypeOK /\ [F!Next]_(F!vars) => F!TypeOK'
<1> SUFFICES ASSUME F!TypeOK, [F!Next]_(F!vars) PROVE F!TypeOK'
  OBVIOUS
<1> USE DEF F!TypeOK, F!Points, F!Goto, F!Keep, F!paths
<1>1. ASSUME NEW p \in Procs, F!Begin(p) PROVE F!TypeOK'
  BY <1>1 DEF F!Begin
<1>2. ASSUME NEW p \in Procs, F!Publish(p) \/ F!Read(p) \/ F!Retry(p) PROVE F!TypeOK'
  BY <1>2 DEF F!Publish, F!Read, F!Retry
<1>3. ASSUME NEW p \in Procs, F!PublishGate(p) \/ F!JudgeGate(p) PROVE F!TypeOK'
  BY <1>3 DEF F!PublishGate, F!JudgeGate
<1>4. ASSUME NEW p \in Procs, F!RenameGate(p) \/ F!ProveGate(p) \/ F!PutGateBack(p)
      PROVE F!TypeOK'
  BY <1>4 DEF F!RenameGate, F!ProveGate, F!PutGateBack
<1>5. ASSUME NEW p \in Procs, F!LookAgain(p) \/ F!Compete(p) \/ F!Install(p)
      PROVE F!TypeOK'
  BY <1>5 DEF F!LookAgain, F!Compete, F!Install
<1>6. ASSUME NEW p \in Procs, F!ReadBack(p) \/ F!RemoveGate(p) PROVE F!TypeOK'
  BY <1>6 DEF F!ReadBack, F!RemoveGate
<1>7. ASSUME NEW p \in Procs, F!Release(p) \/ F!CheckToken(p) \/ F!Unlink(p) PROVE F!TypeOK'
  BY <1>7 DEF F!Release, F!CheckToken, F!Unlink
<1>8. ASSUME NEW p \in Procs, F!Crash(p) PROVE F!TypeOK'
  BY <1>8 DEF F!Crash
<1>9. CASE UNCHANGED F!vars
  BY <1>9 DEF F!vars
<1> QED BY <1>1, <1>2, <1>3, <1>4, <1>5, <1>6, <1>7, <1>8, <1>9 DEF F!Next, F!Step, F!Steal

\* The state stays typed, for any number of processes and deaths.
THEOREM TypeCorrect ==
    ASSUME F!FileLockAssumption
    PROVE  F!Spec => []F!TypeOK
BY FileTypeInit, FileTypeNext, PTL DEF F!Spec

-----------------------------------------------------------------------------
\* Without files left behind, nobody is in the gate and nobody holds the lock.
LEMMA FileInvInit ==
    ASSUME F!FileLockAssumption, LeftGates = {}
    PROVE  F!Init => FileInv
BY FileTypeInit
   DEF F!Init, FileInv, FileGateInv, FileHolderInv, Owning, F!Stealing

\* Every step keeps the invariant while nobody dies inside the gate.
LEMMA FileInvNext ==
    ASSUME F!FileLockAssumption, GateDeaths = FALSE, FileInv, [F!Next]_(F!vars)
    PROVE  FileInv'
<1>0. F!TypeOK'
  BY FileTypeNext DEF FileInv
<1> SUFFICES FileGateInv' /\ FileHolderInv'
  BY <1>0 DEF FileInv
<1> USE DEF FileInv, F!TypeOK, F!Points, FileGateInv, FileHolderInv, Owning,
           F!Stealing, F!Goto, F!Keep, F!paths
<1>1. ASSUME NEW p \in Procs, F!Begin(p) PROVE FileGateInv' /\ FileHolderInv'
  BY <1>1 DEF F!Begin
<1>2. ASSUME NEW p \in Procs, F!Publish(p) PROVE FileGateInv' /\ FileHolderInv'
  BY <1>2 DEF F!Publish
<1>3. ASSUME NEW p \in Procs, F!Read(p) \/ F!Retry(p) PROVE FileGateInv' /\ FileHolderInv'
  BY <1>3 DEF F!Read, F!Retry
<1>4. ASSUME NEW p \in Procs, F!PublishGate(p) PROVE FileGateInv' /\ FileHolderInv'
  BY <1>4 DEF F!PublishGate
<1>5. ASSUME NEW p \in Procs, F!JudgeGate(p) PROVE FileGateInv' /\ FileHolderInv'
  <2>1. gateFile \in alive \cup {Missing}
    OBVIOUS
  <2> QED BY <1>5, <2>1 DEF F!JudgeGate
<1>6. ASSUME NEW p \in Procs, F!RenameGate(p) \/ F!ProveGate(p) \/ F!PutGateBack(p)
      PROVE FileGateInv' /\ FileHolderInv'
  BY <1>6 DEF F!RenameGate, F!ProveGate, F!PutGateBack
<1>7. ASSUME NEW p \in Procs, F!LookAgain(p) PROVE FileGateInv' /\ FileHolderInv'
  BY <1>7 DEF F!LookAgain
<1>8. ASSUME NEW p \in Procs, F!Compete(p) PROVE FileGateInv' /\ FileHolderInv'
  BY <1>8 DEF F!Compete
<1>9. ASSUME NEW p \in Procs, F!Install(p) PROVE FileGateInv' /\ FileHolderInv'
  BY <1>9 DEF F!Install
<1>10. ASSUME NEW p \in Procs, F!ReadBack(p) PROVE FileGateInv' /\ FileHolderInv'
  BY <1>10 DEF F!ReadBack
<1>11. ASSUME NEW p \in Procs, F!RemoveGate(p) PROVE FileGateInv' /\ FileHolderInv'
  BY <1>11 DEF F!RemoveGate
<1>12. ASSUME NEW p \in Procs, F!Release(p) \/ F!CheckToken(p)
       PROVE FileGateInv' /\ FileHolderInv'
  BY <1>12 DEF F!Release, F!CheckToken
<1>13. ASSUME NEW p \in Procs, F!Unlink(p) PROVE FileGateInv' /\ FileHolderInv'
  BY <1>13 DEF F!Unlink
<1>14. ASSUME NEW p \in Procs, F!Crash(p) PROVE FileGateInv' /\ FileHolderInv'
  BY <1>14 DEF F!Crash
<1>15. CASE UNCHANGED F!vars
  BY <1>15 DEF F!vars
<1> QED
  BY <1>1, <1>2, <1>3, <1>4, <1>5, <1>6, <1>7, <1>8, <1>9, <1>10, <1>11, <1>12,
     <1>13, <1>14, <1>15 DEF F!Next, F!Step, F!Steal

-----------------------------------------------------------------------------
\* At most one process is inside, and the lock file names it.
LEMMA AtMostOne ==
    ASSUME F!FileLockAssumption, FileInv, NEW p \in F!Inside
    PROVE  tokenFile = p /\ F!Inside = {p}
BY DEF FileInv, FileHolderInv, Owning, F!Inside

\* The moves of one process into, out of and outside the section.
LEMMA Moves ==
    ASSUME F!FileLockAssumption, F!TypeOK, NEW p \in Procs,
           NEW place \in F!Points, F!Goto(p, place)
    PROVE  /\ place = "held" => F!Inside' = F!Inside \cup {p}
           /\ place # "held" => F!Inside' = F!Inside \ {p}
BY DEF F!TypeOK, F!Goto, F!Inside

\* A step enters the empty section, leaves it, or does not concern it.
LEMMA StepRefines ==
    ASSUME F!FileLockAssumption, FileInv, [F!Next]_(F!vars)
    PROVE  [F!Lock!Next]_(F!Inside)
<1> DEFINE Refines == [F!Lock!Next]_(F!Inside)
<1> USE DEF F!Lock!Next, F!Lock!Enter, F!Lock!Leave
<1>0. F!TypeOK
  BY DEF FileInv
<1>1. ASSUME NEW p \in Procs, NEW place \in F!Points \ {"held"}, F!Goto(p, place)
      PROVE  Refines
  <2>1. F!Inside' = F!Inside \ {p}
    BY <1>0, <1>1, Moves
  <2>2. CASE p \in F!Inside
    BY <2>1, <2>2, AtMostOne
  <2>3. CASE p \notin F!Inside
    BY <2>1, <2>3
  <2> QED BY <2>2, <2>3
<1>2. ASSUME NEW p \in Procs, F!Goto(p, "held"), F!Inside = {}
      PROVE  Refines
  BY <1>0, <1>2, Moves DEF F!Points
<1>3. ASSUME NEW p \in Procs, F!Publish(p) PROVE Refines
  <2>1. CASE tokenFile = Missing
    <3>1. F!Inside = {}
      BY <2>1, AtMostOne DEF F!Inside
    <3> QED BY <1>2, <1>3, <2>1, <3>1 DEF F!Publish
  <2>2. CASE tokenFile # Missing
    BY <1>1, <1>3, <2>2 DEF F!Publish, F!Points
  <2> QED BY <2>1, <2>2
<1>4. ASSUME NEW p \in Procs, F!RemoveGate(p) PROVE Refines
  <2>1. CASE won[p]
    <3>1. F!Inside = {}
      <4>1. tokenFile = p /\ p \notin F!Inside
        BY <1>4, <2>1 DEF FileInv, FileHolderInv, F!RemoveGate, F!Inside
      <4> QED BY <4>1, AtMostOne
    <3> QED BY <1>2, <1>4, <2>1, <3>1 DEF F!RemoveGate
  <2>2. CASE ~won[p]
    BY <1>1, <1>4, <2>2 DEF F!RemoveGate, F!Points
  <2> QED BY <2>1, <2>2
<1>5. ASSUME NEW p \in Procs, F!Begin(p) \/ F!Read(p) \/ F!Retry(p) \/ F!Release(p)
                              \/ F!CheckToken(p)
                              \/ F!Unlink(p) \/ F!Crash(p)
      PROVE Refines
  BY <1>1, <1>5 DEF F!Begin, F!Read, F!Retry, F!Release, F!CheckToken, F!Unlink,
                       F!Crash, F!Points
<1>6. ASSUME NEW p \in Procs, F!PublishGate(p) \/ F!JudgeGate(p) \/ F!RenameGate(p)
                              \/ F!ProveGate(p)
                              \/ F!PutGateBack(p)
      PROVE Refines
  BY <1>1, <1>6 DEF F!PublishGate, F!JudgeGate, F!RenameGate, F!ProveGate,
                       F!PutGateBack, F!Points
<1>7. ASSUME NEW p \in Procs, F!LookAgain(p) \/ F!Compete(p) \/ F!Install(p) \/ F!ReadBack(p)
      PROVE Refines
  BY <1>1, <1>7 DEF F!LookAgain, F!Compete, F!Install, F!ReadBack, F!Points
<1>8. CASE UNCHANGED F!vars
  BY <1>8 DEF F!vars, F!Inside
<1> QED
  BY <1>3, <1>4, <1>5, <1>6, <1>7, <1>8 DEF F!Next, F!Step, F!Steal

\* FileLock implements Mutex.
THEOREM Implementation ==
    ASSUME F!FileLockAssumption, LeftGates = {}, GateDeaths = FALSE
    PROVE  F!Spec => F!IsMutex
<1>1. F!Init => F!Lock!Init
  BY DEF F!Init, F!Lock!Init, F!Inside
<1>2. F!Spec => []FileInv
  BY FileInvInit, FileInvNext, PTL DEF F!Spec
<1>3. FileInv /\ [F!Next]_(F!vars) => [F!Lock!Next]_(F!Inside)
  BY StepRefines
<1> QED
  BY <1>1, <1>2, <1>3, PTL DEF F!Spec, F!IsMutex, F!Lock!Spec
=============================================================================
