------------------------ MODULE RelaySupervisorProofs ------------------------
(***************************************************************************)
(* Theorems about RelaySupervisor for every finite set of supervisors,     *)
(* every set of targets, whatever their names, and every number of slots.  *)
(***************************************************************************)
EXTENDS RelaySupervisor, FiniteSetTheorems, TLAPS

----------------------------------------------------------------------------
(* The inductive invariant *)

\* The relays cancel_relays has still to see off.
Queued == {pending[i] : i \in DOMAIN pending}

\* Whoever still runs belongs to the publication, waits to be seen off, or was
\* let go.
EveryTaskAccounted ==
  \A r \in Relay : pc[r] # "done" => r \in active \cup Queued \cup detached

\* Whoever was let go still runs, and may unregister the name of its target.
DetachedSpoils == \A r \in detached : pc[r] # "done" /\ NameFed(r) \in spoiled

\* So may a direct test.
TestSpoils == \A t \in Target : test[t] = "running" => NameOf[t] \in spoiled

\* From its first look at the flag to its end a supervisor has a bitrate registered
\* in its name: its own or one of another that has begun and not ended.
Registered ==
  \A r \in Relay :
    (Begun(r) /\ NameFed(r) \notin spoiled) =>
      \E s \in Relay : metrics[NameFed(r)] = s /\ Begun(s) /\ NameFed(s) = NameFed(r)

\* After a late start only the cancelled flag is left to look at: the supervisor
\* does not come back to the slot, and it ends before its task is used again.
NoWayBack ==
  \A r \in Relay :
    \/ lateStarts[r] = 0
    \/ lateStarts[r] = 1 /\ cancel[r] /\ pc[r] \notin {"done", "spawned", "slot"}

IInv ==
  /\ TypeOK /\ EveryTaskAccounted /\ OneSupervisorPerTarget
  /\ DetachedSpoils /\ TestSpoils /\ Registered /\ NoWayBack

----------------------------------------------------------------------------
(* Slots *)

RelayUse  == Cardinality({r \in Relay : pc[r] \in RelayHolds})
TestUse   == Cardinality({t \in Target : test[t] \in TestHolds})
BridgeUse == Cardinality({c \in Client : bridge[c] \in BridgeHolds})

LEMMA FreeSlotsAre ==
  /\ FreeSlots = Slots - RelayUse - TestUse - BridgeUse
  /\ FreeSlots' = Slots - RelayUse' - TestUse' - BridgeUse'
BY DEF FreeSlots, RelayUse, TestUse, BridgeUse

\* The members of a finite set with some property are so and so many.
LEMMA CountIsNat ==
  ASSUME NEW S, IsFiniteSet(S), NEW A \in SUBSET S
  PROVE  IsFiniteSet(A) /\ Cardinality(A) \in Nat
BY FS_Subset, FS_CardinalityType

LEMMA UseCounts ==
  /\ RelayUse \in Nat /\ TestUse \in Nat /\ BridgeUse \in Nat /\ Slots \in Nat
  /\ RelayUse' \in Nat /\ TestUse' \in Nat /\ BridgeUse' \in Nat
<1>1. RelayUse \in Nat /\ RelayUse' \in Nat
  <2>1. /\ {r \in Relay : pc[r] \in RelayHolds} \in SUBSET Relay
        /\ {r \in Relay : pc'[r] \in RelayHolds} \in SUBSET Relay
    OBVIOUS
  <2> QED
    BY <2>1, CountIsNat, RelayAssumption DEF RelayUse, RelayHolds
<1>2. TestUse \in Nat /\ TestUse' \in Nat
  <2>1. /\ {t \in Target : test[t] \in TestHolds} \in SUBSET Target
        /\ {t \in Target : test'[t] \in TestHolds} \in SUBSET Target
    OBVIOUS
  <2> QED
    BY <2>1, CountIsNat, OthersAssumption DEF TestUse, TestHolds
<1>3. BridgeUse \in Nat /\ BridgeUse' \in Nat
  <2>1. /\ {c \in Client : bridge[c] \in BridgeHolds} \in SUBSET Client
        /\ {c \in Client : bridge'[c] \in BridgeHolds} \in SUBSET Client
    OBVIOUS
  <2> QED
    BY <2>1, CountIsNat, OthersAssumption DEF BridgeUse, BridgeHolds
<1> QED
  BY <1>1, <1>2, <1>3, SlotsAssumption

\* A step that gives slots back, or takes one while some are free.
Takes(use, next) == next <= use \/ (FreeSlots > 0 /\ next <= use + 1)

\* It does not take the count of free slots below zero.
LEMMA SlotsLeft ==
  ASSUME FreeSlots \in Nat,
         \/ Takes(RelayUse, RelayUse') /\ TestUse' = TestUse /\ BridgeUse' = BridgeUse
         \/ Takes(TestUse, TestUse') /\ RelayUse' = RelayUse /\ BridgeUse' = BridgeUse
         \/ Takes(BridgeUse, BridgeUse') /\ RelayUse' = RelayUse /\ TestUse' = TestUse
  PROVE  FreeSlots' \in Nat
<1>1. \A n, f, a, b, c, x, y, z \in Int :
        (/\ f = n - a - b - c /\ f >= 0
         /\ \/ (x <= a \/ (f > 0 /\ x <= a + 1)) /\ y = b /\ z = c
            \/ (y <= b \/ (f > 0 /\ y <= b + 1)) /\ x = a /\ z = c
            \/ (z <= c \/ (f > 0 /\ z <= c + 1)) /\ x = a /\ y = b)
        => n - x - y - z \in Nat
  OBVIOUS
<1> DEFINE a == RelayUse   x == RelayUse'
           b == TestUse    y == TestUse'
           c == BridgeUse  z == BridgeUse'
<1>2. /\ a \in Int /\ b \in Int /\ c \in Int /\ Slots \in Int
      /\ x \in Int /\ y \in Int /\ z \in Int
  BY UseCounts
<1>3. FreeSlots = Slots - a - b - c /\ FreeSlots' = Slots - x - y - z
  BY FreeSlotsAre
<1>4. \/ (x <= a \/ (FreeSlots > 0 /\ x <= a + 1)) /\ y = b /\ z = c
      \/ (y <= b \/ (FreeSlots > 0 /\ y <= b + 1)) /\ x = a /\ z = c
      \/ (z <= c \/ (FreeSlots > 0 /\ z <= c + 1)) /\ x = a /\ y = b
  BY DEF Takes
<1> HIDE DEF a, b, c, x, y, z
<1>5. FreeSlots \in Int /\ FreeSlots >= 0
  OBVIOUS
<1>6. Slots - x - y - z \in Nat
  BY <1>1, <1>2, <1>3, <1>4, <1>5
<1> QED
  BY <1>3, <1>6

\* One task that moves on takes a slot, keeps it or gives it back.
LEMMA OneTaskMoves ==
  ASSUME NEW A, IsFiniteSet(A), NEW x, NEW B \in {A \ {x}, A \cup {x}}
  PROVE  /\ B \subseteq A => Cardinality(B) <= Cardinality(A)
         /\ Cardinality(B) <= Cardinality(A) + 1
<1>1. Cardinality(A) \in Nat
  BY FS_CardinalityType
<1>2. CASE B = A \ {x}
  <2>1. Cardinality(A \ {x}) = IF x \in A THEN Cardinality(A) - 1 ELSE Cardinality(A)
    BY FS_RemoveElement
  <2> QED
    BY <2>1, <1>1, <1>2
<1>3. CASE B = A \cup {x}
  <2>1. Cardinality(A \cup {x}) = IF x \in A THEN Cardinality(A) ELSE Cardinality(A) + 1
    BY FS_AddElement
  <2> QED
    BY <2>1, <1>1, <1>3
<1> QED
  BY <1>2, <1>3

----------------------------------------------------------------------------
(* What a step of a task may change *)

\* A supervisor never turns into a spawned one, touches no other supervisor's
\* place, and registers or unregisters its own target only.
TaskEffect(r) ==
  \E await \in Awaits \ {"spawned"} :
    /\ pc[r] # "done"
    /\ pc' = [pc EXCEPT ![r] = await]
    /\ await = "slot" => ~cancel[r]
    /\ \/ metrics' = metrics /\ pc[r] # "spawned"
       \/ metrics' = [metrics EXCEPT ![NameFed(r)] = r] /\ await # "done"
       \/ metrics' = [metrics EXCEPT ![NameFed(r)] = None] /\ await = "done"
    /\ \/ /\ await # "done" /\ UNCHANGED <<cancel, detached, spoiled>>
          /\ \/ lateStarts' = lateStarts
             \/ /\ pc[r] = "slot" /\ await = "running" /\ cancel[r]
                /\ lateStarts' = [lateStarts EXCEPT ![r] = @ + 1]
       \/ /\ await = "done" /\ cancel' = [cancel EXCEPT ![r] = FALSE]
          /\ detached' = detached \ {r}
          /\ spoiled' = IF SharesName(r) THEN spoiled \cup {NameFed(r)} ELSE spoiled
          /\ lateStarts' = [lateStarts EXCEPT ![r] = 0]
    /\ unseen' \in [Relay -> BOOLEAN] /\ closed' \in [Relay -> BOOLEAN]
    /\ FreeSlots' \in Nat
    /\ UNCHANGED <<target, active, pending, otherVars>>

LEMMA TaskStepEffect ==
  ASSUME TypeOK, NEW r \in Relay, TaskStep(r)
  PROVE  TaskEffect(r)
<1> USE DEF actorVars, historyVars, otherVars, testVars, srtVars
<1>t. /\ pc \in [Relay -> Awaits] /\ unseen \in [Relay -> BOOLEAN]
      /\ closed \in [Relay -> BOOLEAN] /\ cancel \in [Relay -> BOOLEAN]
      /\ lateStarts \in [Relay -> Nat] /\ FreeSlots \in Nat
  BY DEF TypeOK
<1>k. ASSUME NEW await \in Awaits, pc' = [pc EXCEPT ![r] = await], UNCHANGED <<test, bridge>>,
             await \notin RelayHolds \/ pc[r] \in RelayHolds \/ FreeSlots > 0
      PROVE  FreeSlots' \in Nat
  <2>1. /\ await \notin RelayHolds \/ pc[r] \in RelayHolds => RelayUse' <= RelayUse
        /\ RelayUse' <= RelayUse + 1
    <3> DEFINE A == {y \in Relay : pc[y] \in RelayHolds}
               B == {y \in Relay : pc'[y] \in RelayHolds}
    <3>1. IsFiniteSet(A)
      <4>1. A \in SUBSET Relay
        OBVIOUS
      <4> QED
        BY <4>1, CountIsNat, RelayAssumption
    <3>2. /\ B \in {A \ {r}, A \cup {r}}
          /\ await \notin RelayHolds \/ pc[r] \in RelayHolds => B \subseteq A
      <4>1. CASE await \in RelayHolds
        <5>1. B = A \cup {r}
          BY <4>1, <1>k, <1>t
        <5> QED
          BY <5>1, <4>1
      <4>2. CASE await \notin RelayHolds
        <5>1. B = A \ {r}
          BY <4>2, <1>k, <1>t
        <5> QED
          BY <5>1
      <4> QED
        BY <4>1, <4>2
    <3>3. RelayUse = Cardinality(A) /\ RelayUse' = Cardinality(B)
      BY DEF RelayUse, RelayHolds
    <3> HIDE DEF A, B
    <3>4. /\ B \subseteq A => Cardinality(B) <= Cardinality(A)
          /\ Cardinality(B) <= Cardinality(A) + 1
      BY <3>1, <3>2, OneTaskMoves
    <3> QED
      BY <3>2, <3>3, <3>4
  <2>2. TestUse' = TestUse /\ BridgeUse' = BridgeUse
    BY <1>k DEF TestUse, BridgeUse
  <2> QED
    BY <2>1, <2>2, <1>k, <1>t, SlotsLeft DEF Takes
\* The supervisor ends.
<1>e. ASSUME Stops(r), pc[r] # "done", UNCHANGED <<target, active, pending, otherVars>>
      PROVE  TaskEffect(r)
  <2>1. FreeSlots' \in Nat
    BY <1>e, <1>k DEF Awaits, Stops, RelayHolds
  <2>2. unseen' \in [Relay -> BOOLEAN] /\ closed' \in [Relay -> BOOLEAN]
    BY <1>e, <1>t DEF Stops
  <2> QED
    BY <2>1, <2>2, <1>e DEF TaskEffect, Stops, Awaits
<1>1. CASE Begin(r)
  <2>1. CASE cancel[r]
    BY <1>1, <2>1, <1>e DEF Begin, Cancelled
  <2>2. CASE ~cancel[r]
    <3>1. pc' = [pc EXCEPT ![r] = "slot"]
      BY <1>1, <2>2 DEF Begin, Cancelled
    <3>2. FreeSlots' \in Nat
      BY <3>1, <1>1, <1>k DEF Awaits, RelayHolds, Begin
    <3> QED
      BY <3>1, <3>2, <1>1, <1>t, <2>2 DEF TaskEffect, Begin, Cancelled, Awaits
  <2> QED
    BY <2>1, <2>2
<1>2. CASE Start(r)
  <2>1. FreeSlots' \in Nat
    BY <1>2, <1>k DEF Awaits, Start
  <2>2. CASE cancel[r]
    BY <2>1, <2>2, <1>2, <1>t DEF TaskEffect, Start, Awaits
  <2>3. CASE ~cancel[r]
    <3>1. lateStarts' = lateStarts
      BY <1>2, <2>3, <1>t DEF Start
    <3> QED
      BY <2>1, <3>1, <1>2, <1>t DEF TaskEffect, Start, Awaits
  <2> QED
    BY <2>2, <2>3
<1>3. CASE StartFails(r)
  <2>1. FreeSlots' \in Nat
    BY <1>3, <1>k DEF Awaits, StartFails, WaitForRetry
  <2> QED
    BY <2>1, <1>3, <1>t DEF TaskEffect, StartFails, WaitForRetry, Awaits
<1>4. CASE Exits(r)
  <2>1. FreeSlots' \in Nat
    BY <1>4, <1>k DEF Awaits, Exits, RelayHolds
  <2> QED
    BY <2>1, <1>4, <1>t DEF TaskEffect, Exits, Awaits
<1>5. CASE Drained(r)
  <2>1. FreeSlots' \in Nat
    BY <1>5, <1>k DEF Awaits, Drained, WaitForRetry, RelayHolds
  <2> QED
    BY <2>1, <1>5, <1>t DEF TaskEffect, Drained, WaitForRetry, Awaits
<1>6. CASE Kill(r)
  <2>1. FreeSlots' \in Nat
    BY <1>6, <1>k DEF Awaits, Kill, RelayHolds
  <2> QED
    BY <2>1, <1>6, <1>t DEF TaskEffect, Kill, Awaits
<1>7. CASE Reap(r)
  BY <1>7, <1>e DEF Reap
<1>8. CASE WakeUp(r)
  <2>1. CASE cancel[r]
    BY <2>1, <1>8, <1>e DEF WakeUp, Cancelled
  <2>2. CASE ~cancel[r]
    <3>1. FreeSlots' \in Nat
      BY <2>2, <1>8, <1>k DEF Awaits, WakeUp, RelayHolds, Cancelled
    <3> QED
      BY <3>1, <2>2, <1>8, <1>t DEF TaskEffect, WakeUp, Awaits, Cancelled
  <2> QED
    BY <2>1, <2>2
<1>9. CASE Interrupt(r)
  BY <1>9, <1>e DEF Interrupt
<1> QED
  BY <1>1, <1>2, <1>3, <1>4, <1>5, <1>6, <1>7, <1>8, <1>9 DEF TaskStep

\* A step of a task keeps the invariant.
LEMMA TaskKeeps ==
  ASSUME IInv, NEW r \in Relay, TaskEffect(r)
  PROVE  IInv'
<1>0. PICK await \in Awaits \ {"spawned"} :
    /\ pc[r] # "done"
    /\ pc' = [pc EXCEPT ![r] = await]
    /\ await = "slot" => ~cancel[r]
    /\ \/ metrics' = metrics /\ pc[r] # "spawned"
       \/ metrics' = [metrics EXCEPT ![NameFed(r)] = r] /\ await # "done"
       \/ metrics' = [metrics EXCEPT ![NameFed(r)] = None] /\ await = "done"
    /\ \/ /\ await # "done" /\ UNCHANGED <<cancel, detached, spoiled>>
          /\ \/ lateStarts' = lateStarts
             \/ /\ pc[r] = "slot" /\ await = "running" /\ cancel[r]
                /\ lateStarts' = [lateStarts EXCEPT ![r] = @ + 1]
       \/ /\ await = "done" /\ cancel' = [cancel EXCEPT ![r] = FALSE]
          /\ detached' = detached \ {r}
          /\ spoiled' = IF SharesName(r) THEN spoiled \cup {NameFed(r)} ELSE spoiled
          /\ lateStarts' = [lateStarts EXCEPT ![r] = 0]
    /\ unseen' \in [Relay -> BOOLEAN] /\ closed' \in [Relay -> BOOLEAN]
    /\ FreeSlots' \in Nat
    /\ UNCHANGED <<target, active, pending, otherVars>>
  BY DEF TaskEffect
<1>t. TypeOK
  BY DEF IInv
<1>1. TypeOK'
  <2>1. pc' \in [Relay -> Awaits]
    BY <1>0, <1>t DEF TypeOK
  <2>2. metrics' \in [Name -> Relay \cup {Test, None}]
    BY <1>0, <1>t DEF TypeOK
  <2>5. NameFed(r) \in Name /\ spoiled' \subseteq Name
    BY <1>0, <1>t, NameAssumption DEF TypeOK, NameFed
  <2>3. lateStarts' \in [Relay -> Nat]
    <3>1. lateStarts \in [Relay -> Nat]
      BY <1>t DEF TypeOK
    <3>2. \/ lateStarts' = lateStarts
          \/ lateStarts' = [lateStarts EXCEPT ![r] = @ + 1]
          \/ lateStarts' = [lateStarts EXCEPT ![r] = 0]
      BY <1>0
    <3> QED
      BY <3>1, <3>2
  <2>4. cancel' \in [Relay -> BOOLEAN] /\ detached' \subseteq Relay
    BY <1>0, <1>t DEF TypeOK
  <2> QED
    BY <2>1, <2>2, <2>3, <2>4, <2>5, <1>0, <1>t DEF TypeOK, otherVars, testVars, srtVars
<1>2. EveryTaskAccounted'
  BY <1>0, <1>t DEF IInv, EveryTaskAccounted, TypeOK, Queued
<1>3. OneSupervisorPerTarget'
  BY <1>0, <1>t DEF IInv, OneSupervisorPerTarget, TypeOK
<1>n. spoiled \subseteq spoiled' /\ \A s \in Relay : NameFed(s)' = NameFed(s)
  BY <1>0 DEF NameFed
<1>4. DetachedSpoils' /\ TestSpoils'
  <2>1. TestSpoils'
    BY <1>0, <1>n DEF IInv, TestSpoils, otherVars, testVars
  <2>2. ASSUME NEW s \in detached' PROVE pc'[s] # "done" /\ NameFed(s)' \in spoiled'
    <3>1. s \in Relay /\ pc[s] # "done" /\ NameFed(s) \in spoiled
      BY <1>0, <1>t DEF IInv, DetachedSpoils, TypeOK
    <3>2. pc'[s] # "done"
      BY <3>1, <1>0, <1>t DEF TypeOK
    <3> QED
      BY <3>1, <3>2, <1>n
  <2> QED
    BY <2>1, <2>2 DEF DetachedSpoils
<1>5. Registered'
  <2> SUFFICES ASSUME NEW s \in Relay, Begun(s)', NameFed(s) \notin spoiled'
               PROVE  \E q \in Relay : /\ metrics'[NameFed(s)] = q
                                       /\ Begun(q)' /\ NameFed(q) = NameFed(s)
    BY <1>n DEF Registered
  <2>m. /\ metrics \in [Name -> Relay \cup {Test, None}]
        /\ NameFed(s) \in Name /\ NameFed(r) \in Name
        /\ NameFed(s) \notin spoiled
    BY <1>t, <1>n, NameAssumption DEF TypeOK, NameFed
  <2>p. /\ pc'[r] = await /\ Begun(r)' = (await # "done")
        /\ \A q \in Relay \ {r} : Begun(q)' = Begun(q)
    BY <1>0, <1>t DEF TypeOK, Begun
  <2>1. CASE metrics' = metrics /\ pc[r] # "spawned" /\ await # "done"
    <3>1. Begun(r) /\ Begun(r)'
      BY <2>1, <2>p, <1>0 DEF Begun
    <3>2. \A q \in Relay : Begun(q)' = Begun(q)
      BY <3>1, <2>p
    <3> QED
      BY <3>2, <2>1, <2>m DEF IInv, Registered
  <2>2. CASE metrics' = [metrics EXCEPT ![NameFed(r)] = r] /\ await # "done"
    <3>1. CASE NameFed(s) = NameFed(r)
      BY <3>1, <2>2, <2>m, <2>p
    <3>2. CASE NameFed(s) # NameFed(r)
      <4>1. s # r /\ Begun(s) /\ metrics'[NameFed(s)] = metrics[NameFed(s)]
        BY <3>2, <2>2, <2>m, <2>p
      <4>2. PICK q \in Relay :
              metrics[NameFed(s)] = q /\ Begun(q) /\ NameFed(q) = NameFed(s)
        BY <4>1, <2>m DEF IInv, Registered
      <4>3. q # r
        BY <4>2, <3>2
      <4> QED
        BY <4>1, <4>2, <4>3, <2>p
    <3> QED
      BY <3>1, <3>2
  <2>3. CASE await = "done"
    <3>1. s # r /\ Begun(s)
      BY <2>3, <2>p
    <3>2. NameFed(s) # NameFed(r)
      BY <3>1, <2>3, <1>0 DEF SharesName
    <3>3. metrics'[NameFed(s)] = metrics[NameFed(s)]
      BY <3>2, <2>3, <2>m, <1>0
    <3>4. PICK q \in Relay :
            metrics[NameFed(s)] = q /\ Begun(q) /\ NameFed(q) = NameFed(s)
      BY <3>1, <2>m DEF IInv, Registered
    <3>5. q # r
      BY <3>2, <3>4
    <3> QED
      BY <3>3, <3>4, <3>5, <2>p
  <2> QED
    BY <2>1, <2>2, <2>3, <1>0
<1>6. NoWayBack'
  BY <1>0, <1>t DEF IInv, NoWayBack, TypeOK
<1> QED
  BY <1>1, <1>2, <1>3, <1>4, <1>5, <1>6 DEF IInv

----------------------------------------------------------------------------
(* Direct tests and SRT sessions *)

\* They leave the supervisors alone, but for the bitrates of spoiled names.
OtherEffect ==
  /\ UNCHANGED <<taskVars, actorVars, detached, lateStarts>>
  /\ spoiled \subseteq spoiled' /\ spoiled' \subseteq Name
  /\ metrics' \in [Name -> Relay \cup {Test, None}]
  /\ \A name \in Name \ spoiled' : metrics'[name] = metrics[name]
  /\ running' \in BOOLEAN /\ test' \in [Target -> TestAwaits]
  /\ requests' \in Seq(Client) /\ listener' \in Client \cup {None}
  /\ bridge' \in [Client -> BridgeAwaits]
  /\ FreeSlots' \in Nat
  /\ TestSpoils'

LEMMA TestStepEffect ==
  ASSUME TypeOK, TestSpoils, NEW t \in Target, TestStep(t)
  PROVE  OtherEffect
<1> USE DEF taskVars, actorVars, historyVars, srtVars
<1>t. /\ test \in [Target -> TestAwaits] /\ FreeSlots \in Nat /\ spoiled \subseteq Name
      /\ metrics \in [Name -> Relay \cup {Test, None}] /\ NameOf[t] \in Name
  BY NameAssumption DEF TypeOK
<1>k. ASSUME NEW await \in TestAwaits, test' = [test EXCEPT ![t] = await],
             UNCHANGED <<pc, bridge>>,
             await \notin TestHolds \/ test[t] \in TestHolds \/ FreeSlots > 0
      PROVE  FreeSlots' \in Nat /\ test' \in [Target -> TestAwaits]
  <2>1. /\ await \notin TestHolds \/ test[t] \in TestHolds => TestUse' <= TestUse
        /\ TestUse' <= TestUse + 1
    <3> DEFINE A == {y \in Target : test[y] \in TestHolds}
               B == {y \in Target : test'[y] \in TestHolds}
    <3>1. IsFiniteSet(A)
      <4>1. A \in SUBSET Target
        OBVIOUS
      <4> QED
        BY <4>1, CountIsNat, OthersAssumption
    <3>2. /\ B \in {A \ {t}, A \cup {t}}
          /\ await \notin TestHolds \/ test[t] \in TestHolds => B \subseteq A
      <4>1. CASE await \in TestHolds
        <5>1. B = A \cup {t}
          BY <4>1, <1>k, <1>t
        <5> QED
          BY <5>1, <4>1
      <4>2. CASE await \notin TestHolds
        <5>1. B = A \ {t}
          BY <4>2, <1>k, <1>t
        <5> QED
          BY <5>1
      <4> QED
        BY <4>1, <4>2
    <3>3. TestUse = Cardinality(A) /\ TestUse' = Cardinality(B)
      BY DEF TestUse, TestHolds
    <3> HIDE DEF A, B
    <3>4. /\ B \subseteq A => Cardinality(B) <= Cardinality(A)
          /\ Cardinality(B) <= Cardinality(A) + 1
      BY <3>1, <3>2, OneTaskMoves
    <3> QED
      BY <3>2, <3>3, <3>4
  <2>2. RelayUse' = RelayUse /\ BridgeUse' = BridgeUse
    BY <1>k DEF RelayUse, BridgeUse
  <2> QED
    BY <2>1, <2>2, <1>k, <1>t, SlotsLeft DEF Takes
<1>1. CASE TestStart(t)
  <2>1. FreeSlots' \in Nat /\ test' \in [Target -> TestAwaits]
    BY <1>1, <1>k DEF TestStart, TestMoves, TestAwaits
  <2>2. TestSpoils'
    BY <1>1, <1>t DEF TestStart, TestMoves, TestSpoils
  <2> QED
    BY <2>1, <2>2, <1>1, <1>t DEF OtherEffect, TestStart, TypeOK
<1>2. CASE TestStartFails(t)
  <2>1. FreeSlots' \in Nat /\ test' \in [Target -> TestAwaits]
    BY <1>2, <1>k DEF TestStartFails, TestMoves, TestAwaits
  <2>2. TestSpoils'
    BY <1>2, <1>t DEF TestStartFails, TestMoves, TestSpoils
  <2> QED
    BY <2>1, <2>2, <1>2, <1>t DEF OtherEffect, TestStartFails, TypeOK
<1>3. CASE TestExits(t)
  <2>1. FreeSlots' \in Nat /\ test' \in [Target -> TestAwaits]
    BY <1>3, <1>k DEF TestExits, TestMoves, TestAwaits, TestHolds
  <2>2. TestSpoils' /\ NameOf[t] \in spoiled
    BY <1>3, <1>t DEF TestExits, TestMoves, TestSpoils
  <2> QED
    BY <2>1, <2>2, <1>3, <1>t DEF OtherEffect, TestExits, TypeOK
<1>4. CASE TestDrained(t)
  <2>1. FreeSlots' \in Nat /\ test' \in [Target -> TestAwaits]
    BY <1>4, <1>k DEF TestDrained, TestMoves, TestAwaits, TestHolds
  <2>2. TestSpoils'
    BY <1>4, <1>t DEF TestDrained, TestMoves, TestSpoils
  <2> QED
    BY <2>1, <2>2, <1>4, <1>t DEF OtherEffect, TestDrained, TypeOK
<1> QED
  BY <1>1, <1>2, <1>3, <1>4 DEF TestStep

LEMMA StartTestEffect ==
  ASSUME TypeOK, TestSpoils, NEW enabled \in SUBSET Tested, StartTest(enabled)
  PROVE  OtherEffect
<1> USE DEF taskVars, actorVars, historyVars, srtVars
<1>1. test' \in [Target -> {"slot", "done"}]
  BY DEF StartTest
<1>2. TestUse' = 0
  <2>1. {t \in Target : test'[t] \in TestHolds} = {}
    BY <1>1 DEF TestHolds
  <2> QED
    BY <2>1, FS_EmptySet DEF TestUse, TestHolds
<1>3. RelayUse' = RelayUse /\ BridgeUse' = BridgeUse
  BY DEF RelayUse, BridgeUse, StartTest
<1>4. FreeSlots' \in Nat
  <2>1. TestUse' <= TestUse
    BY <1>2, UseCounts
  <2> QED
    BY <2>1, <1>3, SlotsLeft DEF TypeOK, Takes
<1>5. TestSpoils' /\ test' \in [Target -> TestAwaits]
  BY <1>1 DEF TestSpoils, TestAwaits
<1> QED
  BY <1>4, <1>5 DEF OtherEffect, StartTest, TypeOK

\* The flag, the queue of requests and the listener's client hold no slot.
LEMMA WaitingEffect ==
  ASSUME TypeOK, TestSpoils,
         TestEnds \/ (\E c \in Client : Connect(c)) \/ (\E ok \in BOOLEAN : TakeUp(ok))
  PROVE  OtherEffect
<1> USE DEF taskVars, actorVars, historyVars
<1>1. UNCHANGED <<pc, test, bridge, taskVars, metrics, actorVars, historyVars>>
  BY DEF TestEnds, Connect, TakeUp, testVars, srtVars
<1>2. FreeSlots' = FreeSlots
  BY <1>1 DEF FreeSlots
<1>3. TestSpoils'
  BY <1>1 DEF TestSpoils
<1>4. /\ running' \in BOOLEAN /\ requests' \in Seq(Client)
      /\ listener' \in Client \cup {None}
  <2>t. /\ running \in BOOLEAN /\ requests \in Seq(Client)
        /\ listener \in Client \cup {None}
    BY DEF TypeOK
  <2>1. CASE TestEnds
    BY <2>1, <2>t DEF TestEnds, srtVars
  <2>2. ASSUME NEW c \in Client, Connect(c)
        PROVE  running' \in BOOLEAN /\ requests' \in Seq(Client) /\ UNCHANGED listener
    BY <2>2, <2>t DEF Connect, testVars
  <2>3. ASSUME NEW ok \in BOOLEAN, TakeUp(ok)
        PROVE  /\ running' \in BOOLEAN /\ requests' \in Seq(Client)
               /\ listener' \in Client \cup {None}
    <3>1. Tail(requests) \in Seq(Client) /\ Head(requests) \in Client
      BY <2>3, <2>t DEF TakeUp
    <3> QED
      BY <3>1, <2>3, <2>t DEF TakeUp, testVars
  <2> QED
    BY <2>1, <2>2, <2>3, <2>t
<1> QED
  BY <1>1, <1>2, <1>3, <1>4 DEF OtherEffect, TypeOK

LEMMA BridgeStepEffect ==
  ASSUME TypeOK, TestSpoils,
         StartBridge \/ (\E c \in Client : CloseBridge(c) \/ EndSession(c))
  PROVE  OtherEffect
<1> USE DEF taskVars, actorVars, historyVars, testVars
<1>t. bridge \in [Client -> BridgeAwaits] /\ FreeSlots \in Nat
  BY DEF TypeOK
<1>1. PICK c \in Client, await \in BridgeAwaits :
        /\ bridge' = [bridge EXCEPT ![c] = await]
        /\ await \notin BridgeHolds \/ bridge[c] \in BridgeHolds \/ FreeSlots > 0
        /\ UNCHANGED <<taskVars, metrics, actorVars, testVars, requests, historyVars>>
        /\ listener' \in {listener, None}
  <2>1. CASE StartBridge
    <3>1. listener \in Client
      BY <2>1 DEF TypeOK, StartBridge
    <3> QED
      BY <2>1, <3>1 DEF StartBridge, BridgeMoves, BridgeAwaits
  <2>2. ASSUME NEW c \in Client, CloseBridge(c) \/ EndSession(c)
        PROVE  \E await \in BridgeAwaits :
                 /\ bridge' = [bridge EXCEPT ![c] = await]
                 /\ await \notin BridgeHolds \/ bridge[c] \in BridgeHolds
                 /\ UNCHANGED <<taskVars, metrics, actorVars, testVars, requests, historyVars>>
                 /\ listener' = listener
    BY <2>2 DEF CloseBridge, EndSession, BridgeMoves, BridgeAwaits, BridgeHolds
  <2> QED
    BY <2>1, <2>2
<1>2. /\ await \notin BridgeHolds \/ bridge[c] \in BridgeHolds => BridgeUse' <= BridgeUse
      /\ BridgeUse' <= BridgeUse + 1
  <2> DEFINE A == {y \in Client : bridge[y] \in BridgeHolds}
             B == {y \in Client : bridge'[y] \in BridgeHolds}
  <2>1. IsFiniteSet(A)
    <3>1. A \in SUBSET Client
      OBVIOUS
    <3> QED
      BY <3>1, CountIsNat, OthersAssumption
  <2>2. /\ B \in {A \ {c}, A \cup {c}}
        /\ await \notin BridgeHolds \/ bridge[c] \in BridgeHolds => B \subseteq A
    <3>1. CASE await \in BridgeHolds
      <4>1. B = A \cup {c}
        BY <3>1, <1>1, <1>t
      <4> QED
        BY <4>1, <3>1
    <3>2. CASE await \notin BridgeHolds
      <4>1. B = A \ {c}
        BY <3>2, <1>1, <1>t
      <4> QED
        BY <4>1
    <3> QED
      BY <3>1, <3>2
  <2>3. BridgeUse = Cardinality(A) /\ BridgeUse' = Cardinality(B)
    BY DEF BridgeUse, BridgeHolds
  <2> HIDE DEF A, B
  <2>4. /\ B \subseteq A => Cardinality(B) <= Cardinality(A)
        /\ Cardinality(B) <= Cardinality(A) + 1
    BY <2>1, <2>2, OneTaskMoves
  <2> QED
    BY <2>2, <2>3, <2>4
<1>3. RelayUse' = RelayUse /\ TestUse' = TestUse
  BY <1>1 DEF RelayUse, TestUse
<1>4. FreeSlots' \in Nat
  BY <1>1, <1>2, <1>3, <1>t, SlotsLeft DEF Takes
<1>5. bridge' \in [Client -> BridgeAwaits] /\ TestSpoils'
  BY <1>1, <1>t DEF TestSpoils
<1> QED
  BY <1>1, <1>4, <1>5 DEF OtherEffect, TypeOK

\* Their steps keep the invariant.
LEMMA OtherKeeps ==
  ASSUME IInv, OtherStep
  PROVE  IInv'
<1>t. TypeOK /\ TestSpoils
  BY DEF IInv
<1>1. OtherEffect
  <2>1. ASSUME NEW enabled \in SUBSET Tested, StartTest(enabled) PROVE OtherEffect
    BY <2>1, <1>t, StartTestEffect
  <2>2. ASSUME NEW t \in Target, TestStep(t) PROVE OtherEffect
    BY <2>2, <1>t, TestStepEffect
  <2>3. CASE TestEnds \/ (\E c \in Client : Connect(c)) \/ (\E ok \in BOOLEAN : TakeUp(ok))
    BY <2>3, <1>t, WaitingEffect
  <2>4. CASE StartBridge \/ (\E c \in Client : CloseBridge(c) \/ EndSession(c))
    BY <2>4, <1>t, BridgeStepEffect
  <2> QED
    BY <2>1, <2>2, <2>3, <2>4 DEF OtherStep, SessionStep, Listen
<1>2. UNCHANGED <<pc, target, cancel, unseen, closed, active, pending, detached, lateStarts>>
  BY <1>1 DEF OtherEffect, taskVars, actorVars
<1>3. TypeOK'
  BY <1>1, <1>2, <1>t DEF OtherEffect, TypeOK
<1>4. EveryTaskAccounted' /\ OneSupervisorPerTarget' /\ NoWayBack'
  BY <1>2 DEF IInv, EveryTaskAccounted, Queued, OneSupervisorPerTarget, NoWayBack
<1>5. DetachedSpoils' /\ TestSpoils'
  BY <1>1, <1>2 DEF IInv, DetachedSpoils, OtherEffect, NameFed
<1>6. Registered'
  <2>1. \A r \in Relay : /\ NameFed(r)' = NameFed(r) /\ NameFed(r) \in Name
                         /\ Begun(r)' = Begun(r)
    BY <1>2, <1>t, NameAssumption DEF TypeOK, NameFed, Begun
  <2>2. spoiled \subseteq spoiled' /\ \A name \in Name \ spoiled' : metrics'[name] = metrics[name]
    BY <1>1 DEF OtherEffect
  <2> QED
    BY <2>1, <2>2 DEF IInv, Registered
<1> QED
  BY <1>3, <1>4, <1>5, <1>6 DEF IInv

----------------------------------------------------------------------------
(* The stream actor *)

\* A publication brings tasks of its own, one for each target.
LEMMA PublishKeeps ==
  ASSUME IInv, NEW enabled \in SUBSET Target, Publish(enabled)
  PROVE  IInv'
<1> DEFINE task == CHOOSE f \in NewTasks(enabled) : TRUE
           spawned == {task[t] : t \in enabled}
           feeds(r) == CHOOSE t \in enabled : task[t] = r
<1>t. TypeOK
  BY DEF IInv
<1>1. /\ active = {} /\ pending = <<>> /\ NewTasks(enabled) # {}
      /\ active' = spawned
      /\ pc'     = [r \in Relay |-> IF r \in spawned THEN "spawned" ELSE pc[r]]
      /\ target' = [r \in Relay |-> IF r \in spawned THEN feeds(r) ELSE target[r]]
      /\ spoiled' = {name \in spoiled : StillShared(name)}
      /\ UNCHANGED <<cancel, unseen, closed, metrics, pending, detached, lateStarts, otherVars>>
  BY DEF Publish
<1>2. task \in NewTasks(enabled)
  BY <1>1
<1>3. \A r \in spawned : r \in Relay /\ pc[r] = "done"
  BY <1>2 DEF NewTasks
<1>4. \A r \in spawned : feeds(r) \in enabled /\ task[feeds(r)] = r
  OBVIOUS
<1> HIDE DEF task, feeds
<1>5. \A r \in Relay : pc[r] # "done" => r \in detached
  BY <1>1 DEF IInv, EveryTaskAccounted, Queued
<1>6. TypeOK'
  <2>1. pc' \in [Relay -> Awaits] /\ target' \in [Relay -> Target]
    BY <1>1, <1>4, <1>t DEF TypeOK, Awaits
  <2>2. FreeSlots' = FreeSlots
    <3>1. {r \in Relay : pc'[r] \in RelayHolds} = {r \in Relay : pc[r] \in RelayHolds}
      BY <1>1, <1>3 DEF RelayHolds
    <3> QED
      BY <3>1, <1>1 DEF FreeSlots, RelayHolds, otherVars, testVars, srtVars
  <2>3. active' \subseteq Relay
    BY <1>1, <1>3
  <2>4. UNCHANGED <<cancel, unseen, closed, metrics, pending, detached, lateStarts, running,
                    test, requests, listener, bridge>> /\ spoiled' \subseteq Name
    BY <1>1, <1>t DEF TypeOK, otherVars, testVars, srtVars
  <2> QED
    BY <2>1, <2>2, <2>3, <2>4, <1>t DEF TypeOK
<1>7. EveryTaskAccounted'
  BY <1>1, <1>5 DEF EveryTaskAccounted
<1>8. OneSupervisorPerTarget'
  BY <1>1, <1>4, <1>5 DEF OneSupervisorPerTarget
<1>9. \A r \in detached : r \notin spawned /\ r \in Relay /\ NameFed(r)' \in spoiled'
  <2> SUFFICES ASSUME NEW r \in detached
               PROVE  r \notin spawned /\ r \in Relay /\ NameFed(r)' \in spoiled'
    OBVIOUS
  <2>1. r \in Relay /\ pc[r] # "done" /\ NameFed(r) \in spoiled
    BY <1>t DEF IInv, DetachedSpoils, TypeOK
  <2>2. r \notin spawned
    BY <2>1, <1>3
  <2>3. NameFed(r)' = NameFed(r)
    BY <2>1, <2>2, <1>1 DEF NameFed
  <2>4. StillShared(NameFed(r))
    BY <2>1 DEF StillShared
  <2> QED
    BY <2>1, <2>2, <2>3, <2>4, <1>1
<1>10. DetachedSpoils' /\ TestSpoils'
  <2>1. DetachedSpoils'
    BY <1>1, <1>9 DEF IInv, DetachedSpoils
  <2>2. TestSpoils'
    BY <1>1 DEF IInv, TestSpoils, StillShared, otherVars, testVars
  <2> QED
    BY <2>1, <2>2
<1>11. Registered'
  <2> SUFFICES ASSUME NEW r \in Relay, Begun(r)' PROVE NameFed(r)' \in spoiled'
    BY DEF Registered
  <2>1. r \notin spawned /\ pc[r] # "done"
    BY <1>1 DEF Begun
  <2> QED
    BY <2>1, <1>5, <1>9
<1>12. NoWayBack'
  BY <1>1, <1>3 DEF IInv, NoWayBack
<1> QED
  BY <1>6, <1>7, <1>8, <1>10, <1>11, <1>12 DEF IInv

\* Cancelling a relay sets its flag and nothing else.
LEMMA SendCancelEffect ==
  ASSUME TypeOK, NEW r \in Relay, SendCancel(r)
  PROVE  /\ cancel' \in [Relay -> BOOLEAN] /\ unseen' \in [Relay -> BOOLEAN]
         /\ \A s \in Relay : cancel[s] /\ pc[s] # "done" => cancel'[s]
BY DEF TypeOK, SendCancel

\* When the publication ends its relays are queued, none of them is lost.
LEMMA StopPublishingKeeps ==
  ASSUME IInv, NEW order \in [1 .. Cardinality(active) -> active], StopPublishing(order)
  PROVE  IInv'
<1>t. TypeOK
  BY DEF IInv
<1>1. /\ active # {} /\ pending = <<>>
      /\ {order[i] : i \in DOMAIN order} = active
      /\ active' = {} /\ pending' = order /\ SendCancel(order[1])
      /\ UNCHANGED <<pc, target, closed, metrics, detached, spoiled, lateStarts,
                      running, test, requests, listener, bridge>>
  BY DEF StopPublishing, historyVars, otherVars, testVars, srtVars
<1>2. Cardinality(active) \in Nat
  <2>1. IsFiniteSet(active)
    BY <1>t, RelayAssumption, FS_Subset DEF TypeOK
  <2> QED
    BY <2>1, FS_CardinalityType
<1>3. order \in Seq(Relay)
  <2> DEFINE n == Cardinality(active)
  <2>1. n \in Nat /\ order \in [1 .. n -> Relay]
    BY <1>2, <1>t DEF TypeOK
  <2> HIDE DEF n
  <2> QED
    BY <2>1
<1>4. order[1] \in Relay
  <2>1. PICK i \in 1 .. Cardinality(active) : order[i] \in active
    BY <1>1
  <2>2. 1 \in 1 .. Cardinality(active)
    BY <2>1, <1>2
  <2> QED
    BY <2>2, <1>t DEF TypeOK
<1>5. /\ cancel' \in [Relay -> BOOLEAN] /\ unseen' \in [Relay -> BOOLEAN]
      /\ \A s \in Relay : cancel[s] /\ pc[s] # "done" => cancel'[s]
  BY <1>1, <1>4, <1>t, SendCancelEffect
<1>6. FreeSlots' = FreeSlots
  BY <1>1 DEF FreeSlots
<1>7. TypeOK'
  BY <1>1, <1>3, <1>5, <1>6, <1>t DEF TypeOK
<1>8. EveryTaskAccounted'
  BY <1>1 DEF IInv, EveryTaskAccounted, Queued
<1>9. OneSupervisorPerTarget' /\ DetachedSpoils' /\ TestSpoils' /\ Registered'
  BY <1>1 DEF IInv, OneSupervisorPerTarget, DetachedSpoils, TestSpoils, Registered, NameFed,
               Begun
<1>10. NoWayBack'
  BY <1>1, <1>5 DEF IInv, NoWayBack
<1> QED
  BY <1>7, <1>8, <1>9, <1>10 DEF IInv

\* Turning to the next relay: the one seen off has ended or is detached.
LEMMA NextRelayKeeps ==
  ASSUME IInv, Joined \/ JoinTimeout
  PROVE  IInv'
<1>t. TypeOK
  BY DEF IInv
<1>1. pending # <<>> /\ NextRelay
  BY DEF Joined, JoinTimeout
<1>2. /\ pending' = Tail(pending)
      /\ closed' = [closed EXCEPT ![Head(pending)] = pc[Head(pending)] # "done"]
      /\ IF Tail(pending) = <<>> THEN UNCHANGED <<cancel, unseen>>
                                 ELSE SendCancel(Head(Tail(pending)))
      /\ UNCHANGED <<pc, target, metrics, active, lateStarts, running, test, requests,
                      listener, bridge>>
  BY <1>1 DEF NextRelay, otherVars, testVars, srtVars
<1>3. /\ pending \in Seq(Relay) /\ Tail(pending) \in Seq(Relay) /\ Head(pending) \in Relay
      /\ Tail(pending) # <<>> => Head(Tail(pending)) \in Relay
  <2>1. pending \in Seq(Relay)
    BY <1>t DEF TypeOK
  <2>2. Tail(pending) \in Seq(Relay) /\ Head(pending) \in Relay
    BY <2>1, <1>1
  <2> QED
    BY <2>1, <2>2
<1>4. Queued \subseteq Queued' \cup {Head(pending)}
  <2> SUFFICES ASSUME NEW i \in DOMAIN pending, i # 1
               PROVE  pending[i] \in Queued'
    BY <1>3 DEF Queued
  <2>1. i \in 2 .. Len(pending) /\ Len(pending) \in Nat
    BY <1>3
  <2>2. i - 1 \in DOMAIN Tail(pending) /\ Tail(pending)[i - 1] = pending[i]
    BY <2>1, <1>1, <1>3
  <2> QED
    BY <2>2, <1>2 DEF Queued
<1>5. /\ cancel' \in [Relay -> BOOLEAN] /\ unseen' \in [Relay -> BOOLEAN]
      /\ \A s \in Relay : cancel[s] /\ pc[s] # "done" => cancel'[s]
  <2>1. CASE Tail(pending) = <<>>
    BY <2>1, <1>2, <1>t DEF TypeOK
  <2>2. CASE Tail(pending) # <<>>
    BY <2>2, <1>2, <1>3, <1>t, SendCancelEffect
  <2> QED
    BY <2>1, <2>2
<1>6. /\ pc[Head(pending)] = "done" \/ Head(pending) \in detached'
      /\ detached \subseteq detached' /\ detached' \subseteq Relay
      /\ spoiled \subseteq spoiled' /\ spoiled' \subseteq Name
      /\ \A r \in detached' : r \in detached \/ (pc[r] # "done" /\ NameFed(r) \in spoiled')
  BY <1>3, <1>t, NameAssumption DEF Joined, JoinTimeout, TypeOK, NameFed
<1>7. FreeSlots' = FreeSlots
  BY <1>2 DEF FreeSlots
<1>8. closed' \in [Relay -> BOOLEAN]
  BY <1>2, <1>t DEF TypeOK
<1>9. TypeOK'
  BY <1>2, <1>3, <1>5, <1>6, <1>7, <1>8, <1>t DEF TypeOK
<1>10. EveryTaskAccounted'
  BY <1>2, <1>4, <1>6 DEF IInv, EveryTaskAccounted
<1>11. OneSupervisorPerTarget' /\ Registered'
  BY <1>2, <1>6 DEF IInv, OneSupervisorPerTarget, Registered, NameFed, Begun
<1>12. DetachedSpoils' /\ TestSpoils'
  BY <1>2, <1>6 DEF IInv, DetachedSpoils, TestSpoils, NameFed
<1>13. NoWayBack'
  BY <1>2, <1>5 DEF IInv, NoWayBack
<1> QED
  BY <1>9, <1>10, <1>11, <1>12, <1>13 DEF IInv

----------------------------------------------------------------------------
(* The theorems *)

LEMMA InitEstablishes == Init => IInv
<1> SUFFICES ASSUME Init PROVE IInv
  OBVIOUS
<1>1. \A r \in Relay : pc[r] = "done" /\ lateStarts[r] = 0
  BY DEF Init
<1>2. FreeSlots \in Nat
  <2>1. /\ {r \in Relay : pc[r] \in RelayHolds} = {}
        /\ {t \in Target : test[t] \in TestHolds} = {}
        /\ {c \in Client : bridge[c] \in BridgeHolds} = {}
    BY DEF Init, RelayHolds, TestHolds, BridgeHolds
  <2>2. RelayUse = 0 /\ TestUse = 0 /\ BridgeUse = 0
    BY <2>1, FS_EmptySet DEF RelayUse, TestUse, BridgeUse
  <2> QED
    BY <2>1, <2>2, FreeSlotsAre, SlotsAssumption
<1>3. TypeOK
  <2>1. target \in [Relay -> Target]
    BY OthersAssumption DEF Init
  <2>2. /\ pc \in [Relay -> Awaits] /\ test \in [Target -> TestAwaits]
        /\ bridge \in [Client -> BridgeAwaits]
    BY DEF Init, Awaits, TestAwaits, BridgeAwaits
  <2>3. lateStarts \in [Relay -> Nat] /\ metrics \in [Name -> Relay \cup {Test, None}]
    BY DEF Init
  <2>4. requests \in Seq(Client) /\ pending \in Seq(Relay)
    BY DEF Init
  <2> QED
    BY <2>1, <2>2, <2>3, <2>4, <1>2 DEF Init, TypeOK
<1> QED
  BY <1>1, <1>3 DEF Init, IInv, EveryTaskAccounted, OneSupervisorPerTarget, DetachedSpoils,
                    TestSpoils, Registered, NoWayBack, Begun

LEMMA StutterKeeps == IInv /\ UNCHANGED vars => IInv'
<1> SUFFICES ASSUME IInv, UNCHANGED vars PROVE IInv'
  OBVIOUS
<1>1. UNCHANGED <<pc, target, cancel, unseen, closed, metrics, active, pending,
                  running, test, requests, listener, bridge, detached, spoiled, lateStarts>>
  BY DEF vars, taskVars, actorVars, otherVars, testVars, srtVars, historyVars
<1>2. FreeSlots' = FreeSlots
  BY <1>1 DEF FreeSlots
<1>3. TypeOK'
  BY <1>1, <1>2 DEF IInv, TypeOK
<1> QED
  BY <1>1, <1>3 DEF IInv, EveryTaskAccounted, Queued, OneSupervisorPerTarget, DetachedSpoils,
                    TestSpoils, Registered, NoWayBack, NameFed, Begun

\* The invariant holds in every behaviour of the supervisors and the actor.
THEOREM Inductive == Spec => []IInv
<1>1. IInv /\ [Next]_vars => IInv'
  <2> SUFFICES ASSUME IInv, [Next]_vars PROVE IInv'
    OBVIOUS
  <2>1. ASSUME NEW r \in Relay, TaskStep(r) PROVE IInv'
    <3>1. TaskEffect(r)
      BY <2>1, TaskStepEffect DEF IInv
    <3> QED
      BY <3>1, TaskKeeps
  <2>2. CASE OtherStep
    BY <2>2, OtherKeeps
  <2>3. CASE ActorStep
    <3>1. ASSUME NEW enabled \in SUBSET Target \ {{}}, Publish(enabled) PROVE IInv'
      BY <3>1, PublishKeeps
    <3>2. ASSUME NEW order \in [1 .. Cardinality(active) -> active], StopPublishing(order)
          PROVE  IInv'
      BY <3>2, StopPublishingKeeps
    <3>3. CASE Joined \/ JoinTimeout
      BY <3>3, NextRelayKeeps
    <3> QED
      BY <2>3, <3>1, <3>2, <3>3 DEF ActorStep
  <2>4. CASE UNCHANGED vars
    BY <2>4, StutterKeeps
  <2> QED
    BY <2>1, <2>2, <2>3, <2>4 DEF Next
<1> QED
  BY <1>1, InitEstablishes, PTL DEF Spec

\* The supervisors' state stays well typed, and no more FFmpeg processes run
\* than there are slots (FFMPEG_SLOTS), whoever competes for them.
THEOREM SupervisorsTypeCorrect == Spec => []TypeOK
<1>1. IInv => TypeOK
  BY DEF IInv
<1> QED
  BY <1>1, Inductive, PTL

\* After a stop nothing runs but what cancel_relays let go of, and one entry of the
\* target list is never fed twice without that (cancel_relays, handle_publish_staged).
THEOREM SupervisorsAlwaysAccounted == Spec => []SupervisorsAccounted
<1>1. IInv => SupervisorsAccounted
  BY DEF IInv, EveryTaskAccounted, Queued, SupervisorsAccounted, StopIsComplete,
         OneSupervisorPerTarget
<1> QED
  BY <1>1, Inductive, PTL

\* The dashboard has a bitrate in the name of every running relay, that of a relay
\* of this name, until a direct test, a supervisor let go or another relay of the
\* name unregisters it (register_target, unregister_target).
THEOREM RunningAlwaysRegistered == Spec => []RunningIsRegistered
<1>1. IInv => RunningIsRegistered
  BY DEF IInv, Registered, RunningIsRegistered, HasProcess, Begun
<1> QED
  BY <1>1, Inductive, PTL

\* A cancelled supervisor starts FFmpeg at most once more (supervise_relay).
THEOREM AtMostOneLateStart == Spec => []OneLateStart
<1>1. IInv => OneLateStart
  BY DEF IInv, NoWayBack, OneLateStart
<1> QED
  BY <1>1, Inductive, PTL
=============================================================================
