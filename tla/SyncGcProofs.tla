---------------------------- MODULE SyncGcProofs ----------------------------
(***************************************************************************)
(* Proofs about GcRules and SyncGc.  The safety of garbage collection      *)
(* rests on two hypotheses about the deployment, VisibleInTime and         *)
(* ClocksInRange; nothing else is assumed of clocks, delays and sessions.  *)
(***************************************************************************)
EXTENDS SyncGc, TLAPS

(* Lower and upper bounds survive a saturating difference. *)
LEMMA SatSubAbove ==
  ASSUME NEW a \in Int, NEW b \in Int, NEW r \in Nat, SatSub(a, b) > r
  PROVE  a - b > r
BY GcConstantsAssumption DEF SatSub

LEMMA SatSubReaches ==
  ASSUME NEW a \in Int, NEW b \in Int, NEW r \in Nat, r < MaxI64, a - b > r
  PROVE  SatSub(a, b) > r
BY GcConstantsAssumption DEF SatSub

(* Milliseconds that fit in an i64 are what they should be. *)
LEMMA MillisExact ==
  ASSUME NEW t \in Int, t * MillisPerSec \in Int64
  PROVE  Millis(t) = t * MillisPerSec
BY DEF Millis, Wrap

LEMMA ScaleCancels ==
  ASSUME NEW a \in Int, NEW b \in Int, NEW m \in Nat \ {0}, a * m > b * m
  PROVE  a > b
<1>1. a <= b => (b - a) * m >= 0
  <2> SUFFICES ASSUME a <= b PROVE (b - a) * m >= 0
    OBVIOUS
  <2> DEFINE k == b - a
  <2>1. k \in Nat
    OBVIOUS
  <2> HIDE DEF k
  <2>2. k * m >= 0
    BY <2>1
  <2> QED BY <2>2 DEF k
<1>2. (b - a) * m = b * m - a * m
  OBVIOUS
<1> QED BY <1>1, <1>2

LEMMA ScaleGrows ==
  ASSUME NEW a \in Nat, NEW m \in Nat \ {0}
  PROVE  a <= a * m
<1> DEFINE k == m - 1
<1>1. k \in Nat /\ m = k + 1
  OBVIOUS
<1> HIDE DEF k
<1>2. a * k >= 0 /\ a * k \in Int
  BY <1>1
<1>3. a * m = a * k + a
  BY <1>1
<1> QED BY <1>2, <1>3

LEMMA StaleFits == StaleAfter < MaxI64
<1>1. Retention <= Retention * MillisPerSec
  BY ScaleGrows, GcConstantsAssumption
<1> QED BY <1>1, GcConstantsAssumption, RetentionAssumption

(* A device that is not stale has been seen after the tombstone was         *)
(* written, if the tombstone is old enough to collect: the loop over the    *)
(* devices' acknowledgements in gc_eligible never refuses.                  *)
THEOREM AcknowledgementsNeverRefuse ==
  ASSUME NEW wl \in Int, NEW lastSeens \in SUBSET Int, NEW t \in Int,
         t * MillisPerSec \in Int64,
         \A seen \in lastSeens : seen * MillisPerSec \in Int64
  PROVE  GcEligible(wl, lastSeens, t) <=> OldEnough(wl, t)
<1> SUFFICES ASSUME OldEnough(wl, t), NEW seen \in lastSeens, ~DeviceIsStale(seen, t)
             PROVE  Acked(wl, seen)
  BY DEF GcEligible
<1>1. Retention \in Nat /\ StaleAfter \in Nat /\ MillisPerSec \in Nat \ {0}
      /\ Retention > StaleAfter /\ seen \in Int
  BY GcConstantsAssumption, RetentionAssumption
<1>2. Millis(t) = t * MillisPerSec /\ Millis(seen) = seen * MillisPerSec
  BY <1>1, MillisExact
<1>3. t * MillisPerSec - wl > Retention * MillisPerSec
  <2>1. Retention * MillisPerSec \in Nat /\ t * MillisPerSec \in Int
    BY <1>1
  <2> QED BY <2>1, <1>2, SatSubAbove DEF OldEnough
<1>4. t - seen <= StaleAfter
  BY <1>1, SatSubReaches, StaleFits DEF DeviceIsStale
<1>5. t - Retention <= seen
  BY <1>1, <1>4
<1>6. (t - Retention) * MillisPerSec <= seen * MillisPerSec
  BY <1>1, <1>5, ScaleCancels
<1>7. (t - Retention) * MillisPerSec = t * MillisPerSec - Retention * MillisPerSec
  BY <1>1
<1>8. t * MillisPerSec \in Int /\ Retention * MillisPerSec \in Int
      /\ seen * MillisPerSec \in Int
  BY <1>1
<1>9. seen * MillisPerSec >= wl
  BY <1>3, <1>6, <1>7, <1>8
<1> QED BY <1>2, <1>9 DEF Acked

----------------------------------------------------------------------------
Started(d) == session[d] # Idle

(* What the types leave open about sessions. *)
SessionsOK ==
  \A d \in Device : Started(d) =>
    /\ session[d].listing # "none"
    /\ session[d].start \in 0 .. MaxTime
    /\ session[d].start <= now /\ now <= session[d].start + SessionMax

LEMMA InitTypes == Init => TypeOK /\ SessionsOK
<1> SUFFICES ASSUME Init PROVE TypeOK /\ SessionsOK
  OBVIOUS
<1>1. lastSeen \in [Device -> Int] /\ \A d \in Device : lastSeen[d] <= Clock(d)
  BY SyncGcAssumption DEF Init, Seen, Clock
<1>2. session \in [Device -> [listing : {"none", "record", "tomb", "nothing"},
                              start : (0 .. MaxTime) \cup {Never}]]
  BY DEF Init, Idle
<1>3. holds \in [Device -> BOOLEAN]
  BY DEF Init
<1>4. SessionsOK
  BY DEF Init, SessionsOK, Started
<1>5. now \in 0 .. MaxTime /\ aborts \in 0 .. MaxAborts
  BY SyncGcAssumption DEF Init
<1>6. /\ folder \in {"record", "tomb", "nothing"} /\ deleter \in Device \cup {Never}
      /\ deletedAt \in (0 .. MaxTime) \cup {Never} /\ wall \in Int \cup {Never}
      /\ collectedAt \in (0 .. MaxTime) \cup {Never}
      /\ lost \in BOOLEAN /\ zombie \in BOOLEAN
  BY DEF Init
<1> QED BY <1>1, <1>2, <1>3, <1>4, <1>5, <1>6 DEF TypeOK

LEMMA ClockIsInt == ASSUME TypeOK, NEW d \in Device PROVE Clock(d) \in Int
BY SyncGcAssumption DEF TypeOK, Clock

LEMMA StepTypes == TypeOK /\ SessionsOK /\ [Next]_vars => TypeOK' /\ SessionsOK'
<1> SUFFICES ASSUME TypeOK, SessionsOK, [Next]_vars PROVE TypeOK' /\ SessionsOK'
  OBVIOUS
<1> USE SyncGcAssumption
<1>1. CASE UNCHANGED vars
  BY <1>1 DEF vars, TypeOK, SessionsOK, Started, Clock
<1>2. CASE Tick
  <2>1. now' = now + 1 /\ now' \in 0 .. MaxTime
    BY <1>2 DEF Tick, TypeOK
  <2>2. \A d \in Device : lastSeen[d] <= now' + Offset[d]
    BY <2>1 DEF TypeOK, Clock
  <2>3. SessionsOK'
    BY <1>2, <2>1 DEF Tick, TypeOK, SessionsOK, Started
  <2> QED BY <1>2, <2>1, <2>2, <2>3 DEF Tick, TypeOK, Clock
<1>3. CASE Lose
  BY <1>3 DEF Lose, TypeOK, SessionsOK, Started, Clock
<1>4. ASSUME NEW d \in Device, Delete(d) PROVE TypeOK' /\ SessionsOK'
  <2>1. Millis(Clock(d)) \in Int
    BY ClockIsInt, GcConstantsAssumption DEF Millis, Wrap, Int64
  <2>2. wall' \in Int
    BY <1>4, <2>1 DEF Delete
  <2> QED BY <1>4, <2>2 DEF Delete, TypeOK, SessionsOK, Started, Clock
<1>5. ASSUME NEW d \in Device, Begin(d) PROVE TypeOK' /\ SessionsOK'
  <2>1. PICK l \in {"record", "tomb", "nothing"} :
          session' = [session EXCEPT ![d] = [listing |-> l, start |-> now]]
    BY <1>5 DEF Begin, Listings, TypeOK
  <2>2. \A e \in Device : session'[e] = IF e = d THEN [listing |-> l, start |-> now]
                                        ELSE session[e]
    BY <2>1 DEF TypeOK
  <2>3. SessionsOK'
    BY <1>5, <2>2 DEF Begin, TypeOK, SessionsOK, Started
  <2> QED BY <1>5, <2>1, <2>3 DEF Begin, TypeOK, Clock
<1>6. ASSUME NEW d \in Device, Finish(d) PROVE TypeOK' /\ SessionsOK'
  <2>1. session' = [session EXCEPT ![d] = Idle] /\ UNCHANGED <<now, deleter, deletedAt, wall, lost, aborts>>
        /\ lastSeen' = [lastSeen EXCEPT ![d] = Clock(d)]
    BY <1>6 DEF Finish, Seen
  <2>2. \A e \in Device : session'[e] = IF e = d THEN Idle ELSE session[e]
    BY <2>1 DEF TypeOK
  <2>3. SessionsOK'
    BY <2>1, <2>2 DEF SessionsOK, Started
  <2>4. /\ folder' \in {"record", "tomb", "nothing"}
        /\ collectedAt' \in (0 .. MaxTime) \cup {Never}
        /\ zombie' \in BOOLEAN
    BY <1>6 DEF Finish, TypeOK
  <2>5. holds' \in [Device -> BOOLEAN]
    BY <1>6 DEF Finish, TypeOK
  <2>6. lastSeen' \in [Device -> Int] /\ \A e \in Device : lastSeen'[e] <= Clock(e)
    BY <2>1, ClockIsInt DEF TypeOK
  <2>7. session' \in [Device -> [listing : {"none", "record", "tomb", "nothing"},
                                 start : (0 .. MaxTime) \cup {Never}]]
    BY <2>1 DEF TypeOK, Idle
  <2> QED BY <2>1, <2>3, <2>4, <2>5, <2>6, <2>7 DEF TypeOK, Clock
<1>7. ASSUME NEW d \in Device, Abort(d) PROVE TypeOK' /\ SessionsOK'
  <2>1. session' = [session EXCEPT ![d] = Idle]
    BY <1>7 DEF Abort
  <2>2. \A e \in Device : session'[e] = IF e = d THEN Idle ELSE session[e]
    BY <2>1 DEF TypeOK
  <2>3. SessionsOK'
    BY <1>7, <2>2 DEF Abort, SessionsOK, Started
  <2> QED BY <1>7, <2>1, <2>3 DEF Abort, TypeOK, Idle, Clock
<1> QED BY <1>1, <1>2, <1>3, <1>4, <1>5, <1>6, <1>7 DEF Next

(* Every variable keeps its type and no device was seen in its own future.  *)
THEOREM GcTypes == Spec => []TypeOK
BY InitTypes, StepTypes, PTL DEF Spec

LEMMA Typed == Spec => [](TypeOK /\ SessionsOK)
BY InitTypes, StepTypes, PTL DEF Spec

----------------------------------------------------------------------------
(* Nobody holds a tombstone, and none was collected, before the deletion. *)
NothingDeletedYet ==
  deletedAt = Never =>
    /\ folder # "tomb" /\ collectedAt = Never /\ ~zombie
    /\ \A d \in Device : session[d].listing # "tomb"

(* A device that keeps up is not stale. *)
KeepersAreFresh == \A d \in KeepsUp : Clock(d) <= lastSeen[d] + StaleAfter

KeepInv == NothingDeletedYet /\ KeepersAreFresh /\ KeptUnlessDeleted

LEMMA StaleMeansLate ==
  ASSUME TypeOK, NEW d \in Device, DeviceIsStale(lastSeen[d], Clock(d))
  PROVE  Clock(d) - lastSeen[d] > StaleAfter
BY SatSubAbove, ClockIsInt, GcConstantsAssumption DEF DeviceIsStale, TypeOK

LEMMA LateMeansStale ==
  ASSUME TypeOK, NEW d \in Device, Clock(d) - lastSeen[d] > StaleAfter
  PROVE  DeviceIsStale(lastSeen[d], Clock(d))
BY SatSubReaches, StaleFits, ClockIsInt, GcConstantsAssumption DEF DeviceIsStale, TypeOK

LEMMA FinishFields ==
  ASSUME TypeOK, NEW d \in Device, Finish(d)
  PROVE  /\ \A e \in Device : session'[e] = IF e = d THEN Idle ELSE session[e]
         /\ \A e \in Device : lastSeen'[e] = IF e = d THEN Clock(d) ELSE lastSeen[e]
         /\ \A e \in Device : e # d => holds'[e] = holds[e]
         /\ holds'[d] = (/\ holds[d] /\ session[d].listing # "tomb"
                         /\ ~Rejoins(d, "DeleteLocally"))
         /\ UNCHANGED <<now, deleter, deletedAt, wall>>
BY DEF Finish, Seen, TypeOK

LEMMA StepKeep == TypeOK /\ SessionsOK /\ KeepInv /\ [Next]_vars => KeepInv'
<1> SUFFICES ASSUME TypeOK, SessionsOK, KeepInv, [Next]_vars PROVE KeepInv'
  OBVIOUS
<1> USE SyncGcAssumption DEF KeepInv
<1>1. CASE UNCHANGED vars
  BY <1>1 DEF vars, NothingDeletedYet, KeepersAreFresh, KeptUnlessDeleted, Clock
<1>2. CASE Tick
  <2>1. now' = now + 1 /\ UNCHANGED lastSeen
    BY <1>2 DEF Tick
  <2>2. \A d \in KeepsUp : Clock(d) < lastSeen[d] + StaleAfter /\ d \in Device
    BY <1>2 DEF Tick
  <2>3. \A d \in Device : now \in Int /\ Offset[d] \in Int /\ lastSeen[d] \in Int
    BY DEF TypeOK
  <2>4. StaleAfter \in Int
    BY GcConstantsAssumption
  <2>5. KeepersAreFresh'
    BY <2>1, <2>2, <2>3, <2>4 DEF KeepersAreFresh, Clock
  <2> QED BY <1>2, <2>5 DEF Tick, NothingDeletedYet, KeptUnlessDeleted
<1>3. CASE Lose
  BY <1>3 DEF Lose, NothingDeletedYet, KeepersAreFresh, KeptUnlessDeleted, Clock
<1>4. ASSUME NEW d \in Device, Delete(d) PROVE KeepInv'
  <2>1. deletedAt' # Never
    BY <1>4 DEF Delete, TypeOK
  <2> QED BY <1>4, <2>1
          DEF Delete, NothingDeletedYet, KeepersAreFresh, KeptUnlessDeleted, Clock
<1>5. ASSUME NEW d \in Device, Begin(d) PROVE KeepInv'
  <2>1. PICK l \in Listings(d) :
          session' = [session EXCEPT ![d] = [listing |-> l, start |-> now]]
    BY <1>5 DEF Begin
  <2>2. deletedAt = Never => l # "tomb"
    BY DEF Listings, NothingDeletedYet
  <2>3. \A e \in Device : session'[e] = IF e = d THEN [listing |-> l, start |-> now]
                                        ELSE session[e]
    BY <2>1 DEF TypeOK
  <2>4. NothingDeletedYet'
    BY <1>5, <2>2, <2>3 DEF Begin, NothingDeletedYet
  <2> QED BY <1>5, <2>4 DEF Begin, KeepersAreFresh, KeptUnlessDeleted, Clock
<1>6. ASSUME NEW d \in Device, Finish(d) PROVE KeepInv'
  <2>1. /\ \A e \in Device : session'[e] = IF e = d THEN Idle ELSE session[e]
        /\ \A e \in Device : lastSeen'[e] = IF e = d THEN Clock(d) ELSE lastSeen[e]
        /\ \A e \in Device : e # d => holds'[e] = holds[e]
        /\ holds'[d] = (/\ holds[d] /\ session[d].listing # "tomb"
                        /\ ~Rejoins(d, "DeleteLocally"))
        /\ UNCHANGED <<now, deleter, deletedAt, wall>>
    BY <1>6, FinishFields
  <2>2. KeepersAreFresh'
    BY <2>1, ClockIsInt, GcConstantsAssumption DEF KeepersAreFresh, Clock, TypeOK
  <2>3. NothingDeletedYet'
    <3> SUFFICES ASSUME deletedAt = Never
                 PROVE  /\ folder' # "tomb" /\ collectedAt' = Never /\ ~zombie'
                        /\ \A e \in Device : session'[e].listing # "tomb"
      BY <2>1 DEF NothingDeletedYet
    <3>1. ~Collects(d)
      BY DEF Collects, NothingDeletedYet
    <3>2. folder' # "tomb" /\ collectedAt' = Never /\ ~zombie'
      BY <1>6, <3>1 DEF Finish, NothingDeletedYet
    <3>3. \A e \in Device : session'[e].listing # "tomb"
      BY <2>1 DEF NothingDeletedYet, Idle
    <3> QED BY <3>2, <3>3
  <2>4. ASSUME deletedAt = Never, d \in KeepsUp PROVE holds'[d]
    <3>1. holds[d] /\ session[d].listing # "tomb"
      BY <2>4 DEF KeptUnlessDeleted, NothingDeletedYet
    <3>2. ~DeviceIsStale(lastSeen[d], Clock(d))
      BY <2>4, StaleMeansLate, ClockIsInt, GcConstantsAssumption DEF KeepersAreFresh, TypeOK
    <3>3. ~Rejoins(d, "DeleteLocally")
      BY <3>2 DEF Rejoins, RejoinAction
    <3> QED BY <2>1, <3>1, <3>3
  <2>5. KeptUnlessDeleted'
    BY <2>1, <2>4 DEF KeptUnlessDeleted
  <2> QED BY <2>2, <2>3, <2>5
<1>7. ASSUME NEW d \in Device, Abort(d) PROVE KeepInv'
  <2>1. \A e \in Device : session'[e] = IF e = d THEN Idle ELSE session[e]
    BY <1>7 DEF Abort, TypeOK
  <2>2. NothingDeletedYet'
    BY <1>7, <2>1 DEF Abort, NothingDeletedYet, Idle
  <2> QED BY <1>7, <2>2 DEF Abort, KeepersAreFresh, KeptUnlessDeleted, Clock
<1> QED BY <1>1, <1>2, <1>3, <1>4, <1>5, <1>6, <1>7 DEF Next

LEMMA InitKeep == Init => KeepInv
<1> SUFFICES ASSUME Init PROVE KeepInv
  OBVIOUS
<1>1. KeepersAreFresh
  BY SyncGcAssumption, GcConstantsAssumption DEF Init, KeepersAreFresh, Seen, Clock
<1>2. NothingDeletedYet /\ KeptUnlessDeleted
  BY SyncGcAssumption DEF Init, NothingDeletedYet, KeptUnlessDeleted, Idle
<1> QED BY <1>1, <1>2 DEF KeepInv

LEMMA Kept == Spec => []KeepInv
BY InitKeep, StepKeep, Typed, PTL DEF Spec

(* A device that keeps up never gives up a record that nobody deleted, even *)
(* when the provider loses its file.                                        *)
THEOREM KeepersKeep == Spec => []KeptUnlessDeleted
BY Kept, PTL DEF KeepInv

----------------------------------------------------------------------------
(* The tombstone carries the deleter's clock and lies in the folder until   *)
(* it is collected.                                                         *)
Tombstone ==
  deletedAt # Never =>
    /\ deletedAt <= now /\ deleter \in Device
    /\ wall \in Int /\ wall >= (deletedAt + Offset[deleter]) * MillisPerSec
    /\ folder = (IF collectedAt = Never THEN "tomb" ELSE "nothing")

(* It is collected by a device on whose clock the retention period is over. *)
CollectedLate ==
  collectedAt # Never =>
    /\ deletedAt # Never /\ collectedAt <= now
    /\ \E e \in Device : collectedAt > deletedAt + Retention + Offset[deleter] - Offset[e]

(* A session that does not see the tombstone began before the folder had to *)
(* show it, or after it was collected.                                      *)
BlindSessions ==
  deletedAt # Never =>
    \A d \in Device : Started(d) /\ session[d].listing # "tomb" =>
      \/ session[d].start <= deletedAt + Delay
      \/ /\ collectedAt # Never /\ session[d].listing = "nothing"
         /\ session[d].start >= collectedAt

(* Who still holds the record has completed no later session. *)
HoldersNotSeen ==
  deletedAt # Never =>
    \A d \in Device : holds[d] =>
      lastSeen[d] <= deletedAt + Delay + SessionMax + Offset[d]

GcInv == Tombstone /\ CollectedLate /\ BlindSessions /\ HoldersNotSeen /\ ~zombie

LEMMA LeftBehind ==
  ASSUME VisibleInTime, TypeOK, CollectedLate, HoldersNotSeen, Tombstone
  PROVE  LeftBehindIsStale
<1> SUFFICES ASSUME collectedAt # Never, NEW d \in Device, holds[d]
             PROVE  DeviceIsStale(lastSeen[d], Clock(d))
  BY DEF LeftBehindIsStale
<1>1. deletedAt # Never /\ collectedAt <= now /\ deleter \in Device
  BY DEF CollectedLate, Tombstone
<1>2. PICK e \in Device : collectedAt > deletedAt + Retention + Offset[deleter] - Offset[e]
  BY DEF CollectedLate
<1>3. Delay + SessionMax + (Offset[e] - Offset[deleter]) <= Retention - StaleAfter
  BY <1>1 DEF VisibleInTime
<1>4. lastSeen[d] <= deletedAt + Delay + SessionMax + Offset[d]
  BY <1>1 DEF HoldersNotSeen
<1>5. /\ Offset[d] \in Int /\ Offset[e] \in Int /\ Offset[deleter] \in Int
      /\ collectedAt \in Int /\ deletedAt \in Int /\ now \in Int /\ lastSeen[d] \in Int
      /\ Delay \in Int /\ SessionMax \in Int /\ Retention \in Int /\ StaleAfter \in Int
  BY <1>1, SyncGcAssumption, GcConstantsAssumption DEF TypeOK
<1>6. Clock(d) = now + Offset[d]
  BY DEF Clock
<1>7. Clock(d) - lastSeen[d] > StaleAfter
  BY <1>1, <1>2, <1>3, <1>4, <1>5, <1>6
<1> QED BY <1>7, LateMeansStale

(* A tombstone is collected only after the retention period.                *)
LEMMA CollectsLate ==
  ASSUME ClocksInRange, TypeOK, Tombstone, deletedAt # Never, NEW d \in Device, Collects(d)
  PROVE  now > deletedAt + Retention + Offset[deleter] - Offset[d]
<1> DEFINE M == MillisPerSec
<1>1. OldEnough(wall, Clock(d))
  BY DEF Collects, GcEligible
<1>2. /\ Clock(d) \in Int /\ M \in Nat \ {0} /\ Retention \in Int /\ wall \in Int
      /\ deletedAt \in Int /\ Offset[deleter] \in Int /\ Offset[d] \in Int /\ now \in Int
      /\ Retention * M \in Nat
  BY ClockIsInt, SyncGcAssumption, GcConstantsAssumption DEF TypeOK, Tombstone
<1>3. Millis(Clock(d)) = Clock(d) * M
  BY <1>2, MillisExact DEF ClocksInRange, TypeOK, Clock
<1>4. Clock(d) * M \in Int /\ Clock(d) * M - wall > Retention * M
  BY <1>1, <1>2, <1>3, SatSubAbove DEF OldEnough
<1>5. wall >= (deletedAt + Offset[deleter]) * M
  BY DEF Tombstone
<1> DEFINE a == Clock(d) - Retention
           b == deletedAt + Offset[deleter]
<1>6. a * M = Clock(d) * M - Retention * M
  BY <1>2
<1>7. b * M \in Int
  BY <1>2
<1>8. a * M > b * M
  BY <1>2, <1>4, <1>5, <1>6, <1>7
<1>9. a \in Int /\ b \in Int
  BY <1>2
<1> HIDE DEF M
<1>10. a > b
  <2> HIDE DEF a, b
  <2> QED BY <1>2, <1>8, <1>9, ScaleCancels
<1> QED BY <1>2, <1>10 DEF Clock

LEMMA FinishKeeps ==
  ASSUME VisibleInTime, ClocksInRange, TypeOK, SessionsOK, KeepInv, GcInv,
         NEW d \in Device, Finish(d)
  PROVE  GcInv'
<1> USE SyncGcAssumption DEF GcInv
<1>1. /\ \A e \in Device : session'[e] = IF e = d THEN Idle ELSE session[e]
      /\ \A e \in Device : lastSeen'[e] = IF e = d THEN Clock(d) ELSE lastSeen[e]
      /\ \A e \in Device : e # d => holds'[e] = holds[e]
      /\ holds'[d] = (/\ holds[d] /\ session[d].listing # "tomb"
                      /\ ~Rejoins(d, "DeleteLocally"))
      /\ UNCHANGED <<now, deleter, deletedAt, wall>>
  BY FinishFields
<1>2. CASE deletedAt = Never
  <2>1. ~Collects(d) /\ collectedAt = Never
    BY <1>2 DEF KeepInv, NothingDeletedYet, Collects
  <2>2. collectedAt' = Never /\ ~zombie'
    BY <1>2, <2>1 DEF Finish
  <2> QED BY <1>1, <1>2, <2>2
          DEF Tombstone, CollectedLate, BlindSessions, HoldersNotSeen
<1>3. CASE deletedAt # Never
  <2>1. ASSUME collectedAt # Never, holds[d] PROVE RejoinAction(lastSeen[d], Clock(d)) = "DeleteLocally"
    <3>1. DeviceIsStale(lastSeen[d], Clock(d))
      BY <2>1, LeftBehind DEF LeftBehindIsStale
    <3> QED BY <3>1 DEF RejoinAction
  <2>2. ~(Rejoins(d, "Repush") /\ folder # "tomb")
    BY <1>3, <2>1 DEF Rejoins, Tombstone
  <2>3. \/ Collects(d) /\ folder = "tomb" /\ folder' = "nothing" /\ collectedAt' = now
        \/ UNCHANGED <<folder, collectedAt>>
    BY <2>2 DEF Finish
  <2>4. ~zombie'
    BY <2>2 DEF Finish
  <2>5. Tombstone' /\ CollectedLate'
    <3>1. CASE Collects(d) /\ folder = "tomb" /\ folder' = "nothing" /\ collectedAt' = now
      <4>1. now > deletedAt + Retention + Offset[deleter] - Offset[d]
        BY <1>3, <3>1, CollectsLate
      <4>2. now # Never /\ now \in Int
        BY DEF TypeOK
      <4> QED BY <1>1, <1>3, <3>1, <4>1, <4>2 DEF Tombstone, CollectedLate, TypeOK
    <3>2. CASE UNCHANGED <<folder, collectedAt>>
      BY <1>1, <3>2 DEF Tombstone, CollectedLate
    <3> QED BY <2>3, <3>1, <3>2
  <2>6. BlindSessions'
    <3> SUFFICES ASSUME NEW e \in Device, Started(e)', session'[e].listing # "tomb"
                 PROVE  \/ session'[e].start <= deletedAt + Delay
                        \/ /\ collectedAt' # Never /\ session'[e].listing = "nothing"
                           /\ session'[e].start >= collectedAt'
      BY <1>1 DEF BlindSessions
    <3>1. e # d /\ session'[e] = session[e] /\ Started(e)
      BY <1>1 DEF Started
    <3>2. collectedAt # Never => collectedAt' = collectedAt
      BY <2>3, <1>3 DEF Tombstone
    <3> QED BY <1>3, <3>1, <3>2 DEF BlindSessions
  <2>7. ASSUME holds'[d] PROVE Clock(d) <= deletedAt + Delay + SessionMax + Offset[d]
    <3>1. holds[d] /\ session[d].listing # "tomb" /\ ~Rejoins(d, "DeleteLocally")
      BY <2>7, <1>1
    <3>2. Started(d)
      BY DEF Finish, Started
    <3>3. ~(collectedAt # Never /\ session[d].listing = "nothing")
      BY <3>1, <2>1 DEF Rejoins
    <3>4. session[d].start <= deletedAt + Delay
      BY <1>3, <3>1, <3>2, <3>3 DEF BlindSessions
    <3>5. now <= session[d].start + SessionMax /\ session[d].start \in Int
      BY <3>2 DEF SessionsOK
    <3>6. now \in Int /\ deletedAt \in Int /\ Offset[d] \in Int
      BY <1>3 DEF TypeOK
    <3> QED BY <3>4, <3>5, <3>6 DEF Clock
  <2>8. HoldersNotSeen'
    BY <1>1, <1>3, <2>7 DEF HoldersNotSeen
  <2> QED BY <2>4, <2>5, <2>6, <2>8
<1> QED BY <1>2, <1>3

LEMMA StepGc ==
  ASSUME VisibleInTime, ClocksInRange, TypeOK, SessionsOK, KeepInv, GcInv, [Next]_vars
  PROVE  GcInv'
<1> USE SyncGcAssumption DEF GcInv
<1>1. CASE UNCHANGED vars
  BY <1>1 DEF vars, Tombstone, CollectedLate, BlindSessions, HoldersNotSeen, Started
<1>2. CASE Tick
  <2>1. now' = now + 1 /\ now \in Int
    BY <1>2 DEF Tick, TypeOK
  <2>2. (deletedAt # Never => deletedAt \in Int) /\ (collectedAt # Never => collectedAt \in Int)
    BY DEF TypeOK
  <2> QED BY <1>2, <2>1, <2>2
          DEF Tick, Tombstone, CollectedLate, BlindSessions, HoldersNotSeen, Started
<1>3. CASE Lose
  BY <1>3 DEF Lose, Tombstone, CollectedLate, BlindSessions, HoldersNotSeen
<1>4. ASSUME NEW d \in Device, Delete(d) PROVE GcInv'
  <2>1. /\ deletedAt = Never /\ deletedAt' = now /\ deleter' = d /\ folder' = "tomb"
        /\ UNCHANGED <<now, collectedAt, lastSeen, session, zombie>>
        /\ \A e \in Device : holds'[e] => holds[e]
    BY <1>4 DEF Delete, TypeOK
  <2>2. collectedAt = Never /\ now # Never /\ now \in Int
    BY <2>1 DEF KeepInv, NothingDeletedYet, TypeOK
  <2>3. PICK ahead \in 0 .. StampAhead : wall' = Millis(Clock(d)) + ahead
    BY <1>4 DEF Delete
  <2>4. Millis(Clock(d)) = (now + Offset[d]) * MillisPerSec
    BY ClockIsInt, MillisExact DEF ClocksInRange, TypeOK, Clock
  <2>5. (now + Offset[d]) * MillisPerSec \in Int
    BY <2>2, GcConstantsAssumption
  <2>6. wall' \in Int /\ wall' >= (now + Offset[d]) * MillisPerSec
    BY <2>3, <2>4, <2>5
  <2>7. Tombstone'
    BY <2>1, <2>2, <2>6 DEF Tombstone
  <2>8. \A e \in Device : Started(e) => session[e].start <= now + Delay
    BY <2>2 DEF SessionsOK
  <2>9. BlindSessions'
    BY <2>1, <2>8 DEF BlindSessions, Started
  <2>10. \A e \in Device : lastSeen[e] <= now + Delay + SessionMax + Offset[e]
    BY <2>2 DEF TypeOK, Clock
  <2>11. HoldersNotSeen'
    BY <2>1, <2>10 DEF HoldersNotSeen
  <2> QED BY <2>1, <2>2, <2>7, <2>9, <2>11 DEF CollectedLate
<1>5. ASSUME NEW d \in Device, Begin(d) PROVE GcInv'
  <2>1. PICK l \in Listings(d) :
          session' = [session EXCEPT ![d] = [listing |-> l, start |-> now]]
    BY <1>5 DEF Begin
  <2>2. \A e \in Device : session'[e] = IF e = d THEN [listing |-> l, start |-> now]
                                        ELSE session[e]
    BY <2>1 DEF TypeOK
  <2>3. deletedAt # Never /\ l # "tomb" =>
          \/ now <= deletedAt + Delay
          \/ collectedAt # Never /\ l = "nothing" /\ now >= collectedAt
    <3> SUFFICES ASSUME deletedAt # Never, l # "tomb"
                 PROVE  \/ now <= deletedAt + Delay
                        \/ collectedAt # Never /\ l = "nothing" /\ now >= collectedAt
      OBVIOUS
    <3>1. now \in Int /\ deletedAt \in Int /\ (collectedAt # Never => collectedAt \in Int)
      BY DEF TypeOK
    <3>2. CASE l = folder
      BY <3>1, <3>2 DEF Tombstone, CollectedLate
    <3>3. CASE l # folder
      BY <3>1, <3>3 DEF Listings
    <3> QED BY <3>2, <3>3
  <2>4. BlindSessions'
    BY <1>5, <2>2, <2>3 DEF Begin, BlindSessions, Started
  <2> QED BY <1>5, <2>4 DEF Begin, Tombstone, CollectedLate, HoldersNotSeen
<1>6. ASSUME NEW d \in Device, Finish(d) PROVE GcInv'
  BY <1>6, FinishKeeps
<1>7. ASSUME NEW d \in Device, Abort(d) PROVE GcInv'
  <2>1. \A e \in Device : session'[e] = IF e = d THEN Idle ELSE session[e]
    BY <1>7 DEF Abort, TypeOK
  <2>2. BlindSessions'
    BY <1>7, <2>1 DEF Abort, BlindSessions, Started
  <2> QED BY <1>7, <2>2 DEF Abort, Tombstone, CollectedLate, HoldersNotSeen
<1> QED BY <1>1, <1>2, <1>3, <1>4, <1>5, <1>6, <1>7 DEF Next

LEMMA Collecting == VisibleInTime /\ ClocksInRange => (Spec => []GcInv)
<1> SUFFICES ASSUME VisibleInTime, ClocksInRange PROVE Spec => []GcInv
  OBVIOUS
<1>1. Init => GcInv
  BY DEF Init, GcInv, Tombstone, CollectedLate, BlindSessions, HoldersNotSeen
<1>2. TypeOK /\ SessionsOK /\ KeepInv /\ GcInv /\ [Next]_vars => GcInv'
  BY StepGc
<1> QED BY <1>1, <1>2, Typed, Kept, PTL DEF Spec

(* Whoever still holds a record whose tombstone was collected is stale, if  *)
(* the retention period outlasts the stale window by the delays.            *)
THEOREM HoldersAreStale == VisibleInTime /\ ClocksInRange => (Spec => []LeftBehindIsStale)
<1> SUFFICES ASSUME VisibleInTime, ClocksInRange PROVE Spec => []LeftBehindIsStale
  OBVIOUS
<1>1. TypeOK /\ GcInv => LeftBehindIsStale
  BY LeftBehind DEF GcInv
<1> QED BY <1>1, Collecting, GcTypes, PTL

(* A deleted record is never published again, under the same hypothesis: a  *)
(* fresh device that finds neither file is right to take it for a loss.     *)
THEOREM CollectionIsSafe == VisibleInTime /\ ClocksInRange => (Spec => []NoZombie)
<1> SUFFICES ASSUME VisibleInTime, ClocksInRange PROVE Spec => []NoZombie
  OBVIOUS
<1>1. GcInv => NoZombie
  BY DEF GcInv, NoZombie
<1> QED BY <1>1, Collecting, PTL

----------------------------------------------------------------------------
(* The steps of RecordLife. *)
RowHolders == {d \in Device : holds[d]}

(* When a tombstone is taken away, no device that keeps up has the record:  *)
(* those that do are stale, and who keeps up is not.                        *)
KeepersLetGo == collectedAt # Never => \A d \in KeepsUp : ~holds[d]

LEMMA LettingGo == TypeOK /\ KeepersAreFresh /\ LeftBehindIsStale => KeepersLetGo
<1> SUFFICES ASSUME TypeOK, KeepersAreFresh, LeftBehindIsStale, collectedAt # Never,
                    NEW d \in KeepsUp, holds[d]
             PROVE  FALSE
  BY DEF KeepersLetGo
<1>1. d \in Device
  BY SyncGcAssumption
<1>2. Clock(d) - lastSeen[d] > StaleAfter
  BY <1>1, StaleMeansLate DEF LeftBehindIsStale
<1>3. Clock(d) <= lastSeen[d] + StaleAfter
  BY DEF KeepersAreFresh
<1>4. Clock(d) \in Int /\ lastSeen[d] \in Int /\ StaleAfter \in Int
  BY <1>1, ClockIsInt, GcConstantsAssumption DEF TypeOK
<1> QED BY <1>2, <1>3, <1>4

LEMMA FinishLives ==
  ASSUME TypeOK, KeepInv, GcInv, TypeOK', KeepInv', GcInv', KeepersLetGo',
         NEW d \in Device, Finish(d)
  PROVE  [Life!LifeNext]_(Life!lifeVars)
<1>1. /\ \A e \in Device : e # d => holds'[e] = holds[e]
      /\ holds'[d] = (/\ holds[d] /\ session[d].listing # "tomb"
                      /\ ~Rejoins(d, "DeleteLocally"))
      /\ deletedAt' = deletedAt
  BY FinishFields
<1>2. RowHolders' = RowHolders \/ (d \in RowHolders /\ RowHolders' = RowHolders \ {d})
  BY <1>1 DEF RowHolders
<1>3. CASE Collects(d) /\ folder = "tomb"
  <2>1. folder' = "nothing" /\ collectedAt' = now /\ session[d].listing = "tomb"
    BY <1>3 DEF Finish, Collects
  <2>2. collectedAt' # Never
    BY <2>1, SyncGcAssumption DEF TypeOK
  <2>3. ~holds'[d]
    BY <1>1, <2>1
  <2>4. RowHolders' = RowHolders \ {d}
    BY <1>1, <2>3 DEF RowHolders
  <2>5. \A e \in KeepsUp : ~holds'[e]
    BY <2>2 DEF KeepersLetGo
  <2>6. RowHolders' \cap KeepsUp = {}
    BY <2>5 DEF RowHolders
  <2>7. Life!Clear(d)
    BY <1>1, <1>3, <2>1, <2>4, <2>6 DEF Life!Clear, RowHolders
  <2> QED BY <2>7 DEF Life!LifeNext
<1>4. CASE ~(Collects(d) /\ folder = "tomb") /\ Rejoins(d, "Repush") /\ folder # "tomb"
  <2>1. folder' = "record" /\ zombie' = (zombie \/ deletedAt # Never)
    BY <1>4 DEF Finish
  <2>2. deletedAt = Never
    BY <2>1 DEF GcInv, NoZombie
  <2>3. RowHolders' = RowHolders
    BY <1>1, <1>4 DEF RowHolders, Rejoins
  <2>4. CASE folder = "record"
    BY <1>1, <2>1, <2>3, <2>4 DEF Life!lifeVars, RowHolders
  <2>5. CASE folder = "nothing"
    <3>1. Life!Restore
      BY <1>1, <2>1, <2>2, <2>3, <2>5 DEF Life!Restore, RowHolders
    <3> QED BY <3>1 DEF Life!LifeNext
  <2> QED BY <1>4, <2>4, <2>5 DEF TypeOK
<1>5. CASE ~(Collects(d) /\ folder = "tomb") /\ ~(Rejoins(d, "Repush") /\ folder # "tomb")
  <2>1. folder' = folder
    BY <1>5 DEF Finish
  <2>2. CASE RowHolders' = RowHolders
    BY <1>1, <2>1, <2>2 DEF Life!lifeVars, RowHolders
  <2>3. CASE d \in RowHolders /\ RowHolders' = RowHolders \ {d}
    <3>1. deletedAt # Never \/ d \notin KeepsUp
      BY <1>1, <2>3 DEF RowHolders, KeepInv, KeptUnlessDeleted
    <3>2. Life!GiveUp(d)
      BY <1>1, <2>1, <2>3, <3>1 DEF Life!GiveUp, RowHolders
    <3> QED BY <3>2 DEF Life!LifeNext
  <2> QED BY <1>2, <2>2, <2>3
<1> QED BY <1>3, <1>4, <1>5

LEMMA StepLives ==
  ASSUME TypeOK, KeepInv, GcInv, TypeOK', KeepInv', GcInv', KeepersLetGo',
         [Next]_vars
  PROVE  [Life!LifeNext]_(Life!lifeVars)
<1>1. CASE UNCHANGED vars
  BY <1>1 DEF vars, Life!lifeVars
<1>2. CASE Tick
  BY <1>2 DEF Tick, Life!lifeVars
<1>3. CASE Lose
  <2>1. Life!Misplace
    BY <1>3 DEF Lose, Life!Misplace
  <2> QED BY <2>1 DEF Life!LifeNext
<1>4. ASSUME NEW d \in Device, Delete(d) PROVE [Life!LifeNext]_(Life!lifeVars)
  <2>1. /\ holds[d] /\ deletedAt = Never /\ deletedAt' = now /\ folder' = "tomb"
        /\ holds' = [holds EXCEPT ![d] = FALSE]
    BY <1>4 DEF Delete
  <2>2. deletedAt' # Never
    BY <2>1, SyncGcAssumption DEF TypeOK
  <2>3. d \in RowHolders /\ RowHolders' = RowHolders \ {d}
    BY <2>1 DEF TypeOK, RowHolders
  <2>4. Life!Remove(d)
    BY <2>1, <2>2, <2>3 DEF Life!Remove, RowHolders
  <2> QED BY <2>4 DEF Life!LifeNext
<1>5. ASSUME NEW d \in Device, Begin(d) PROVE [Life!LifeNext]_(Life!lifeVars)
  BY <1>5 DEF Begin, Life!lifeVars
<1>6. ASSUME NEW d \in Device, Finish(d) PROVE [Life!LifeNext]_(Life!lifeVars)
  BY <1>6, FinishLives
<1>7. ASSUME NEW d \in Device, Abort(d) PROVE [Life!LifeNext]_(Life!lifeVars)
  BY <1>7 DEF Abort, Life!lifeVars
<1> QED BY <1>1, <1>2, <1>3, <1>4, <1>5, <1>6, <1>7 DEF Next

(* Tombstones, their collection and the stale rejoin implement RecordLife,  *)
(* under the hypotheses of CollectionIsSafe: a record is published until it *)
(* is deleted, and its tombstone goes when no device that keeps up has it.  *)
THEOREM GcImplementsRecordLife == VisibleInTime /\ ClocksInRange => (Spec => GcIsRecordLife)
<1> SUFFICES ASSUME VisibleInTime, ClocksInRange PROVE Spec => Life!LifeSpec
  BY DEF GcIsRecordLife
<1>1. Init => Life!LifeInit
  BY DEF Init, Life!LifeInit
<1>2. TypeOK /\ KeepInv /\ GcInv /\ TypeOK' /\ KeepInv' /\ GcInv' /\ KeepersLetGo'
        /\ [Next]_vars => [Life!LifeNext]_(Life!lifeVars)
  BY StepLives
<1>3. TypeOK /\ KeepInv /\ LeftBehindIsStale => KeepersLetGo
  BY LettingGo DEF KeepInv
<1> QED BY <1>1, <1>2, <1>3, HoldersAreStale, Collecting, Kept, GcTypes, PTL DEF Spec, Life!LifeSpec

============================================================================
