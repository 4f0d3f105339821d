-------------------------- MODULE SyncFolderProofs --------------------------
(***************************************************************************)
(* Proofs about SyncFolder, for any devices, record ids, contents, clocks  *)
(* and orders of delivery.                                                 *)
(***************************************************************************)
EXTENDS SyncFolder, WellFoundedInduction, TLAPS

LEMMA NextStamp ==
  ASSUME NEW c \in Clock, NEW t \in Wall, NEW d \in Node
  PROVE  HlcNext(c, t, d) \in Stamp
BY WidthAssumption, NoStampAssumption
   DEF HlcNext, SatAdd, Smaller, Stamp, Clock, Wall

LEMMA ReceiveStamp ==
  ASSUME NEW c \in Clock, NEW s \in Stamp, NEW t \in Wall, NEW d \in Node
  PROVE  HlcReceive(c, s, t, d) \in Stamp
BY WidthAssumption, NoStampAssumption
   DEF HlcReceive, MergedCounter, ClampedWall, SatAdd, Smaller, Larger, Stamp, Clock, Wall

LEMMA PhysInWall == ASSUME TypeOK, NEW d \in Node PROVE Phys(d) \in Wall
BY SkewAssumption DEF TypeOK, Phys

(* What merge_decide answers, by what the device holds about the record. *)
LEMMA Decision ==
  ASSUME NEW d \in Node, NEW f \in File
  PROVE  LET action == MergeDecide(LocalStateOf(d, f), f.deleted, f.hlc) IN
           /\ status[d][f.id] = "unknown" /\ f.deleted => action = "RecordTombstoneOnly"
           /\ status[d][f.id] = "unknown" /\ ~f.deleted =>
                \/ action = "SkipDuplicateContent"
                \/ /\ action = "ApplyRemote"
                   /\ \A i \in Twins(f.id) : status[d][i] # "live"
           /\ status[d][f.id] # "unknown" /\ f.deleted /\ status[d][f.id] # "deleted" =>
                action = "ApplyTombstone"
           /\ status[d][f.id] # "unknown" /\ (~f.deleted \/ status[d][f.id] = "deleted") =>
                action = "Skip"
<1> USE DEF File, LocalStateOf
<1>1. ASSUME status[d][f.id] = "unknown"
      PROVE  MergeDecide(LocalStateOf(d, f), f.deleted, f.hlc)
               = UnknownAction(LocalStateOf(d, f), f.deleted, f.hlc)
  BY <1>1 DEF MergeDecide
<1>2. ASSUME status[d][f.id] # "unknown"
      PROVE  MergeDecide(LocalStateOf(d, f), f.deleted, f.hlc)
               = KnownAction(LocalStateOf(d, f), f.deleted)
  BY <1>2 DEF MergeDecide
<1>3. LocalStateOf(d, f).liveDuplicate <=> \E i \in Twins(f.id) : status[d][i] = "live"
  OBVIOUS
<1>4. LocalStateOf(d, f).appliedDeleted <=> status[d][f.id] = "deleted"
  OBVIOUS
<1> QED BY <1>1, <1>2, <1>3, <1>4 DEF UnknownAction, KnownAction, Suppressed

(* What processing a file does to what a device holds about its record. *)
LEMMA ProcessEffect ==
  ASSUME TypeOK, NEW d \in Node, NEW f \in files, Process(d, f)
  PROVE  \E new \in Status, w \in Clock :
           /\ status' = [status EXCEPT ![d][f.id] = new]
           /\ wipe' = [wipe EXCEPT ![d][f.id] = w]
           /\ f.deleted => new = "deleted"
           /\ f.deleted /\ status[d][f.id] # "deleted" => w = f.hlc
           /\ ~f.deleted \/ status[d][f.id] = "deleted" => w = wipe[d][f.id]
           /\ ~f.deleted /\ status[d][f.id] = "unknown" =>
                \/ new = "suppressed"
                \/ new = "live" /\ \A i \in Twins(f.id) : status[d][i] # "live"
           /\ ~f.deleted /\ status[d][f.id] # "unknown" => new = status[d][f.id]
<1> DEFINE action == MergeDecide(LocalStateOf(d, f), f.deleted, f.hlc)
           new == Outcome(action, status[d][f.id])
           w == IF action \in {"ApplyTombstone", "RecordTombstoneOnly"}
                THEN f.hlc ELSE wipe[d][f.id]
<1>1. f \in File /\ f.id \in Id /\ f.hlc \in Stamp /\ f.deleted \in BOOLEAN
  BY DEF TypeOK, File
<1>2. status[d][f.id] \in Status /\ wipe[d][f.id] \in Clock
  BY <1>1 DEF TypeOK
<1>3. status' = [status EXCEPT ![d][f.id] = new] /\ wipe' = [wipe EXCEPT ![d][f.id] = w]
  BY DEF Process
<1>4. /\ status[d][f.id] = "unknown" /\ f.deleted => action = "RecordTombstoneOnly"
      /\ status[d][f.id] = "unknown" /\ ~f.deleted =>
           \/ action = "SkipDuplicateContent"
           \/ /\ action = "ApplyRemote"
              /\ \A i \in Twins(f.id) : status[d][i] # "live"
      /\ status[d][f.id] # "unknown" /\ f.deleted /\ status[d][f.id] # "deleted" =>
           action = "ApplyTombstone"
      /\ status[d][f.id] # "unknown" /\ (~f.deleted \/ status[d][f.id] = "deleted") =>
           action = "Skip"
  BY <1>1, Decision
<1> HIDE DEF action
<1>5. /\ action = "ApplyRemote" => new = "live"
      /\ action = "SkipDuplicateContent" => new = "suppressed"
      /\ action \in {"ApplyTombstone", "RecordTombstoneOnly"} => new = "deleted"
      /\ action = "Skip" => new = status[d][f.id]
  BY DEF Outcome
<1> HIDE DEF new
<1>6. new \in Status /\ w \in Clock
  BY <1>1, <1>2, <1>4, <1>5 DEF Status, Clock
<1>7. /\ f.deleted => new = "deleted"
      /\ f.deleted /\ status[d][f.id] # "deleted" => w = f.hlc
      /\ ~f.deleted \/ status[d][f.id] = "deleted" => w = wipe[d][f.id]
      /\ ~f.deleted /\ status[d][f.id] = "unknown" =>
           \/ new = "suppressed"
           \/ new = "live" /\ \A i \in Twins(f.id) : status[d][i] # "live"
      /\ ~f.deleted /\ status[d][f.id] # "unknown" => new = status[d][f.id]
  BY <1>1, <1>4, <1>5
<1> HIDE DEF w
<1> QED BY <1>3, <1>6, <1>7

----------------------------------------------------------------------------
LEMMA InitTypes == Init => TypeOK
BY SkewAssumption DEF Init, TypeOK, Clock, Status

LEMMA PublishTypes ==
  ASSUME TypeOK, NEW d \in Node, NEW i \in Id, NEW b \in BOOLEAN, Publish(d, i, b)
  PROVE  /\ clk' \in [Node -> Clock] /\ clk'[d] \in Stamp
         /\ files' \subseteq File /\ files \subseteq files'
         /\ arrived' \in [Node -> SUBSET files']
         /\ \A e \in Node : arrived[e] \subseteq arrived'[e]
         /\ files' = files \cup {[id |-> i, deleted |-> b, hlc |-> clk'[d]]}
<1> DEFINE s == HlcNext(clk[d], Phys(d), d)
<1>1. s \in Stamp
  BY PhysInWall, NextStamp DEF TypeOK
<1>2. clk' = [clk EXCEPT ![d] = s]
  BY DEF Publish
<1>3. files' = files \cup {[id |-> i, deleted |-> b, hlc |-> s]}
  BY DEF Publish
<1>4. arrived' = [arrived EXCEPT ![d] = @ \cup {[id |-> i, deleted |-> b, hlc |-> s]}]
  BY DEF Publish
<1> HIDE DEF s
<1>5. clk'[d] = s /\ clk' \in [Node -> Clock]
  BY <1>1, <1>2 DEF TypeOK, Clock
<1>6. files' \subseteq File
  BY <1>1, <1>3 DEF TypeOK, File
<1>7. arrived' \in [Node -> SUBSET files'] /\ \A e \in Node : arrived[e] \subseteq arrived'[e]
  BY <1>3, <1>4 DEF TypeOK
<1> QED BY <1>1, <1>3, <1>5, <1>6, <1>7

LEMMA CopyTypes ==
  ASSUME TypeOK, NEW d \in Node, NEW i \in Id, Copy(d, i) PROVE TypeOK'
<1>1. Publish(d, i, FALSE) /\ UNCHANGED <<now, todo, wipe, crashes>>
      /\ status' = [status EXCEPT ![d][i] = "live"]
  BY DEF Copy
<1>2. status' \in [Node -> [Id -> Status]]
  BY <1>1 DEF TypeOK, Status
<1> QED BY <1>1, <1>2, PublishTypes DEF TypeOK

LEMMA DeleteTypes ==
  ASSUME TypeOK, NEW d \in Node, NEW i \in Id, Delete(d, i) PROVE TypeOK'
<1>1. Publish(d, i, TRUE) /\ UNCHANGED <<now, todo, crashes>>
      /\ status' = [status EXCEPT ![d][i] = "deleted"]
      /\ wipe' = [wipe EXCEPT ![d][i] = clk'[d]]
  BY DEF Delete
<1>2. status' \in [Node -> [Id -> Status]]
  BY <1>1 DEF TypeOK, Status
<1>3. wipe' \in [Node -> [Id -> Clock]]
  BY <1>1, PublishTypes DEF TypeOK, Clock
<1> QED BY <1>1, <1>2, <1>3, PublishTypes DEF TypeOK

LEMMA ProcessTypes ==
  ASSUME TypeOK, NEW d \in Node, NEW f \in files, Process(d, f) PROVE TypeOK'
<1>1. PICK new \in Status, w \in Clock :
        /\ status' = [status EXCEPT ![d][f.id] = new]
        /\ wipe' = [wipe EXCEPT ![d][f.id] = w]
  BY ProcessEffect
<1>2. status' \in [Node -> [Id -> Status]] /\ wipe' \in [Node -> [Id -> Clock]]
  BY <1>1 DEF TypeOK
<1>3. f.hlc \in Stamp
  BY DEF TypeOK, File
<1>4. HlcReceive(clk[d], f.hlc, Phys(d), d) \in Clock
  BY <1>3, PhysInWall, ReceiveStamp DEF TypeOK, Clock
<1>5. clk' \in [Node -> Clock]
  BY <1>4 DEF Process, TypeOK
<1>6. /\ todo' \in [Node -> SUBSET files]
      /\ \A e \in Node : todo'[e] \subseteq arrived[e]
  BY DEF Process, TypeOK
<1> QED BY <1>2, <1>5, <1>6 DEF Process, TypeOK

LEMMA StepTypes == TypeOK /\ [Next]_vars => TypeOK'
<1> SUFFICES ASSUME TypeOK, [Next]_vars PROVE TypeOK'
  OBVIOUS
<1>1. CASE UNCHANGED vars
  BY <1>1 DEF vars, TypeOK
<1>2. CASE Tick
  BY <1>2, SkewAssumption DEF Tick, TypeOK
<1>3. ASSUME NEW d \in Node, NEW i \in Id, Copy(d, i) \/ Delete(d, i) PROVE TypeOK'
  BY <1>3, CopyTypes, DeleteTypes
<1>4. ASSUME NEW d \in Node, NEW f \in files, Arrive(d, f) PROVE TypeOK'
  BY <1>4 DEF Arrive, TypeOK
<1>5. ASSUME NEW d \in Node, NEW f \in files, Process(d, f) PROVE TypeOK'
  BY <1>5, ProcessTypes
<1>6. ASSUME NEW d \in Node, Pull(d) PROVE TypeOK'
  BY <1>6 DEF Pull, Unapplied, TypeOK
<1>7. ASSUME NEW d \in Node, Crash(d) PROVE TypeOK'
  BY <1>7, SkewAssumption DEF Crash, TypeOK
<1> QED BY <1>1, <1>2, <1>3, <1>4, <1>5, <1>6, <1>7 DEF Next

(* Every variable keeps its type, and a listing holds delivered files only. *)
THEOREM FolderTypes == Spec => []TypeOK
BY InitTypes, StepTypes, PTL DEF Spec

----------------------------------------------------------------------------
LEMMA TwinsSymmetric ==
  ASSUME NEW i \in Id, NEW j \in Twins(i)
  PROVE  j \in Id /\ j # i /\ i \in Twins(j)
BY DEF Twins

(* A device's rows change at one record at a time, and no row is added      *)
(* beside a live row of the same content.                                   *)
LEMMA NewRowIsAlone ==
  ASSUME TypeOK, OneLivePerContent, NEW d \in Node, NEW k \in Id, NEW new \in Status,
         status' = [status EXCEPT ![d][k] = new],
         new = "live" /\ status[d][k] # "live" => \A i \in Twins(k) : status[d][i] # "live"
  PROVE  OneLivePerContent'
<1> SUFFICES ASSUME NEW e \in Node, NEW i \in Id, status'[e][i] = "live",
                    NEW j \in Twins(i)
             PROVE  status'[e][j] # "live"
  BY DEF OneLivePerContent
<1>1. \A c \in Node : \A h \in Id :
        status'[c][h] = IF c = d /\ h = k THEN new ELSE status[c][h]
  BY DEF TypeOK
<1>2. j \in Id /\ j # i /\ i \in Twins(j)
  BY TwinsSymmetric
<1>3. CASE e # d \/ (i # k /\ j # k)
  BY <1>1, <1>2, <1>3 DEF OneLivePerContent
<1>4. CASE e = d /\ i = k
  BY <1>1, <1>2, <1>4 DEF OneLivePerContent
<1>5. CASE e = d /\ j = k
  <2>1. status[d][i] = "live"
    BY <1>1, <1>2, <1>5
  <2>2. status[d][k] # "live"
    BY <2>1, <1>5 DEF OneLivePerContent
  <2> QED BY <2>1, <2>2, <1>1, <1>2, <1>5
<1> QED BY <1>3, <1>4, <1>5

LEMMA StepOneLive == TypeOK /\ OneLivePerContent /\ [Next]_vars => OneLivePerContent'
<1> SUFFICES ASSUME TypeOK, OneLivePerContent, [Next]_vars PROVE OneLivePerContent'
  OBVIOUS
<1>1. CASE UNCHANGED status
  BY <1>1 DEF OneLivePerContent
<1>2. ASSUME NEW d \in Node, NEW i \in Id, Copy(d, i) PROVE OneLivePerContent'
  BY <1>2, NewRowIsAlone DEF Copy, Status
<1>3. ASSUME NEW d \in Node, NEW i \in Id, Delete(d, i) PROVE OneLivePerContent'
  BY <1>3, NewRowIsAlone DEF Delete, Status
<1>4. ASSUME NEW d \in Node, NEW f \in files, Process(d, f) PROVE OneLivePerContent'
  <2>1. f.id \in Id
    BY DEF TypeOK, File
  <2>2. PICK new \in Status :
          /\ status' = [status EXCEPT ![d][f.id] = new]
          /\ new = "live" /\ status[d][f.id] # "live" =>
               \A i \in Twins(f.id) : status[d][i] # "live"
    BY <1>4, ProcessEffect
  <2> QED BY <2>1, <2>2, NewRowIsAlone
<1> QED BY <1>1, <1>2, <1>3, <1>4 DEF Next, vars, Tick, Arrive, Pull, Crash

(* No device ever shows the same content twice.                             *)
THEOREM NoDuplicateContent == Spec => []OneLivePerContent
<1>1. Init => OneLivePerContent
  BY DEF Init, OneLivePerContent, Twins
<1> QED BY <1>1, StepOneLive, FolderTypes, PTL DEF Spec

----------------------------------------------------------------------------
(* What withholds a record withstands a step on another device, or one that *)
(* leaves the rows and the listing of the device alone.                     *)
LEMMA WithheldElsewhere ==
  ASSUME TypeOK, NEW d \in Node, NEW i \in Id, Withheld(d, i),
         status'[d][i] = status[d][i], todo'[d] = todo[d], arrived[d] \subseteq arrived'[d]
  PROVE  Withheld(d, i)'
BY DEF Withheld

(* Processing a file: tombstones come first, and a recorded tombstone is    *)
(* never forgotten.                                                         *)
LEMMA WithheldByProcess ==
  ASSUME TypeOK, NEW d \in Node, NEW i \in Id, Withheld(d, i),
         NEW f \in files, Process(d, f)
  PROVE  Withheld(d, i)'
<1>1. f.id \in Id /\ f.deleted \in BOOLEAN
  BY DEF TypeOK, File
<1>2. PICK new \in Status :
        /\ status' = [status EXCEPT ![d][f.id] = new]
        /\ f.deleted => new = "deleted"
        /\ ~f.deleted /\ status[d][f.id] # "unknown" => new = status[d][f.id]
  BY ProcessEffect
<1>3. status'[d][i] = IF f.id = i THEN new ELSE status[d][i]
  BY <1>1, <1>2 DEF TypeOK
<1>4. todo'[d] = todo[d] \ {f} /\ arrived' = arrived
  BY DEF Process, TypeOK
<1>5. CASE status[d][i] = "deleted"
  <2>1. status'[d][i] = "deleted"
    BY <1>1, <1>2, <1>3, <1>5
  <2> QED BY <2>1, <1>4 DEF Withheld
<1>6. CASE status[d][i] # "deleted" /\ f.id = i
  <2>1. f \in todo[d] /\ (f.deleted \/ \A g \in todo[d] : ~g.deleted)
    BY DEF Process, IsNext
  <2>2. f.deleted
    BY <2>1, <1>6 DEF Withheld
  <2>3. status'[d][i] = "deleted"
    BY <2>2, <1>2, <1>3, <1>6
  <2> QED BY <2>3, <1>4 DEF Withheld
<1>7. CASE status[d][i] # "deleted" /\ f.id # i
  <2>1. status'[d][i] = status[d][i]
    BY <1>3, <1>7
  <2>2. (\E h \in todo'[d] : h.id = i) => \E g \in todo'[d] : g.deleted /\ g.id = i
    BY <1>4, <1>7 DEF Withheld
  <2> QED BY <2>1, <2>2, <1>4 DEF Withheld
<1> QED BY <1>5, <1>6, <1>7

LEMMA StepWithheld ==
  ASSUME TypeOK, Next, NEW d \in Node, NEW i \in Id, Withheld(d, i)
  PROVE  Withheld(d, i)'
<1>1. CASE Tick
  BY <1>1, WithheldElsewhere DEF Tick
<1>2. ASSUME NEW e \in Node, NEW j \in Id, Copy(e, j) PROVE Withheld(d, i)'
  <2>1. PICK g \in arrived[d] : g.id = i
    BY DEF Withheld
  <2>2. j # i
    BY <2>1, <1>2 DEF Copy, TypeOK
  <2>3. status'[d][i] = status[d][i]
    BY <2>2, <1>2 DEF Copy, TypeOK
  <2>4. todo' = todo /\ arrived[d] \subseteq arrived'[d]
    BY <1>2 DEF Copy, Publish, TypeOK
  <2> QED BY <2>3, <2>4, WithheldElsewhere
<1>3. ASSUME NEW e \in Node, NEW j \in Id, Delete(e, j) PROVE Withheld(d, i)'
  <2>1. ~(e = d /\ j = i)
    BY <1>3 DEF Delete, Withheld
  <2>2. status'[d][i] = status[d][i]
    BY <2>1, <1>3 DEF Delete, TypeOK
  <2>3. todo' = todo /\ arrived[d] \subseteq arrived'[d]
    BY <1>3 DEF Delete, Publish, TypeOK
  <2> QED BY <2>2, <2>3, WithheldElsewhere
<1>4. ASSUME NEW e \in Node, NEW f \in files, Arrive(e, f) PROVE Withheld(d, i)'
  BY <1>4, WithheldElsewhere DEF Arrive, TypeOK
<1>5. ASSUME NEW e \in Node, NEW f \in files, Process(e, f) PROVE Withheld(d, i)'
  <2>1. CASE e = d
    BY <2>1, <1>5, WithheldByProcess
  <2>2. CASE e # d
    <3>1. f.id \in Id
      BY DEF TypeOK, File
    <3>2. PICK new \in Status : status' = [status EXCEPT ![e][f.id] = new]
      BY <1>5, ProcessEffect
    <3>3. status'[d][i] = status[d][i]
      BY <2>2, <3>1, <3>2 DEF TypeOK
    <3>4. todo'[d] = todo[d] /\ arrived' = arrived
      BY <2>2, <1>5 DEF Process, TypeOK
    <3> QED BY <3>3, <3>4, WithheldElsewhere
  <2> QED BY <2>1, <2>2
<1>6. ASSUME NEW e \in Node, Pull(e) PROVE Withheld(d, i)'
  <2>1. status' = status /\ arrived' = arrived
    BY <1>6 DEF Pull
  <2>2. CASE e # d
    <3>1. todo'[d] = todo[d]
      BY <2>2, <1>6 DEF Pull, TypeOK
    <3> QED BY <3>1, <2>1, WithheldElsewhere
  <2>3. CASE e = d
    <3>1. todo'[d] = Unapplied(d)
      BY <2>3, <1>6 DEF Pull, TypeOK
    <3>2. PICK g \in arrived[d] : g.deleted /\ g.id = i
      BY DEF Withheld
    <3>3. status[d][i] = "deleted" \/ g \in Unapplied(d)
      BY <3>2 DEF Unapplied
    <3> QED BY <3>1, <3>2, <3>3, <2>1 DEF Withheld
  <2> QED BY <2>2, <2>3
<1>7. ASSUME NEW e \in Node, Crash(e) PROVE Withheld(d, i)'
  <2>1. status' = status /\ arrived' = arrived
    BY <1>7 DEF Crash
  <2>2. todo'[d] = IF e = d THEN {} ELSE todo[d]
    BY <1>7 DEF Crash, TypeOK
  <2> QED BY <2>1, <2>2 DEF Withheld
<1> QED BY <1>1, <1>2, <1>3, <1>4, <1>5, <1>6, <1>7 DEF Next

(* No step of any device ends the withholding of a record: what a device    *)
(* has the tombstone of and does not show, it never shows.                  *)
THEOREM TombstonesFirst == Spec => NoFlicker
<1>1. ASSUME TypeOK, [Next]_vars
      PROVE  [\A d \in Node : \A i \in Id : Withheld(d, i) => Withheld(d, i)']_vars
  BY <1>1, StepWithheld
<1> QED BY <1>1, FolderTypes, PTL DEF Spec, NoFlicker

----------------------------------------------------------------------------
(* A device knows of no record that was not published: the link between     *)
(* what is held and what was published that the refinement rests on.        *)
Borne ==
  \A d \in Node : \A i \in Id :
    status[d][i] # "unknown" => \E f \in files : f.id = i

LEMMA StepBorne == TypeOK /\ Borne /\ [Next]_vars => Borne'
<1> SUFFICES ASSUME TypeOK, Borne, [Next]_vars, NEW d \in Node, NEW i \in Id,
                    status'[d][i] # "unknown"
             PROVE  \E f \in files' : f.id = i
  BY DEF Borne
<1>1. CASE UNCHANGED <<status, files>>
  BY <1>1 DEF Borne
<1>2. ASSUME NEW e \in Node, NEW j \in Id, NEW b \in BOOLEAN, NEW new \in Status,
             Publish(e, j, b), status' = [status EXCEPT ![e][j] = new]
      PROVE  \E f \in files' : f.id = i
  <2>1. files' = files \cup {[id |-> j, deleted |-> b, hlc |-> clk'[e]]}
    BY <1>2, PublishTypes
  <2>2. i # j => status'[d][i] = status[d][i]
    BY <1>2 DEF TypeOK
  <2>3. CASE i = j
    <3> DEFINE f == [id |-> j, deleted |-> b, hlc |-> clk'[e]]
    <3>1. f \in files' /\ f.id = j
      BY <2>1
    <3> QED BY <3>1, <2>3
  <2>4. CASE i # j
    <3>1. PICK f \in files : f.id = i
      BY <2>2, <2>4 DEF Borne
    <3> QED BY <3>1, <2>1
  <2> QED BY <2>3, <2>4
<1>3. ASSUME NEW e \in Node, NEW f \in files, Process(e, f)
      PROVE  \E g \in files' : g.id = i
  <2>1. files' = files /\ f.id \in Id
    BY <1>3 DEF Process, TypeOK, File
  <2>2. PICK new \in Status : status' = [status EXCEPT ![e][f.id] = new]
    BY <1>3, ProcessEffect
  <2>3. CASE d = e /\ i = f.id
    BY <2>1, <2>3
  <2>4. CASE ~(d = e /\ i = f.id)
    <3>1. status'[d][i] = status[d][i]
      BY <2>1, <2>2, <2>4 DEF TypeOK
    <3> QED BY <3>1, <2>1 DEF Borne
  <2> QED BY <2>3, <2>4
<1> QED BY <1>1, <1>2, <1>3
        DEF Next, vars, Tick, Arrive, Pull, Crash, Copy, Delete, Status

LEMMA StatusIsBorne == Spec => []Borne
<1>1. Init => Borne
  BY DEF Init, Borne
<1> QED BY <1>1, StepBorne, FolderTypes, PTL DEF Spec

(* The sets of ids the refinement maps a folder to.                         *)
AddedIds == {f.id : f \in {g \in files : ~g.deleted}}
RemovedIds == {f.id : f \in {g \in files : g.deleted}}
KnownIds == [d \in Node |-> {i \in Id : status[d][i] # "unknown"}]
GoneIds == [d \in Node |-> {i \in Id : status[d][i] = "deleted"}]

(* A change of one record on one device changes the sets that record only.  *)
LEMMA SetsAfter ==
  ASSUME TypeOK, NEW d \in Node, NEW i \in Id, NEW new \in Status,
         status' = [status EXCEPT ![d][i] = new]
  PROVE  /\ new # "unknown" => KnownIds' = [KnownIds EXCEPT ![d] = @ \cup {i}]
         /\ new = "deleted" => GoneIds' = [GoneIds EXCEPT ![d] = @ \cup {i}]
         /\ new # "unknown" /\ status[d][i] # "unknown" => KnownIds' = KnownIds
         /\ new # "deleted" /\ status[d][i] # "deleted" => GoneIds' = GoneIds
<1>1. \A e \in Node : \A j \in Id :
        status'[e][j] = IF e = d /\ j = i THEN new ELSE status[e][j]
  BY DEF TypeOK
<1>2. ASSUME new # "unknown" PROVE KnownIds' = [KnownIds EXCEPT ![d] = @ \cup {i}]
  <2>1. \A e \in Node : {j \in Id : status'[e][j] # "unknown"}
          = IF e = d THEN {j \in Id : status[e][j] # "unknown"} \cup {i}
            ELSE {j \in Id : status[e][j] # "unknown"}
    BY <1>1, <1>2
  <2> QED BY <2>1 DEF KnownIds
<1>3. ASSUME new = "deleted" PROVE GoneIds' = [GoneIds EXCEPT ![d] = @ \cup {i}]
  <2>1. \A e \in Node : {j \in Id : status'[e][j] = "deleted"}
          = IF e = d THEN {j \in Id : status[e][j] = "deleted"} \cup {i}
            ELSE {j \in Id : status[e][j] = "deleted"}
    BY <1>1, <1>3
  <2> QED BY <2>1 DEF GoneIds
<1>4. ASSUME new # "unknown", status[d][i] # "unknown" PROVE KnownIds' = KnownIds
  <2>1. \A e \in Node : {j \in Id : status'[e][j] # "unknown"}
          = {j \in Id : status[e][j] # "unknown"}
    BY <1>1, <1>4
  <2> QED BY <2>1 DEF KnownIds
<1>5. ASSUME new # "deleted", status[d][i] # "deleted" PROVE GoneIds' = GoneIds
  <2>1. \A e \in Node : {j \in Id : status'[e][j] = "deleted"}
          = {j \in Id : status[e][j] = "deleted"}
    BY <1>1, <1>5
  <2> QED BY <2>1 DEF GoneIds
<1> QED BY <1>2, <1>3, <1>4, <1>5

(* Publishing a file adds its id to the ids added or to the ids removed.    *)
LEMMA SetsPublished ==
  ASSUME TypeOK, NEW d \in Node, NEW i \in Id, NEW b \in BOOLEAN, Publish(d, i, b)
  PROVE  /\ b => AddedIds' = AddedIds /\ RemovedIds' = RemovedIds \cup {i}
         /\ ~b => AddedIds' = AddedIds \cup {i} /\ RemovedIds' = RemovedIds
<1> DEFINE f == [id |-> i, deleted |-> b, hlc |-> clk'[d]]
<1>1. files' = files \cup {f}
  BY PublishTypes
<1>2. f.id = i /\ f.deleted = b
  OBVIOUS
<1> HIDE DEF f
<1>3. \A x : x \in AddedIds' <=> x \in AddedIds \/ (~b /\ x = i)
  BY <1>1, <1>2 DEF AddedIds
<1>4. \A x : x \in RemovedIds' <=> x \in RemovedIds \/ (b /\ x = i)
  BY <1>1, <1>2 DEF RemovedIds
<1> QED BY <1>3, <1>4

LEMMA StepRefines == TypeOK /\ Borne /\ [Next]_vars => [Ids!TPSNext]_(Ids!tpsVars)
<1> SUFFICES ASSUME TypeOK, Borne, [Next]_vars PROVE [Ids!TPSNext]_(Ids!tpsVars)
  OBVIOUS
<1>1. CASE UNCHANGED <<status, files>>
  BY <1>1 DEF Ids!tpsVars
<1>2. ASSUME NEW d \in Node, NEW i \in Id, Copy(d, i) PROVE Ids!Add(d, i)
  <2>1. i \notin AddedIds
    BY <1>2 DEF Copy, AddedIds
  <2>2. AddedIds' = AddedIds \cup {i} /\ RemovedIds' = RemovedIds
    BY <1>2, SetsPublished DEF Copy
  <2>3. PICK new \in Status : /\ new # "unknown" /\ new # "deleted"
                              /\ status' = [status EXCEPT ![d][i] = new]
    BY <1>2 DEF Copy, Status
  <2>4. status[d][i] # "deleted"
    BY <1>2 DEF Copy, Borne
  <2>5. KnownIds' = [KnownIds EXCEPT ![d] = @ \cup {i}] /\ GoneIds' = GoneIds
    BY <2>3, <2>4, SetsAfter
  <2> QED BY <2>1, <2>2, <2>5 DEF Ids!Add, AddedIds, RemovedIds, KnownIds, GoneIds
<1>3. ASSUME NEW d \in Node, NEW i \in Id, Delete(d, i) PROVE Ids!Remove(d, i)
  <2>1. i \in KnownIds[d] \ GoneIds[d]
    BY <1>3 DEF Delete, KnownIds, GoneIds
  <2>2. AddedIds' = AddedIds /\ RemovedIds' = RemovedIds \cup {i}
    BY <1>3, SetsPublished DEF Delete
  <2>3. PICK new \in Status : /\ new = "deleted" /\ status[d][i] = "live"
                              /\ status' = [status EXCEPT ![d][i] = new]
    BY <1>3 DEF Delete, Status
  <2>4. KnownIds' = KnownIds /\ GoneIds' = [GoneIds EXCEPT ![d] = @ \cup {i}]
    BY <2>3, SetsAfter
  <2> QED BY <2>1, <2>2, <2>4 DEF Ids!Remove, AddedIds, RemovedIds, KnownIds, GoneIds
<1>4. ASSUME NEW d \in Node, NEW f \in files, Process(d, f)
      PROVE  \/ UNCHANGED Ids!tpsVars
             \/ Ids!Learn(d, f.id) \/ Ids!LearnRemoval(d, f.id)
  <2>1. f.id \in Id /\ f.deleted \in BOOLEAN
    BY DEF TypeOK, File
  <2>2. files' = files
    BY <1>4 DEF Process
  <2>3. AddedIds' = AddedIds /\ RemovedIds' = RemovedIds
    BY <2>2 DEF AddedIds, RemovedIds
  <2>4. PICK new \in Status :
          /\ status' = [status EXCEPT ![d][f.id] = new]
          /\ f.deleted => new = "deleted"
          /\ ~f.deleted /\ status[d][f.id] = "unknown" => new \in {"suppressed", "live"}
          /\ ~f.deleted /\ status[d][f.id] # "unknown" => new = status[d][f.id]
    BY <1>4, ProcessEffect
  <2>5. CASE ~f.deleted /\ status[d][f.id] = "unknown"
    <3>1. f.id \in AddedIds /\ f.id \notin KnownIds[d]
      BY <2>5, <2>1 DEF AddedIds, KnownIds
    <3>2. KnownIds' = [KnownIds EXCEPT ![d] = @ \cup {f.id}] /\ GoneIds' = GoneIds
      BY <2>1, <2>4, <2>5, SetsAfter
    <3> QED BY <2>3, <3>1, <3>2 DEF Ids!Learn, AddedIds, RemovedIds, KnownIds, GoneIds
  <2>6. CASE f.deleted /\ status[d][f.id] # "deleted"
    <3>1. f.id \in RemovedIds /\ f.id \notin GoneIds[d]
      BY <2>6, <2>1 DEF RemovedIds, GoneIds
    <3>2. /\ KnownIds' = [KnownIds EXCEPT ![d] = @ \cup {f.id}]
          /\ GoneIds' = [GoneIds EXCEPT ![d] = @ \cup {f.id}]
      BY <2>1, <2>4, <2>6, SetsAfter
    <3> QED BY <2>3, <3>1, <3>2
            DEF Ids!LearnRemoval, AddedIds, RemovedIds, KnownIds, GoneIds
  <2>7. CASE \/ ~f.deleted /\ status[d][f.id] # "unknown"
             \/ f.deleted /\ status[d][f.id] = "deleted"
    <3>1. new = status[d][f.id]
      BY <2>4, <2>7, <2>1
    <3>2. status' = status
      BY <3>1, <2>4, <2>1 DEF TypeOK
    <3> QED BY <3>2, <2>2 DEF Ids!tpsVars
  <2> QED BY <2>1, <2>5, <2>6, <2>7
<1>5. ASSUME NEW d \in Node, NEW f \in files, Process(d, f)
      PROVE  [Ids!TPSNext]_(Ids!tpsVars)
  <2>1. f.id \in Id
    BY DEF TypeOK, File
  <2> QED BY <1>4, <1>5, <2>1 DEF Ids!TPSNext
<1>6. ASSUME NEW d \in Node, NEW i \in Id, Copy(d, i) \/ Delete(d, i) PROVE Ids!TPSNext
  BY <1>2, <1>3, <1>6 DEF Ids!TPSNext
<1> QED BY <1>1, <1>5, <1>6 DEF Next, vars, Tick, Arrive, Pull, Crash

(* The devices implement a replicated set with removal for good: a deleted  *)
(* id never comes back, and no deletion is made up, on any device.          *)
THEOREM FolderIsTwoPhaseSet == Spec => IsTwoPhaseSet
<1>1. Init => Ids!TPSInit
  BY DEF Init, Ids!TPSInit
<1> QED BY <1>1, StepRefines, StatusIsBorne, FolderTypes, PTL
        DEF Spec, IsTwoPhaseSet, Ids!TPSSpec

----------------------------------------------------------------------------
(* Why a device holds what it holds: a live row or a suppressed entry was   *)
(* published as a copy, a deleted entry as a tombstone, and what stands in  *)
(* for a suppressed record is another record of its content.                *)
Justified ==
  /\ \A d \in Node : \A i \in Id :
       status[d][i] \in {"live", "suppressed"} => \E f \in files : ~f.deleted /\ f.id = i
  /\ \A d \in Node : \A i \in Id :
       status[d][i] = "deleted" => \E f \in files : f.deleted /\ f.id = i
  /\ \A d \in Node : \A i \in Id :
       status[d][i] = "suppressed" =>
         \E j \in Twins(i) : status[d][j] \in {"live", "deleted"}

(* merge_decide suppresses a record only beside another of its content.     *)
LEMMA SuppressedBeside ==
  ASSUME NEW d \in Node, NEW f \in File,
         Suppressed(LocalStateOf(d, f), f.hlc)
  PROVE  \E j \in Twins(f.id) : status[d][j] \in {"live", "deleted"}
<1> DEFINE stamps == {wipe[d][i] : i \in {j \in Twins(f.id) : status[d][j] = "deleted"}}
<1>1. LocalStateOf(d, f).tombstonedDuplicate = Newest(stamps)
  BY DEF LocalStateOf
<1>2. LocalStateOf(d, f).liveDuplicate <=> \E i \in Twins(f.id) : status[d][i] = "live"
  BY DEF LocalStateOf
<1>3. stamps = {} => Newest(stamps) = NoStamp
  BY DEF Newest
<1>4. CASE LocalStateOf(d, f).liveDuplicate
  BY <1>2, <1>4
<1>5. CASE stamps # {}
  BY <1>5
<1> QED BY <1>1, <1>3, <1>4, <1>5 DEF Suppressed, CoveredByWipe

(* A device's view changes at one record: a step that leaves a reason for   *)
(* the new entry keeps the reasons of all.                                  *)
LEMMA EntryKeepsReasons ==
  ASSUME TypeOK, Justified, NEW d \in Node, NEW k \in Id, NEW new \in Status,
         status' = [status EXCEPT ![d][k] = new], files \subseteq files',
         status[d][k] = "live" => new \in {"live", "deleted"},
         status[d][k] = "deleted" => new = "deleted",
         new \in {"live", "suppressed"} => \E f \in files' : ~f.deleted /\ f.id = k,
         new = "deleted" => \E f \in files' : f.deleted /\ f.id = k,
         new = "suppressed" =>
           \/ status[d][k] = "suppressed"
           \/ \E j \in Twins(k) : status[d][j] \in {"live", "deleted"}
  PROVE  Justified'
<1>1. \A e \in Node : \A i \in Id :
        status'[e][i] = IF e = d /\ i = k THEN new ELSE status[e][i]
  BY DEF TypeOK
<1>2. ASSUME NEW e \in Node, NEW i \in Id, status'[e][i] \in {"live", "suppressed"}
      PROVE  \E f \in files' : ~f.deleted /\ f.id = i
  BY <1>1, <1>2 DEF Justified
<1>3. ASSUME NEW e \in Node, NEW i \in Id, status'[e][i] = "deleted"
      PROVE  \E f \in files' : f.deleted /\ f.id = i
  BY <1>1, <1>3 DEF Justified
<1>4. ASSUME NEW e \in Node, NEW i \in Id, status'[e][i] = "suppressed"
      PROVE  \E j \in Twins(i) : status'[e][j] \in {"live", "deleted"}
  <2>1. \E j \in Twins(i) : status[e][j] \in {"live", "deleted"}
    BY <1>1, <1>4 DEF Justified
  <2>2. \A j \in Twins(i) : status[e][j] \in {"live", "deleted"} =>
          status'[e][j] \in {"live", "deleted"}
    <3>1. \A j \in Twins(i) : j \in Id
      BY DEF Twins
    <3> QED BY <3>1, <1>1
  <2> QED BY <2>1, <2>2
<1> QED BY <1>2, <1>3, <1>4 DEF Justified

LEMMA StepJustified == TypeOK /\ Justified /\ [Next]_vars => Justified'
<1> SUFFICES ASSUME TypeOK, Justified, [Next]_vars PROVE Justified'
  OBVIOUS
<1>1. CASE UNCHANGED <<status, files>>
  BY <1>1 DEF Justified
<1>2. ASSUME NEW d \in Node, NEW i \in Id, Copy(d, i) PROVE Justified'
  <2> DEFINE f == [id |-> i, deleted |-> FALSE, hlc |-> clk'[d]]
  <2>1. files' = files \cup {f}
    BY <1>2, PublishTypes DEF Copy
  <2>2. f \in files' /\ ~f.deleted /\ f.id = i /\ files \subseteq files'
    BY <2>1
  <2> HIDE DEF f
  <2>3. PICK new \in Status : new = "live" /\ status' = [status EXCEPT ![d][i] = new]
    BY <1>2 DEF Copy, Status
  <2>4. status[d][i] # "deleted"
    BY <1>2 DEF Copy, Justified
  <2>5. new # "deleted" /\ new # "suppressed" /\ new \in {"live", "deleted"}
    BY <2>3
  <2> QED BY <2>2, <2>3, <2>4, <2>5, EntryKeepsReasons
<1>3. ASSUME NEW d \in Node, NEW i \in Id, Delete(d, i) PROVE Justified'
  <2> DEFINE f == [id |-> i, deleted |-> TRUE, hlc |-> clk'[d]]
  <2>1. files' = files \cup {f}
    BY <1>3, PublishTypes DEF Delete
  <2>2. f \in files' /\ f.deleted /\ f.id = i /\ files \subseteq files'
    BY <2>1
  <2> HIDE DEF f
  <2>3. PICK new \in Status : new = "deleted" /\ status' = [status EXCEPT ![d][i] = new]
    BY <1>3 DEF Delete, Status
  <2>4. new # "live" /\ new # "suppressed" /\ new \in {"live", "deleted"}
    BY <2>3
  <2> QED BY <2>2, <2>3, <2>4, EntryKeepsReasons
<1>4. ASSUME NEW d \in Node, NEW f \in files, Process(d, f) PROVE Justified'
  <2>1. f \in File /\ f.id \in Id /\ f.deleted \in BOOLEAN /\ files' = files
    BY <1>4 DEF Process, TypeOK, File
  <2>2. PICK new \in Status :
          /\ status' = [status EXCEPT ![d][f.id] = new]
          /\ f.deleted => new = "deleted"
          /\ ~f.deleted /\ status[d][f.id] = "unknown" => new \in {"suppressed", "live"}
          /\ ~f.deleted /\ status[d][f.id] # "unknown" => new = status[d][f.id]
    BY <1>4, ProcessEffect
  <2>3. new = "suppressed" =>
          \/ status[d][f.id] = "suppressed"
          \/ \E j \in Twins(f.id) : status[d][j] \in {"live", "deleted"}
    <3> SUFFICES ASSUME new = "suppressed", status[d][f.id] # "suppressed"
                 PROVE  \E j \in Twins(f.id) : status[d][j] \in {"live", "deleted"}
      OBVIOUS
    <3>1. ~f.deleted /\ status[d][f.id] = "unknown"
      BY <2>1, <2>2
    <3>2. status'[d][f.id] = "suppressed"
      BY <2>1, <2>2 DEF TypeOK
    <3>3. status'[d][f.id]
            = Outcome(MergeDecide(LocalStateOf(d, f), f.deleted, f.hlc), status[d][f.id])
      BY <1>4, <2>1 DEF Process, TypeOK
    <3>4. ~LocalStateOf(d, f).applied
      BY <3>1 DEF LocalStateOf
    <3>5. Suppressed(LocalStateOf(d, f), f.hlc)
      BY <3>1, <3>2, <3>3, <3>4 DEF MergeDecide, UnknownAction, Outcome
    <3> QED BY <3>5, <2>1, SuppressedBeside
  <2>4. new \in {"live", "suppressed"} => \E g \in files' : ~g.deleted /\ g.id = f.id
    <3>1. CASE f.deleted
      BY <3>1, <2>2
    <3>2. CASE ~f.deleted
      BY <3>2, <2>1
    <3> QED BY <3>1, <3>2
  <2>5. new = "deleted" => \E g \in files' : g.deleted /\ g.id = f.id
    <3>1. CASE f.deleted
      BY <3>1, <2>1
    <3>2. CASE ~f.deleted
      BY <3>2, <2>1, <2>2 DEF Justified
    <3> QED BY <3>1, <3>2
  <2>6. /\ status[d][f.id] = "live" => new \in {"live", "deleted"}
        /\ status[d][f.id] = "deleted" => new = "deleted"
    BY <2>1, <2>2
  <2> QED BY <2>1, <2>2, <2>3, <2>4, <2>5, <2>6, EntryKeepsReasons
<1> QED BY <1>1, <1>2, <1>3, <1>4 DEF Next, vars, Tick, Arrive, Pull, Crash

(* Once every device has received and applied every file, the devices show  *)
(* the same contents, those with a tombstone aside, whatever came first     *)
(* where.                                                                   *)
THEOREM SettledAgreement == Spec => []SettledDevicesAgree
<1>1. Init => Justified
  BY DEF Init, Justified
<1>2. TypeOK /\ Justified => SettledDevicesAgree
  <2> SUFFICES ASSUME TypeOK, Justified, Settled, NEW h \in Hash, ~Tombstoned(h),
                      NEW d \in Node, NEW e \in Node, Shows(d, h)
               PROVE  Shows(e, h)
    BY DEF SettledDevicesAgree
  <2>1. PICK i \in Id : SyncHash[i] = h /\ status[d][i] = "live"
    BY DEF Shows
  <2>2. PICK f \in files : ~f.deleted /\ f.id = i
    BY <2>1 DEF Justified
  <2>3. status[e][i] # "unknown"
    <3>1. f \in arrived[e] /\ Unapplied(e) = {}
      BY DEF Settled
    <3> QED BY <3>1, <2>2 DEF Unapplied
  <2>4. \A j \in Id : SyncHash[j] = h => status[e][j] # "deleted"
    BY DEF Justified, Tombstoned
  <2>5. CASE status[e][i] = "live"
    BY <2>1, <2>5 DEF Shows
  <2>6. CASE status[e][i] = "suppressed"
    <3>1. PICK j \in Twins(i) : status[e][j] \in {"live", "deleted"}
      BY <2>6 DEF Justified
    <3>2. j \in Id /\ SyncHash[j] = h
      BY <2>1 DEF Twins
    <3> QED BY <3>1, <3>2, <2>4 DEF Shows
  <2> QED BY <2>1, <2>3, <2>4, <2>5, <2>6 DEF TypeOK, Status
<1> QED BY <1>1, <1>2, StepJustified, FolderTypes, PTL DEF Spec

----------------------------------------------------------------------------
(* A set of naturals has a least element, so a set of stamps, whose fields  *)
(* are bounded, has a latest one: the one the lookup of tombstones returns. *)
LEMMA LeastNat ==
  ASSUME NEW S \in SUBSET Nat, S # {}
  PROVE  \E m \in S : \A n \in S : m <= n
<1> DEFINE R == {ss \in Nat \X Nat : ss[1] < ss[2]}
<1>1. IsWellFoundedOn(R, Nat)
  BY NatLessThanWellFounded DEF OpToRel
<1>2. \A x \in Nat, y \in Nat : y < x => <<y, x>> \in R
  OBVIOUS
<1> HIDE DEF R
<1>3. PICK m \in S : \A n \in S : <<n, m>> \notin R
  BY <1>1, WFMin
<1>4. \A n \in S : ~(n < m)
  BY <1>2, <1>3
<1>5. \A n \in S : m <= n
  BY <1>4
<1> QED BY <1>5

LEMMA LeastAt ==
  ASSUME NEW S, S # {}, NEW g \in [S -> Nat]
  PROVE  \E s \in S : \A t \in S : g[s] <= g[t]
<1> DEFINE G == {g[t] : t \in S}
<1>1. /\ G \in SUBSET Nat /\ G # {}
      /\ \A t \in S : g[t] \in G
      /\ \A n \in G : \E t \in S : n = g[t]
  OBVIOUS
<1> HIDE DEF G
<1>2. PICK m \in G : \A n \in G : m <= n
  BY <1>1, LeastNat
<1> QED BY <1>1, <1>2

LEMMA LatestStamp ==
  ASSUME NEW S \in SUBSET Stamp, S # {}
  PROVE  \E s \in S : \A t \in S : HlcLeq(t, s)
<1>1. \A t \in S : /\ t.wall \in Int /\ MaxWall - t.wall \in Nat
                   /\ t.counter \in Int /\ MaxCounter - t.counter \in Nat
                   /\ t.node \in Int /\ MaxNode - t.node \in Nat
  <2> SUFFICES ASSUME NEW t \in Stamp
               PROVE  /\ t.wall \in Int /\ MaxWall - t.wall \in Nat
                      /\ t.counter \in Int /\ MaxCounter - t.counter \in Nat
                      /\ t.node \in Int /\ MaxNode - t.node \in Nat
    OBVIOUS
  <2>1. t.wall \in MinWall .. MaxWall /\ t.counter \in 0 .. MaxCounter /\ t.node \in Node
    BY DEF Stamp, Wall
  <2>2. t.node \in 0 .. MaxNode
    BY <2>1, NodeAssumption
  <2> QED BY <2>1, <2>2, WidthAssumption, NodeAssumption
<1>2. PICK s1 \in S : \A t \in S : t.wall <= s1.wall
  <2> DEFINE g == [t \in S |-> MaxWall - t.wall]
  <2>1. PICK s \in S : \A t \in S : g[s] <= g[t]
    BY <1>1, LeastAt
  <2> QED BY <1>1, <2>1, WidthAssumption
<1> DEFINE S1 == {t \in S : t.wall = s1.wall}
<1>3. S1 \in SUBSET S /\ s1 \in S1
  OBVIOUS
<1>4. \A t \in S : t \in S1 <=> t.wall = s1.wall
  OBVIOUS
<1> HIDE DEF S1
<1>5. PICK s2 \in S1 : \A t \in S1 : t.counter <= s2.counter
  <2> DEFINE g == [t \in S1 |-> MaxCounter - t.counter]
  <2>1. g \in [S1 -> Nat]
    BY <1>1, <1>3
  <2>2. PICK s \in S1 : \A t \in S1 : g[s] <= g[t]
    BY <1>3, <2>1, LeastAt
  <2> QED BY <1>1, <1>3, <2>2, WidthAssumption
<1> DEFINE S2 == {t \in S1 : t.counter = s2.counter}
<1>6. S2 \in SUBSET S1 /\ s2 \in S2
  OBVIOUS
<1>7. \A t \in S1 : t \in S2 <=> t.counter = s2.counter
  OBVIOUS
<1> HIDE DEF S2
<1>8. PICK s3 \in S2 : \A t \in S2 : t.node <= s3.node
  <2> DEFINE g == [t \in S2 |-> MaxNode - t.node]
  <2>1. g \in [S2 -> Nat]
    BY <1>1, <1>3, <1>6
  <2>2. PICK s \in S2 : \A t \in S2 : g[s] <= g[t]
    BY <1>6, <2>1, LeastAt
  <2> QED BY <1>1, <1>3, <1>6, <2>2, NodeAssumption
<1>9. ASSUME NEW t \in S PROVE HlcLeq(t, s3)
  <2>1. s3 \in S /\ s3.wall = s1.wall /\ s3.counter = s2.counter
    BY <1>3, <1>4, <1>6, <1>7
  <2>2. /\ t.wall <= s3.wall
        /\ t.wall = s3.wall => t.counter <= s3.counter
        /\ t.wall = s3.wall /\ t.counter = s3.counter => t.node <= s3.node
    BY <1>2, <1>4, <1>5, <1>7, <1>8, <2>1
  <2>3. t.wall = s3.wall /\ t.counter = s3.counter /\ t.node = s3.node => t = s3
    BY <2>1 DEF Stamp
  <2> QED BY <1>1, <2>1, <2>2, <2>3 DEF HlcLeq, HlcLt
<1> QED BY <1>3, <1>6, <1>9

LEMMA NewestIsLast ==
  ASSUME NEW S \in SUBSET Stamp, S # {}
  PROVE  Newest(S) \in S /\ \A t \in S : HlcLeq(t, Newest(S))
BY LatestStamp DEF Newest

(* A tombstone's stamp is kept for every record held as deleted.            *)
WipesStamped ==
  \A d \in Node : \A i \in Id : status[d][i] = "deleted" => wipe[d][i] \in Stamp

LEMMA StepWipesStamped == TypeOK /\ WipesStamped /\ [Next]_vars => WipesStamped'
<1> SUFFICES ASSUME TypeOK, WipesStamped, [Next]_vars,
                    NEW e \in Node, NEW k \in Id, status'[e][k] = "deleted"
             PROVE  wipe'[e][k] \in Stamp
  BY DEF WipesStamped
<1>1. CASE UNCHANGED <<status, wipe>>
  BY <1>1 DEF WipesStamped
<1>2. ASSUME NEW d \in Node, NEW i \in Id, Copy(d, i) PROVE wipe'[e][k] \in Stamp
  <2>1. status[e][k] = "deleted"
    BY <1>2 DEF Copy, TypeOK
  <2> QED BY <2>1, <1>2 DEF Copy, WipesStamped
<1>3. ASSUME NEW d \in Node, NEW i \in Id, Delete(d, i) PROVE wipe'[e][k] \in Stamp
  <2>1. clk'[d] \in Stamp
    BY <1>3, PublishTypes DEF Delete
  <2>2. CASE e = d /\ k = i
    BY <2>1, <2>2, <1>3 DEF Delete, TypeOK
  <2>3. CASE ~(e = d /\ k = i)
    <3>1. status[e][k] = "deleted" /\ wipe'[e][k] = wipe[e][k]
      BY <2>3, <1>3 DEF Delete, TypeOK
    <3> QED BY <3>1 DEF WipesStamped
  <2> QED BY <2>2, <2>3
<1>4. ASSUME NEW d \in Node, NEW f \in files, Process(d, f) PROVE wipe'[e][k] \in Stamp
  <2>1. f.id \in Id /\ f.hlc \in Stamp /\ f.deleted \in BOOLEAN
    BY DEF TypeOK, File
  <2>2. PICK new \in Status, w \in Clock :
           /\ status' = [status EXCEPT ![d][f.id] = new]
           /\ wipe' = [wipe EXCEPT ![d][f.id] = w]
           /\ f.deleted /\ status[d][f.id] # "deleted" => w = f.hlc
           /\ ~f.deleted \/ status[d][f.id] = "deleted" => w = wipe[d][f.id]
           /\ ~f.deleted /\ status[d][f.id] = "unknown" => new # "deleted"
           /\ ~f.deleted /\ status[d][f.id] # "unknown" => new = status[d][f.id]
    BY <1>4, ProcessEffect
  <2>3. CASE e = d /\ k = f.id
    <3>1. new = "deleted" /\ wipe'[e][k] = w
      BY <2>1, <2>2, <2>3 DEF TypeOK
    <3> QED BY <3>1, <2>1, <2>2, <2>3 DEF WipesStamped
  <2>4. CASE ~(e = d /\ k = f.id)
    <3>1. status[e][k] = "deleted" /\ wipe'[e][k] = wipe[e][k]
      BY <2>1, <2>2, <2>4 DEF TypeOK
    <3> QED BY <3>1 DEF WipesStamped
  <2> QED BY <2>3, <2>4
<1> QED BY <1>1, <1>2, <1>3, <1>4 DEF Next, vars, Tick, Arrive, Pull, Crash

(* A record is copied once, so one live file has its id.                    *)
CopiedOnce ==
  \A f \in files, g \in files : ~f.deleted /\ ~g.deleted /\ f.id = g.id => f = g

LEMMA StepCopiedOnce == TypeOK /\ CopiedOnce /\ [Next]_vars => CopiedOnce'
<1> SUFFICES ASSUME TypeOK, CopiedOnce, [Next]_vars PROVE CopiedOnce'
  OBVIOUS
<1>1. CASE UNCHANGED files
  BY <1>1 DEF CopiedOnce
<1>2. ASSUME NEW d \in Node, NEW i \in Id, NEW b \in BOOLEAN, Publish(d, i, b),
             b \/ \A f \in files : f.id # i
      PROVE  CopiedOnce'
  <2> DEFINE h == [id |-> i, deleted |-> b, hlc |-> clk'[d]]
  <2>1. files' = files \cup {h}
    BY <1>2, PublishTypes
  <2>2. h.id = i /\ h.deleted = b
    OBVIOUS
  <2> HIDE DEF h
  <2> QED BY <1>2, <2>1, <2>2 DEF CopiedOnce
<1> QED BY <1>1, <1>2 DEF Next, vars, Tick, Arrive, Process, Pull, Crash, Copy, Delete

LEMMA EarlierThanNewest ==
  ASSUME NEW a \in Stamp, NEW b \in Stamp, NEW c \in Stamp, HlcLeq(a, b), HlcLt(b, c)
  PROVE  HlcLt(a, c)
<1>1. \A t \in Stamp : t.wall \in Int /\ t.counter \in Int /\ t.node \in Int
  <2> SUFFICES ASSUME NEW t \in Stamp PROVE t.wall \in Int /\ t.counter \in Int /\ t.node \in Int
    OBVIOUS
  <2>1. t.wall \in Wall /\ t.counter \in 0 .. MaxCounter /\ t.node \in Node
    BY DEF Stamp
  <2>2. t.wall \in Int
    BY <2>1, WidthAssumption DEF Wall
  <2>3. t.node \in Int
    <3>1. t.node \in 0 .. MaxNode
      BY <2>1, NodeAssumption
    <3> QED BY <3>1
  <2> QED BY <2>1, <2>2, <2>3
<1> QED BY <1>1 DEF HlcLeq, HlcLt

(* What merge_decide inserts is later than every wipe of its content.       *)
LEMMA InsertedIsLater ==
  ASSUME TypeOK, WipesStamped, NEW d \in Node, NEW f \in File,
         MergeDecide(LocalStateOf(d, f), f.deleted, f.hlc) = "ApplyRemote",
         NEW i \in Twins(f.id), status[d][i] = "deleted"
  PROVE  HlcLt(wipe[d][i], f.hlc)
<1> DEFINE S == {wipe[d][j] : j \in {k \in Twins(f.id) : status[d][k] = "deleted"}}
<1>1. S \in SUBSET Stamp /\ wipe[d][i] \in S
  BY DEF WipesStamped, Twins
<1>2. LocalStateOf(d, f).tombstonedDuplicate = Newest(S)
  BY DEF LocalStateOf
<1>3. ~CoveredByWipe(LocalStateOf(d, f), f.hlc)
  BY DEF MergeDecide, UnknownAction, KnownAction, Suppressed
<1> HIDE DEF S
<1>4. Newest(S) \in Stamp /\ HlcLeq(wipe[d][i], Newest(S))
  BY <1>1, NewestIsLast
<1>5. HlcLt(Newest(S), f.hlc)
  BY <1>2, <1>3, <1>4, NoStampAssumption DEF CoveredByWipe
<1>6. wipe[d][i] \in Stamp /\ f.hlc \in Stamp
  BY <1>1 DEF File
<1> QED BY <1>4, <1>5, <1>6, EarlierThanNewest

(* No pull brings back content that was deleted here later than the record  *)
(* was copied, however many records of that content were deleted.           *)
THEOREM WipesCover == Spec => WipeCoversOlderCopies
<1>1. Init => WipesStamped /\ CopiedOnce
  BY DEF Init, WipesStamped, CopiedOnce
<1>2. ASSUME TypeOK, WipesStamped, CopiedOnce, Next, NEW d \in Node, NEW f \in todo[d],
             status[d][f.id] # "live", status'[d][f.id] = "live",
             NEW i \in Twins(f.id), status[d][i] = "deleted"
      PROVE  HlcLt(wipe[d][i], f.hlc)
  <2>1. f \in files /\ f \in File /\ f.id \in Id
    BY <1>2 DEF TypeOK, File
  <2>2. ASSUME NEW e \in Node, NEW j \in Id, Copy(e, j) PROVE FALSE
    <3>1. j # f.id
      BY <2>1, <2>2 DEF Copy
    <3> QED BY <3>1, <2>1, <2>2, <1>2 DEF Copy, TypeOK
  <2>3. ASSUME NEW e \in Node, NEW j \in Id, Delete(e, j) PROVE FALSE
    BY <2>1, <2>3, <1>2 DEF Delete, TypeOK
  <2>4. ASSUME NEW e \in Node, NEW g \in files, Process(e, g)
        PROVE  HlcLt(wipe[d][i], f.hlc)
    <3>1. g \in File /\ g.id \in Id /\ g.deleted \in BOOLEAN
      BY <1>2 DEF TypeOK, File
    <3>2. PICK new \in Status :
             /\ status' = [status EXCEPT ![e][g.id] = new]
             /\ g.deleted => new = "deleted"
             /\ ~g.deleted /\ status[e][g.id] # "unknown" => new = status[e][g.id]
      BY <1>2, <2>4, ProcessEffect
    <3>3. e = d /\ g.id = f.id /\ ~g.deleted /\ status[d][f.id] = "unknown"
      BY <3>1, <3>2, <2>1, <1>2 DEF TypeOK
    <3>4. MergeDecide(LocalStateOf(d, g), g.deleted, g.hlc) = "ApplyRemote"
      <4> DEFINE action == MergeDecide(LocalStateOf(d, g), g.deleted, g.hlc)
      <4>1. status' = [status EXCEPT ![d][g.id] = Outcome(action, status[d][g.id])]
        BY <2>4, <3>3 DEF Process
      <4>2. status'[d][g.id] = Outcome(action, "unknown")
        BY <3>1, <3>3, <4>1, <1>2 DEF TypeOK
      <4>3. status'[d][g.id] = "live"
        BY <3>3, <1>2
      <4>4. action \in {"SkipDuplicateContent", "ApplyRemote"}
        BY <3>1, <3>3, Decision
      <4> HIDE DEF action
      <4>5. action = "ApplyRemote"
        BY <4>2, <4>3, <4>4 DEF Outcome
      <4> QED BY <4>5 DEF action
    <3>5. HlcLt(wipe[d][i], g.hlc)
      BY <3>1, <3>3, <3>4, <1>2, InsertedIsLater
    <3>6. ~f.deleted
      BY <3>3, <2>4, <1>2 DEF Process, IsNext
    <3>7. f = g
      BY <3>3, <3>6, <2>1, <1>2 DEF CopiedOnce
    <3> QED BY <3>5, <3>7
  <2> QED BY <1>2, <2>2, <2>3, <2>4 DEF Next, Tick, Arrive, Pull, Crash
<1>3. TypeOK /\ WipesStamped /\ CopiedOnce /\ [Next]_vars =>
        [\A d \in Node : \A f \in todo[d] :
           status[d][f.id] # "live" /\ status'[d][f.id] = "live" =>
             \A i \in Twins(f.id) :
               status[d][i] = "deleted" => HlcLt(wipe[d][i], f.hlc)]_vars
  BY <1>2
<1> QED BY <1>1, <1>3, StepWipesStamped, StepCopiedOnce, FolderTypes, PTL
        DEF Spec, WipeCoversOlderCopies

----------------------------------------------------------------------------
(* A re-copy outranks every wipe its device knows of.  It takes clocks at  *)
(* most the drift window apart and counters that do not run full; both are *)
(* hypotheses of the theorem.                                              *)

(* No physical clock is more than MAX_DRIFT_MILLIS ahead of another. *)
ClocksClose == \A d, e \in Node : Skew[e] <= Skew[d] + MaxDrift

(* No clock's counter has reached u32::MAX. *)
CountersHaveRoom == \A d \in Node : clk[d] # NoStamp => clk[d].counter < MaxCounter

(* No stamp in use is ahead of every physical clock. *)
WallsAreReal ==
  /\ \A d \in Node : clk[d] # NoStamp => \E e \in Node : clk[d].wall <= now + Skew[e]
  /\ \A f \in files : \E e \in Node : f.hlc.wall <= now + Skew[e]

(* A published stamp left room in the counter. *)
StampsHaveRoom == \A f \in files : f.hlc.counter < MaxCounter

NotAfter(s, t) == s.wall < t.wall \/ (s.wall = t.wall /\ s.counter <= t.counter)

(* A device's clock has caught up with every wipe it recorded. *)
ClockCoversWipes ==
  \A d \in Node : \A i \in Id :
    wipe[d][i] # NoStamp => clk[d] # NoStamp /\ NotAfter(wipe[d][i], clk[d])

RecopyInv == WallsAreReal /\ StampsHaveRoom /\ ClockCoversWipes

----------------------------------------------------------------------------
LEMMA NextIsLater ==
  ASSUME NEW c \in Stamp, NEW t \in Wall, NEW d \in Node,
         c.counter < MaxCounter
  PROVE  /\ NotAfter(c, HlcNext(c, t, d))
         /\ \A s \in Stamp : NotAfter(s, c) => HlcLt(s, HlcNext(c, t, d))
BY WidthAssumption, NoStampAssumption
   DEF NotAfter, HlcNext, HlcLt, Stamp, Wall

LEMMA NextWall ==
  ASSUME NEW c \in Clock, NEW t \in Wall, NEW d \in Node,
         c # NoStamp => c.counter < MaxCounter
  PROVE  \/ HlcNext(c, t, d).wall = t
         \/ c # NoStamp /\ HlcNext(c, t, d).wall = c.wall
BY DEF HlcNext

LEMMA ReceiveIsLater ==
  ASSUME NEW c \in Clock, NEW s \in Stamp, NEW t \in Wall, NEW d \in Node
  PROVE  /\ c # NoStamp => NotAfter(c, HlcReceive(c, s, t, d))
         /\ s.wall <= t + MaxDrift /\ s.counter < MaxCounter =>
              NotAfter(s, HlcReceive(c, s, t, d))
<1> DEFINE credited == ClampedWall(s, t)
           mine == IF c = NoStamp THEN MinWall ELSE c.wall
           wall == Larger(Larger(mine, credited), t)
           counter == MergedCounter(c, s, credited, wall)
           merged == HlcReceive(c, s, t, d)
<1>1. merged.wall = wall /\ merged.counter = counter
  BY DEF HlcReceive
<1>2. /\ mine \in Int /\ credited \in Int /\ wall \in Int
      /\ mine <= wall /\ credited <= wall
  <2>1. t \in Int /\ s.wall \in Int /\ mine \in Int
    BY WidthAssumption DEF Wall, Stamp, Clock
  <2>2. credited \in Int
    BY <2>1, WidthAssumption DEF ClampedWall, SatAdd, Smaller
  <2> HIDE DEF mine, credited
  <2> QED BY <2>1, <2>2 DEF Larger
<1>3. s.wall <= t + MaxDrift => credited = s.wall
  BY WidthAssumption DEF ClampedWall, SatAdd, Smaller, Wall, Stamp
<1> HIDE DEF credited, wall
<1>4. c # NoStamp /\ c.wall = wall => c.counter <= counter
  BY <1>2, WidthAssumption DEF MergedCounter, Smaller, Larger, Stamp, Clock
<1>5. credited = wall /\ s.counter < MaxCounter => s.counter <= counter
  BY <1>2, WidthAssumption DEF MergedCounter, Smaller, Larger, Stamp, Clock
<1> HIDE DEF counter, merged
<1>6. c # NoStamp => NotAfter(c, merged)
  BY <1>1, <1>2, <1>4 DEF NotAfter
<1>7. s.wall <= t + MaxDrift /\ s.counter < MaxCounter => NotAfter(s, merged)
  BY <1>1, <1>2, <1>3, <1>5 DEF NotAfter
<1> QED BY <1>6, <1>7 DEF merged

LEMMA ReceiveWall ==
  ASSUME NEW c \in Clock, NEW s \in Stamp, NEW t \in Wall, NEW d \in Node
  PROVE  LET w == HlcReceive(c, s, t, d).wall IN
           \/ w = t
           \/ c # NoStamp /\ w = c.wall
           \/ w <= s.wall
BY WidthAssumption, NoStampAssumption
   DEF HlcReceive, ClampedWall, SatAdd, Smaller, Larger, Stamp, Clock, Wall

LEMMA NotAfterTransitive ==
  ASSUME NEW r \in Stamp, NEW s \in Stamp, NEW t \in Stamp,
         NotAfter(r, s), NotAfter(s, t)
  PROVE  NotAfter(r, t)
BY WidthAssumption DEF NotAfter, Stamp, Wall

(* Issuing a stamp keeps the invariant, and the stamp is later than every   *)
(* wipe recorded.                                                           *)
LEMMA PublishKeeps ==
  ASSUME TypeOK, RecopyInv, CountersHaveRoom, CountersHaveRoom',
         NEW d \in Node, NEW i \in Id, NEW b \in BOOLEAN, Publish(d, i, b),
         UNCHANGED now
  PROVE  /\ WallsAreReal' /\ StampsHaveRoom'
         /\ clk[d] # NoStamp => NotAfter(clk[d], clk'[d])
         /\ \A j \in Id : wipe[d][j] # NoStamp => HlcLt(wipe[d][j], clk'[d])
         /\ \A e \in Node : e # d => clk'[e] = clk[e]
<1> DEFINE s == HlcNext(clk[d], Phys(d), d)
<1>1. s \in Stamp /\ clk[d] \in Clock /\ Phys(d) \in Wall
  BY PhysInWall, NextStamp DEF TypeOK
<1>2. clk' = [clk EXCEPT ![d] = s]
  BY DEF Publish
<1>3. clk'[d] = s /\ \A e \in Node : e # d => clk'[e] = clk[e]
  BY <1>2 DEF TypeOK
<1>4. files' = files \cup {[id |-> i, deleted |-> b, hlc |-> s]}
  BY <1>3, PublishTypes
<1>5. clk[d] # NoStamp => clk[d].counter < MaxCounter
  BY DEF CountersHaveRoom
<1>6. clk[d] # NoStamp =>
        /\ NotAfter(clk[d], s)
        /\ \A r \in Stamp : NotAfter(r, clk[d]) => HlcLt(r, s)
  BY <1>1, <1>5, NextIsLater DEF Clock
<1>7. s.wall = Phys(d) \/ (clk[d] # NoStamp /\ s.wall = clk[d].wall)
  BY <1>1, <1>5, NextWall
<1> HIDE DEF s
<1>8. \E e \in Node : s.wall <= now + Skew[e]
  <2>1. CASE s.wall = Phys(d)
    <3>1. s.wall <= now + Skew[d]
      BY <2>1, <1>1 DEF Phys, Stamp, Wall
    <3> QED BY <3>1
  <2>2. CASE clk[d] # NoStamp /\ s.wall = clk[d].wall
    BY <2>2 DEF RecopyInv, WallsAreReal
  <2> QED BY <1>7, <2>1, <2>2
<1>9. WallsAreReal'
  <2>1. \A e \in Node : clk'[e] # NoStamp => \E h \in Node : clk'[e].wall <= now + Skew[h]
    BY <1>3, <1>8 DEF RecopyInv, WallsAreReal
  <2>2. \A f \in files' : \E h \in Node : f.hlc.wall <= now + Skew[h]
    BY <1>4, <1>8 DEF RecopyInv, WallsAreReal
  <2> QED BY <2>1, <2>2 DEF WallsAreReal
<1>10. s.counter < MaxCounter
  BY <1>1, <1>3, NoStampAssumption DEF CountersHaveRoom
<1>11. StampsHaveRoom'
  BY <1>4, <1>10 DEF RecopyInv, StampsHaveRoom
<1>12. ASSUME NEW j \in Id, wipe[d][j] # NoStamp PROVE HlcLt(wipe[d][j], s)
  <2>1. wipe[d][j] \in Stamp
    BY <1>12 DEF TypeOK, Clock
  <2>2. clk[d] # NoStamp /\ NotAfter(wipe[d][j], clk[d])
    BY <1>12 DEF RecopyInv, ClockCoversWipes
  <2> QED BY <1>6, <2>1, <2>2
<1> QED BY <1>3, <1>6, <1>9, <1>11, <1>12

(* Processing a file keeps the invariant: the merged clock has caught up    *)
(* with the file's stamp, because no stamp is beyond the drift window.      *)
LEMMA ProcessKeeps ==
  ASSUME ClocksClose, TypeOK, RecopyInv, NEW d \in Node, NEW f \in files, Process(d, f)
  PROVE  RecopyInv'
<1> DEFINE c == HlcReceive(clk[d], f.hlc, Phys(d), d)
<1>1. f.hlc \in Stamp /\ f.id \in Id /\ clk[d] \in Clock /\ Phys(d) \in Wall
  BY PhysInWall DEF TypeOK, File
<1>2. clk' = [clk EXCEPT ![d] = c] /\ UNCHANGED <<now, files>>
  BY DEF Process
<1>3. c \in Stamp
  BY <1>1, ReceiveStamp
<1>4. /\ clk[d] # NoStamp => NotAfter(clk[d], c)
      /\ f.hlc.wall <= Phys(d) + MaxDrift /\ f.hlc.counter < MaxCounter =>
           NotAfter(f.hlc, c)
  BY <1>1, ReceiveIsLater
<1>5. \/ c.wall = Phys(d)
      \/ clk[d] # NoStamp /\ c.wall = clk[d].wall
      \/ c.wall <= f.hlc.wall
  BY <1>1, ReceiveWall
<1> HIDE DEF c
<1>6. clk'[d] = c /\ \A e \in Node : e # d => clk'[e] = clk[e]
  BY <1>2 DEF TypeOK
<1>7. PICK src \in Node : f.hlc.wall <= now + Skew[src]
  BY DEF RecopyInv, WallsAreReal
<1>8. now \in Int /\ Skew[src] \in Int /\ Skew[d] \in Int /\ MaxDrift \in Int
      /\ f.hlc.wall \in Int /\ c.wall \in Int
  BY <1>1, <1>3, SkewAssumption, WidthAssumption DEF TypeOK, Stamp, Wall
<1>9. NotAfter(f.hlc, c)
  <2>1. Skew[src] <= Skew[d] + MaxDrift
    BY DEF ClocksClose
  <2>2. f.hlc.wall <= Phys(d) + MaxDrift
    BY <2>1, <1>7, <1>8 DEF Phys
  <2>3. f.hlc.counter < MaxCounter
    BY DEF RecopyInv, StampsHaveRoom
  <2> QED BY <1>4, <2>2, <2>3
<1>10. WallsAreReal'
  <2>1. \E e \in Node : c.wall <= now + Skew[e]
    <3>1. CASE c.wall = Phys(d)
      <4>1. c.wall <= now + Skew[d]
        BY <3>1, <1>8 DEF Phys
      <4> QED BY <4>1
    <3>2. CASE clk[d] # NoStamp /\ c.wall = clk[d].wall
      BY <3>2 DEF RecopyInv, WallsAreReal
    <3>3. CASE c.wall <= f.hlc.wall
      <4>1. c.wall <= now + Skew[src]
        BY <3>3, <1>7, <1>8
      <4> QED BY <4>1
    <3> QED BY <1>5, <3>1, <3>2, <3>3
  <2>2. \A e \in Node : clk'[e] # NoStamp => \E h \in Node : clk'[e].wall <= now + Skew[h]
    BY <2>1, <1>6 DEF RecopyInv, WallsAreReal
  <2>3. \A g \in files' : \E h \in Node : g.hlc.wall <= now + Skew[h]
    BY <1>2 DEF RecopyInv, WallsAreReal
  <2> QED BY <1>2, <2>2, <2>3 DEF WallsAreReal
<1>11. StampsHaveRoom'
  BY <1>2 DEF RecopyInv, StampsHaveRoom
<1>12. ClockCoversWipes'
  <2> SUFFICES ASSUME NEW e \in Node, NEW i \in Id, wipe'[e][i] # NoStamp
               PROVE  clk'[e] # NoStamp /\ NotAfter(wipe'[e][i], clk'[e])
    BY DEF ClockCoversWipes
  <2>1. PICK w \in Clock : /\ wipe' = [wipe EXCEPT ![d][f.id] = w]
                           /\ w = f.hlc \/ w = wipe[d][f.id]
    <3>1. f.deleted \in BOOLEAN
      BY DEF TypeOK, File
    <3> QED BY <3>1, ProcessEffect
  <2>2. wipe'[e][i] = IF e = d /\ i = f.id THEN w ELSE wipe[e][i]
    BY <2>1, <1>1 DEF TypeOK
  <2>3. CASE e # d
    BY <2>2, <2>3, <1>6 DEF RecopyInv, ClockCoversWipes
  <2>4. CASE e = d /\ wipe'[e][i] = f.hlc
    BY <2>4, <1>3, <1>6, <1>9, NoStampAssumption
  <2>5. CASE e = d /\ wipe'[e][i] = wipe[d][i]
    <3>1. wipe[d][i] \in Stamp /\ clk[d] \in Stamp /\ NotAfter(wipe[d][i], clk[d])
      BY <2>5 DEF RecopyInv, ClockCoversWipes, TypeOK, Clock
    <3>2. NotAfter(clk[d], c)
      BY <3>1, <1>4, NoStampAssumption
    <3>3. NotAfter(wipe[d][i], c)
      BY <3>1, <3>2, <1>3, NotAfterTransitive
    <3> QED BY <3>3, <2>5, <1>3, <1>6, NoStampAssumption
  <2> QED BY <2>1, <2>2, <2>3, <2>4, <2>5
<1> QED BY <1>10, <1>11, <1>12 DEF RecopyInv

LEMMA StepRecopy ==
  ASSUME ClocksClose, TypeOK, RecopyInv, CountersHaveRoom, CountersHaveRoom', [Next]_vars
  PROVE  RecopyInv'
<1>1. CASE UNCHANGED <<now, clk, files, wipe>>
  BY <1>1 DEF RecopyInv, WallsAreReal, StampsHaveRoom, ClockCoversWipes
<1>2. CASE Tick
  <2>1. now' = now + 1 /\ UNCHANGED <<clk, files, wipe>>
    BY <1>2 DEF Tick
  <2>2. \A e \in Node : now + Skew[e] \in Int /\ now' + Skew[e] = now + Skew[e] + 1
    BY <2>1, SkewAssumption DEF TypeOK
  <2>3. \A e \in Node : clk[e] # NoStamp => clk[e].wall \in Int
    BY DEF TypeOK, Clock, Stamp, Wall
  <2>4. \A f \in files : f.hlc.wall \in Int
    BY DEF TypeOK, File, Stamp, Wall
  <2>5. \A x \in Int : \A e \in Node : x <= now + Skew[e] => x <= now' + Skew[e]
    BY <2>2
  <2>6. WallsAreReal'
    BY <2>1, <2>3, <2>4, <2>5 DEF RecopyInv, WallsAreReal
  <2> QED BY <2>1, <2>6 DEF RecopyInv, StampsHaveRoom, ClockCoversWipes
<1>3. ASSUME NEW d \in Node, NEW i \in Id, Copy(d, i) PROVE RecopyInv'
  <2>1. Publish(d, i, FALSE) /\ UNCHANGED <<now, wipe>>
    BY <1>3 DEF Copy
  <2>2. /\ WallsAreReal' /\ StampsHaveRoom'
        /\ \A j \in Id : wipe[d][j] # NoStamp => HlcLt(wipe[d][j], clk'[d])
        /\ \A e \in Node : e # d => clk'[e] = clk[e]
    BY <2>1, PublishKeeps
  <2>3. clk'[d] \in Stamp
    BY <2>1, PublishTypes
  <2>4. \A s \in Stamp : HlcLt(s, clk'[d]) => NotAfter(s, clk'[d])
    BY <2>3, WidthAssumption DEF HlcLt, NotAfter, Stamp, Wall
  <2>5. \A j \in Id : wipe[d][j] # NoStamp => wipe[d][j] \in Stamp
    BY DEF TypeOK, Clock
  <2>6. ClockCoversWipes'
    BY <2>1, <2>2, <2>3, <2>4, <2>5, NoStampAssumption DEF RecopyInv, ClockCoversWipes
  <2> QED BY <2>2, <2>6 DEF RecopyInv
<1>4. ASSUME NEW d \in Node, NEW i \in Id, Delete(d, i) PROVE RecopyInv'
  <2>1. Publish(d, i, TRUE) /\ UNCHANGED now /\ wipe' = [wipe EXCEPT ![d][i] = clk'[d]]
    BY <1>4 DEF Delete
  <2>2. /\ WallsAreReal' /\ StampsHaveRoom'
        /\ \A j \in Id : wipe[d][j] # NoStamp => HlcLt(wipe[d][j], clk'[d])
        /\ \A e \in Node : e # d => clk'[e] = clk[e]
    BY <2>1, PublishKeeps
  <2>3. clk'[d] \in Stamp
    BY <2>1, PublishTypes
  <2>4. NotAfter(clk'[d], clk'[d])
        /\ \A s \in Stamp : HlcLt(s, clk'[d]) => NotAfter(s, clk'[d])
    BY <2>3, WidthAssumption DEF HlcLt, NotAfter, Stamp, Wall
  <2>5. \A j \in Id : wipe[d][j] # NoStamp => wipe[d][j] \in Stamp
    BY DEF TypeOK, Clock
  <2>6. \A e \in Node : \A j \in Id :
          wipe'[e][j] = IF e = d /\ j = i THEN clk'[d] ELSE wipe[e][j]
    BY <2>1 DEF TypeOK
  <2>7. ClockCoversWipes'
    BY <2>2, <2>3, <2>4, <2>5, <2>6, NoStampAssumption DEF RecopyInv, ClockCoversWipes
  <2> QED BY <2>2, <2>7 DEF RecopyInv
<1>5. ASSUME NEW d \in Node, NEW f \in files, Process(d, f) PROVE RecopyInv'
  BY <1>5, ProcessKeeps
<1> QED BY <1>1, <1>2, <1>3, <1>4, <1>5 DEF Next, vars, Arrive, Pull, Crash

(* A copy is stamped later than every wipe of its content that the copying  *)
(* device knows of, however the sessions of the devices interleave, if the  *)
(* clocks are close and no counter runs full.                               *)
THEOREM RecopyIsLater ==
  ClocksClose => (Spec /\ []CountersHaveRoom => RecopyOutranksWipe)
<1> SUFFICES ASSUME ClocksClose PROVE Spec /\ []CountersHaveRoom => RecopyOutranksWipe
  OBVIOUS
<1>1. Init => RecopyInv
  BY DEF Init, RecopyInv, WallsAreReal, StampsHaveRoom, ClockCoversWipes
<1>2. TypeOK /\ RecopyInv /\ CountersHaveRoom /\ CountersHaveRoom' /\ [Next]_vars
        => RecopyInv'
  BY StepRecopy
<1>3. ASSUME TypeOK, RecopyInv, CountersHaveRoom, CountersHaveRoom', Next,
             NEW f \in files' \ files, ~f.deleted,
             NEW i \in Twins(f.id), wipe[f.hlc.node][i] # NoStamp
      PROVE  HlcLt(wipe[f.hlc.node][i], f.hlc)
  <2>1. PICK d \in Node, k \in Id, b \in BOOLEAN : Publish(d, k, b) /\ UNCHANGED now
    BY <1>3 DEF Next, Tick, Arrive, Pull, Crash, Process, Copy, Delete
  <2>2. f = [id |-> k, deleted |-> b, hlc |-> clk'[d]]
    BY <2>1, <1>3, PublishTypes
  <2>3. f.hlc = clk'[d]
    BY <2>2
  <2>4. clk'[d].node = d
    BY <2>1, <1>3 DEF Publish, HlcNext, TypeOK
  <2>5. i \in Id
    BY DEF Twins
  <2> QED BY <2>1, <2>3, <2>4, <2>5, <1>3, PublishKeeps
<1>4. TypeOK /\ RecopyInv /\ CountersHaveRoom /\ CountersHaveRoom' /\ [Next]_vars =>
        [\A f \in files' \ files : ~f.deleted =>
           \A i \in Twins(f.id) :
             wipe[f.hlc.node][i] # NoStamp => HlcLt(wipe[f.hlc.node][i], f.hlc)]_vars
  BY <1>3
<1> QED BY <1>1, <1>2, <1>4, FolderTypes, PTL DEF Spec, RecopyOutranksWipe

============================================================================
