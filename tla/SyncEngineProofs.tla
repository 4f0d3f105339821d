-------------------------- MODULE SyncEngineProofs --------------------------
(***************************************************************************)
(* Proofs about SyncEngine: what holds although the user changes the       *)
(* tables between a decision and its execution, for any devices, records   *)
(* and orders of events.                                                   *)
(***************************************************************************)
EXTENDS SyncEngine, SyncFolderProofs

LEMMA DecisionIsAnAction ==
  ASSUME NEW local, NEW deleted \in BOOLEAN, NEW hlc
  PROVE  MergeDecide(local, deleted, hlc) \in MergeAction
BY DEF MergeDecide, KnownAction, UnknownAction, MergeAction

(* The summary for a file depends on the records of its content only.       *)
LEMMA SummaryIsAboutContent ==
  ASSUME NEW d \in Node, NEW f \in File,
         \A i \in Id : SyncHash[i] = SyncHash[f.id] =>
           status'[d][i] = status[d][i] /\ wipe'[d][i] = wipe[d][i]
  PROVE  LocalStateOf(d, f)' = LocalStateOf(d, f)
<1>1. /\ f.id \in Id /\ status'[d][f.id] = status[d][f.id]
      /\ \A i \in Twins(f.id) :
           i \in Id /\ status'[d][i] = status[d][i] /\ wipe'[d][i] = wipe[d][i]
  BY DEF File, Twins
<1>2. (\E i \in Twins(f.id) : status'[d][i] = "live")
        <=> (\E i \in Twins(f.id) : status[d][i] = "live")
  BY <1>1
<1>3. {j \in Twins(f.id) : status'[d][j] = "deleted"}
        = {j \in Twins(f.id) : status[d][j] = "deleted"}
  BY <1>1
<1>4. {wipe'[d][i] : i \in {j \in Twins(f.id) : status'[d][j] = "deleted"}}
        = {wipe[d][i] : i \in {j \in Twins(f.id) : status[d][j] = "deleted"}}
  BY <1>1, <1>3
<1> QED BY <1>1, <1>2, <1>4 DEF LocalStateOf

----------------------------------------------------------------------------
(* What is known of an answer that waits: it is about the file whose turn   *)
(* it is and about a record that is still as unknown as it was, and it is   *)
(* the answer merge_decide would give now, unless it is overtaken.          *)
Sound(d, p) ==
  /\ IsNext(d, p.file)
  /\ p.action \in {"ApplyRemote", "SkipDuplicateContent"} =>
       ~p.file.deleted /\ status[d][p.file.id] = "unknown"
  /\ p.action \in {"ApplyTombstone", "RecordTombstoneOnly"} => p.file.deleted
  /\ p.action = MergeDecide(LocalStateOf(d, p.file), p.file.deleted, p.file.hlc)
       \/ p.file.id \in overtaken[d]

Answers == \A d \in Node : \A p \in pending[d] : Sound(d, p)

LEMMA PendingTypes ==
  ASSUME EngineTypeOK, NEW d \in Node, NEW p \in pending[d]
  PROVE  /\ p.file \in todo[d] /\ p.file \in files /\ p.file \in File
         /\ p.file.id \in Id /\ p.file.deleted \in BOOLEAN /\ p.file.hlc \in Stamp
         /\ p.action \in MergeAction
BY DEF EngineTypeOK, TypeOK, File

(* What executing an answer does to what the device holds about the record. *)
LEMMA ExecuteEffect ==
  ASSUME EngineTypeOK, Answers, NEW d \in Node, NEW p \in pending[d], Execute(d, p)
  PROVE  \E new \in Status, w \in Clock :
           /\ status' = [status EXCEPT ![d][p.file.id] = new]
           /\ wipe' = [wipe EXCEPT ![d][p.file.id] = w]
           /\ new = "deleted" => w \in Stamp \/ (w = wipe[d][p.file.id]
                                                  /\ status[d][p.file.id] = "deleted")
           /\ \/ new = status[d][p.file.id]
              \/ new = "deleted" /\ p.file.deleted
              \/ /\ new \in {"live", "suppressed"} /\ ~p.file.deleted
                 /\ status[d][p.file.id] = "unknown"
                 /\ new = "live" => p.action = "ApplyRemote"
<1> DEFINE new == Outcome(p.action, status[d][p.file.id])
           w == IF p.action \in {"ApplyTombstone", "RecordTombstoneOnly"}
                THEN p.file.hlc ELSE wipe[d][p.file.id]
<1>1. p.file.id \in Id /\ p.file.hlc \in Stamp /\ p.action \in MergeAction
  BY PendingTypes
<1>2. status[d][p.file.id] \in Status /\ wipe[d][p.file.id] \in Clock
  BY <1>1 DEF EngineTypeOK, TypeOK
<1>3. /\ status' = [status EXCEPT ![d][p.file.id] = new]
      /\ wipe' = [wipe EXCEPT ![d][p.file.id] = w]
  BY DEF Execute
<1>4. /\ p.action = "ApplyRemote" => new = "live"
      /\ p.action = "SkipDuplicateContent" => new = "suppressed"
      /\ p.action \in {"ApplyTombstone", "RecordTombstoneOnly"} =>
           new = "deleted" /\ w = p.file.hlc
      /\ p.action \notin {"ApplyTombstone", "RecordTombstoneOnly"} =>
           w = wipe[d][p.file.id]
      /\ p.action = "Skip" => new = status[d][p.file.id]
  BY DEF Outcome
<1> HIDE DEF new, w
<1>5. new \in Status /\ w \in Clock
  BY <1>1, <1>2, <1>4 DEF Status, Clock, MergeAction
<1>6. Sound(d, p)
  BY DEF Answers
<1>7. /\ new = "deleted" => w \in Stamp \/ (w = wipe[d][p.file.id]
                                             /\ status[d][p.file.id] = "deleted")
      /\ \/ new = status[d][p.file.id]
         \/ new = "deleted" /\ p.file.deleted
         \/ /\ new \in {"live", "suppressed"} /\ ~p.file.deleted
            /\ status[d][p.file.id] = "unknown"
            /\ new = "live" => p.action = "ApplyRemote"
  BY <1>1, <1>4, <1>6 DEF Sound, MergeAction
<1> QED BY <1>3, <1>5, <1>7

----------------------------------------------------------------------------
(* Every step that is not Execute or Consider is one of SyncFolder.         *)
LEMMA FolderSteps ==
  ASSUME [EngineNext]_engineVars,
         ~ \E d \in Node : \E p \in pending[d] : Execute(d, p)
  PROVE  [Next]_vars
BY DEF EngineNext, engineVars, Elsewhere, UserCopies, UserDeletes, Consider, Lists,
       Interrupt, Next

LEMMA StepEngineTypes ==
  ASSUME EngineTypeOK, Answers, [EngineNext]_engineVars PROVE EngineTypeOK'
<1>1. ASSUME UNCHANGED <<todo, pending>>, overtaken' \in [Node -> SUBSET Id], TypeOK'
      PROVE  EngineTypeOK'
  BY <1>1 DEF EngineTypeOK
<1>2. CASE UNCHANGED engineVars
  BY <1>2, <1>1, StepTypes DEF engineVars, vars, EngineTypeOK
<1>3. CASE Elsewhere
  <2>1. [Next]_vars /\ UNCHANGED <<todo, pending, overtaken>>
    BY <1>3 DEF Elsewhere, Tick, Arrive, Next
  <2> QED BY <2>1, <1>1, StepTypes DEF EngineTypeOK
<1>4. ASSUME NEW d \in Node, NEW i \in Id, UserCopies(d, i) \/ UserDeletes(d, i)
      PROVE  EngineTypeOK'
  <2>1. [Next]_vars /\ UNCHANGED <<todo, pending>>
    BY <1>4 DEF UserCopies, UserDeletes, Copy, Delete, Next
  <2>2. Overtakes(d, i) \in SUBSET Id
    BY PendingTypes DEF Overtakes
  <2>3. overtaken' \in [Node -> SUBSET Id]
    BY <1>4, <2>2 DEF UserCopies, UserDeletes, EngineTypeOK
  <2> QED BY <2>1, <2>3, <1>1, StepTypes DEF EngineTypeOK
<1>5. ASSUME NEW d \in Node, NEW f \in files, Consider(d, f) PROVE EngineTypeOK'
  <2> DEFINE p == [file |-> f,
                   action |-> MergeDecide(LocalStateOf(d, f), f.deleted, f.hlc)]
  <2>1. UNCHANGED <<todo, overtaken>> /\ TypeOK'
    BY <1>5, StepTypes DEF Consider, EngineTypeOK, vars
  <2>2. f \in todo[d] /\ f \in File /\ f.deleted \in BOOLEAN
    BY <1>5 DEF Consider, IsNext, EngineTypeOK, TypeOK, File
  <2>3. p \in [file : File, action : MergeAction] /\ p.file = f
    BY <2>2, DecisionIsAnAction
  <2>4. pending' = [pending EXCEPT ![d] = {p}]
    BY <1>5 DEF Consider
  <2> HIDE DEF p
  <2>5. \A e \in Node : pending'[e] = IF e = d THEN {p} ELSE pending[e]
    BY <2>4 DEF EngineTypeOK
  <2>6. pending' \in [Node -> SUBSET [file : File, action : MergeAction]]
    BY <2>3, <2>4 DEF EngineTypeOK
  <2>7. \A e \in Node : \A q, r \in pending'[e] : q = r /\ q.file \in todo[e]
    BY <2>2, <2>3, <2>5 DEF EngineTypeOK
  <2> QED BY <2>1, <2>6, <2>7 DEF EngineTypeOK
<1>6. ASSUME NEW d \in Node, Lists(d) PROVE EngineTypeOK'
  <2>1. [Next]_vars /\ UNCHANGED <<pending, overtaken>>
    BY <1>6 DEF Lists, Next
  <2>2. TypeOK'
    BY <2>1, StepTypes DEF EngineTypeOK
  <2>3. todo[d] = {} /\ \A e \in Node : e # d => todo'[e] = todo[e]
    BY <1>6 DEF Lists, Pull, EngineTypeOK, TypeOK
  <2>4. pending[d] = {}
    BY <2>3 DEF EngineTypeOK
  <2> QED BY <2>1, <2>2, <2>3, <2>4 DEF EngineTypeOK
<1>7. ASSUME NEW d \in Node, NEW p \in pending[d], Execute(d, p) PROVE EngineTypeOK'
  <2>1. PICK new \in Status, w \in Clock :
          /\ status' = [status EXCEPT ![d][p.file.id] = new]
          /\ wipe' = [wipe EXCEPT ![d][p.file.id] = w]
    BY <1>7, ExecuteEffect
  <2>2. p.file.id \in Id /\ p.file.hlc \in Stamp
    BY PendingTypes
  <2>3. status' \in [Node -> [Id -> Status]] /\ wipe' \in [Node -> [Id -> Clock]]
    BY <2>1, <2>2 DEF EngineTypeOK, TypeOK
  <2>4. HlcReceive(clk[d], p.file.hlc, Phys(d), d) \in Clock
    <3>1. clk[d] \in Clock /\ Phys(d) \in Wall
      BY PhysInWall DEF EngineTypeOK, TypeOK
    <3>2. HlcReceive(clk[d], p.file.hlc, Phys(d), d) \in Stamp
      BY <2>2, <3>1, ReceiveStamp
    <3> QED BY <3>2 DEF Clock
  <2>5. clk' \in [Node -> Clock]
    BY <1>7, <2>4 DEF Execute, EngineTypeOK, TypeOK
  <2>6. /\ todo' \in [Node -> SUBSET files]
        /\ \A e \in Node : todo'[e] \subseteq arrived[e]
        /\ \A e \in Node : e # d => todo'[e] = todo[e]
    BY <1>7 DEF Execute, EngineTypeOK, TypeOK
  <2>7. TypeOK'
    BY <1>7, <2>3, <2>5, <2>6 DEF Execute, EngineTypeOK, TypeOK
  <2>8. \A e \in Node : pending'[e] = IF e = d THEN {} ELSE pending[e]
    BY <1>7 DEF Execute, EngineTypeOK
  <2> QED BY <1>7, <2>6, <2>7, <2>8 DEF Execute, EngineTypeOK
<1>8. ASSUME NEW d \in Node, Interrupt(d) PROVE EngineTypeOK'
  <2>1. [Next]_vars /\ UNCHANGED overtaken
    BY <1>8 DEF Interrupt, Next
  <2>2. TypeOK'
    BY <2>1, StepTypes DEF EngineTypeOK
  <2>3. \A e \in Node : /\ pending'[e] = IF e = d THEN {} ELSE pending[e]
                        /\ e # d => todo'[e] = todo[e]
    BY <1>8 DEF Interrupt, Crash, EngineTypeOK, TypeOK
  <2> QED BY <1>8, <2>1, <2>2, <2>3 DEF Interrupt, EngineTypeOK
<1> QED BY <1>2, <1>3, <1>4, <1>5, <1>6, <1>7, <1>8 DEF EngineNext

----------------------------------------------------------------------------
(* An answer stays sound while nothing it is about changes.                 *)
LEMMA SoundStays ==
  ASSUME EngineTypeOK, NEW d \in Node, NEW p \in pending[d], Sound(d, p),
         todo'[d] = todo[d], overtaken[d] \subseteq overtaken'[d],
         p.file.id \notin overtaken'[d] =>
           \A i \in Id : SyncHash[i] = SyncHash[p.file.id] =>
             status'[d][i] = status[d][i] /\ wipe'[d][i] = wipe[d][i],
         status[d][p.file.id] = "unknown" => status'[d][p.file.id] = "unknown"
  PROVE  Sound(d, p)'
<1>1. p.file \in File
  BY PendingTypes
<1>2. p.file.id \notin overtaken'[d] =>
        LocalStateOf(d, p.file)' = LocalStateOf(d, p.file)
  BY <1>1, SummaryIsAboutContent
<1>3. /\ IsNext(d, p.file)'
      /\ p.action = MergeDecide(LocalStateOf(d, p.file)', p.file.deleted, p.file.hlc)
           \/ p.file.id \in overtaken'[d]
  BY <1>2 DEF Sound, IsNext
<1> QED BY <1>3 DEF Sound

LEMMA StepAnswers ==
  ASSUME EngineTypeOK, Answers, [EngineNext]_engineVars PROVE Answers'
<1>1. ASSUME UNCHANGED <<status, wipe, todo, overtaken>>,
             NEW e \in Node, NEW q \in pending[e]
      PROVE  Sound(e, q)'
  BY <1>1, SoundStays DEF Answers
<1>2. CASE UNCHANGED engineVars
  BY <1>1, <1>2 DEF engineVars, vars, Answers
<1>3. CASE Elsewhere
  BY <1>1, <1>3 DEF Elsewhere, Tick, Arrive, Answers
<1>4. ASSUME NEW d \in Node, NEW i \in Id, UserCopies(d, i) \/ UserDeletes(d, i)
      PROVE  Answers'
  <2> SUFFICES ASSUME NEW e \in Node, NEW q \in pending[e] PROVE Sound(e, q)'
    BY <1>4 DEF UserCopies, UserDeletes, Answers
  <2>1. Sound(e, q) /\ q.file \in files /\ q.file.id \in Id
    BY PendingTypes DEF Answers
  <2>2. todo' = todo
    BY <1>4 DEF UserCopies, UserDeletes, Copy, Delete
  <2>3. overtaken' = [overtaken EXCEPT ![d] = @ \cup Overtakes(d, i)]
    BY <1>4 DEF UserCopies, UserDeletes
  <2>4. overtaken[e] \subseteq overtaken'[e]
    BY <2>3 DEF EngineTypeOK
  <2>5. \A c \in Node : \A k \in Id : ~(c = d /\ k = i) =>
          status'[c][k] = status[c][k] /\ wipe'[c][k] = wipe[c][k]
    <3>1. CASE UserCopies(d, i)
      BY <3>1 DEF UserCopies, Copy, EngineTypeOK, TypeOK
    <3>2. CASE UserDeletes(d, i)
      BY <3>2 DEF UserDeletes, Delete, EngineTypeOK, TypeOK
    <3> QED BY <1>4, <3>1, <3>2
  <2>6. ASSUME q.file.id \notin overtaken'[e], NEW k \in Id,
               SyncHash[k] = SyncHash[q.file.id]
        PROVE  status'[e][k] = status[e][k] /\ wipe'[e][k] = wipe[e][k]
    <3>1. CASE e = d /\ k = i
      <4>1. q.file.id \in Overtakes(d, i)
        BY <2>6, <3>1 DEF Overtakes
      <4> QED BY <2>3, <2>6, <3>1, <4>1 DEF EngineTypeOK
    <3> QED BY <2>5, <3>1
  <2>7. ASSUME status[e][q.file.id] = "unknown"
        PROVE  status'[e][q.file.id] = "unknown"
    <3>1. ~(e = d /\ q.file.id = i)
      BY <1>4, <2>1, <2>7 DEF UserCopies, UserDeletes, Copy, Delete
    <3> QED BY <2>1, <2>5, <2>7, <3>1
  <2> QED BY <2>1, <2>2, <2>4, <2>6, <2>7, SoundStays
<1>5. ASSUME NEW d \in Node, NEW f \in files, Consider(d, f) PROVE Answers'
  <2>0. PICK p : p = [file |-> f,
                      action |-> MergeDecide(LocalStateOf(d, f), f.deleted, f.hlc)]
    OBVIOUS
  <2>1. f \in File /\ f.deleted \in BOOLEAN
    BY DEF EngineTypeOK, TypeOK, File
  <2>2. UNCHANGED <<status, wipe, todo, overtaken>> /\ IsNext(d, f)
    BY <1>5 DEF Consider, vars
  <2>3. /\ p.file = f
        /\ p.action = MergeDecide(LocalStateOf(d, p.file), p.file.deleted, p.file.hlc)
        /\ p.action \in {"ApplyRemote", "SkipDuplicateContent"} =>
             ~f.deleted /\ status[d][f.id] = "unknown"
        /\ p.action \in {"ApplyTombstone", "RecordTombstoneOnly"} => f.deleted
    BY <2>0, <2>1, Decision
  <2>4. pending' = [pending EXCEPT ![d] = {p}]
    BY <1>5, <2>0 DEF Consider
  <2>5. LocalStateOf(d, p.file)' = LocalStateOf(d, p.file)
    BY <2>1, <2>2, <2>3, SummaryIsAboutContent
  <2>6. Sound(d, p)'
    <3>1. IsNext(d, p.file)'
      BY <2>2, <2>3 DEF IsNext
    <3>2. /\ p.action \in {"ApplyRemote", "SkipDuplicateContent"} =>
               ~p.file.deleted /\ status'[d][p.file.id] = "unknown"
          /\ p.action \in {"ApplyTombstone", "RecordTombstoneOnly"} => p.file.deleted
      BY <2>2, <2>3
    <3>3. p.action = MergeDecide(LocalStateOf(d, p.file)', p.file.deleted, p.file.hlc)
      BY <2>3, <2>5
    <3> QED BY <3>1, <3>2, <3>3 DEF Sound
  <2>7. \A e \in Node : pending'[e] = IF e = d THEN {p} ELSE pending[e]
    BY <2>4 DEF EngineTypeOK
  <2> QED BY <1>1, <2>2, <2>6, <2>7 DEF Answers
<1>6. ASSUME NEW d \in Node, Lists(d) PROVE Answers'
  <2>1. /\ UNCHANGED <<status, wipe, pending, overtaken>> /\ pending[d] = {}
        /\ \A e \in Node : e # d => todo'[e] = todo[e]
    BY <1>6 DEF Lists, Pull, EngineTypeOK, TypeOK
  <2> QED BY <2>1, SoundStays DEF Answers
<1>7. ASSUME NEW d \in Node, NEW p \in pending[d], Execute(d, p) PROVE Answers'
  <2>1. PICK new \in Status, w \in Clock :
          /\ status' = [status EXCEPT ![d][p.file.id] = new]
          /\ wipe' = [wipe EXCEPT ![d][p.file.id] = w]
    BY <1>7, ExecuteEffect
  <2>2. pending'[d] = {}
    BY <1>7 DEF Execute, EngineTypeOK
  <2>3. \A e \in Node : e # d =>
          pending'[e] = pending[e] /\ todo'[e] = todo[e]
            /\ status'[e] = status[e] /\ wipe'[e] = wipe[e]
    BY <1>7, <2>1 DEF Execute, EngineTypeOK, TypeOK
  <2>4. overtaken' = overtaken
    BY <1>7 DEF Execute
  <2> QED BY <2>2, <2>3, <2>4, SoundStays DEF Answers
<1>8. ASSUME NEW d \in Node, Interrupt(d) PROVE Answers'
  <2>1. /\ UNCHANGED <<status, wipe, overtaken>> /\ pending'[d] = {}
        /\ \A e \in Node : e # d => todo'[e] = todo[e] /\ pending'[e] = pending[e]
    BY <1>8 DEF Interrupt, Crash, EngineTypeOK, TypeOK
  <2> QED BY <2>1, SoundStays DEF Answers
<1> QED BY <1>2, <1>3, <1>4, <1>5, <1>6, <1>7, <1>8 DEF EngineNext

LEMMA EngineInvariant == EngineSpec => [](EngineTypeOK /\ Answers)
<1>1. EngineInit => EngineTypeOK /\ Answers
  BY InitTypes DEF EngineInit, EngineTypeOK, Answers
<1>2. EngineTypeOK /\ Answers /\ [EngineNext]_engineVars => (EngineTypeOK /\ Answers)'
  BY StepEngineTypes, StepAnswers
<1> QED BY <1>1, <1>2, PTL DEF EngineSpec

(* Every variable keeps its type, and an answer that waits is the only one  *)
(* of its device and about a file of the listing under way.                 *)
THEOREM EngineTypes == EngineSpec => []EngineTypeOK
BY EngineInvariant, PTL

----------------------------------------------------------------------------
(* Deciding and executing apart does what doing both at once does, unless   *)
(* the user changed the content in between.                                 *)
THEOREM EngineIsAtomic == EngineSpec => AtomicUnlessOvertaken
<1>1. ASSUME EngineTypeOK, Answers, [EngineNext]_engineVars,
             \A d \in Node : overtaken'[d] = {}
      PROVE  [Next]_vars
  <2>1. ASSUME NEW d \in Node, NEW p \in pending[d], Execute(d, p) PROVE Next
    <3>1. p.file.id \notin overtaken[d]
      BY <1>1, <2>1 DEF Execute
    <3>2. /\ IsNext(d, p.file) /\ p.file \in files
          /\ p.action = MergeDecide(LocalStateOf(d, p.file), p.file.deleted, p.file.hlc)
      BY <1>1, <3>1, PendingTypes DEF Answers, Sound
    <3>3. Process(d, p.file)
      BY <2>1, <3>2 DEF Execute, Process
    <3> QED BY <3>2, <3>3 DEF Next
  <2> QED BY <1>1, <2>1, FolderSteps
<1>2. EngineTypeOK /\ Answers /\ [EngineNext]_engineVars =>
        [(\A d \in Node : overtaken'[d] = {}) => [Next]_vars]_engineVars
  BY <1>1
<1> QED BY <1>2, EngineInvariant, PTL DEF EngineSpec, AtomicUnlessOvertaken

----------------------------------------------------------------------------
LEMMA EngineStepBorne ==
  ASSUME EngineTypeOK, Answers, Borne, [EngineNext]_engineVars PROVE Borne'
<1>1. ASSUME NEW d \in Node, NEW p \in pending[d], Execute(d, p) PROVE Borne'
  <2>1. PICK new \in Status : status' = [status EXCEPT ![d][p.file.id] = new]
    BY <1>1, ExecuteEffect
  <2>2. files' = files /\ p.file \in files /\ p.file.id \in Id
    BY <1>1, PendingTypes DEF Execute
  <2>3. \A e \in Node : \A i \in Id :
          status'[e][i] = IF e = d /\ i = p.file.id THEN new ELSE status[e][i]
    BY <2>1 DEF EngineTypeOK, TypeOK
  <2> QED BY <2>2, <2>3 DEF Borne
<1> QED BY <1>1, FolderSteps, StepBorne DEF EngineTypeOK

LEMMA EngineStepRefines ==
  ASSUME EngineTypeOK, Answers, Borne, [EngineNext]_engineVars
  PROVE  [Ids!TPSNext]_(Ids!tpsVars)
<1>1. ASSUME NEW d \in Node, NEW p \in pending[d], Execute(d, p)
      PROVE  [Ids!TPSNext]_(Ids!tpsVars)
  <2> DEFINE i == p.file.id
  <2>1. i \in Id /\ p.file \in files /\ files' = files
    BY <1>1, PendingTypes DEF Execute
  <2>2. AddedIds' = AddedIds /\ RemovedIds' = RemovedIds
    BY <2>1 DEF AddedIds, RemovedIds
  <2>3. PICK new \in Status :
          /\ status' = [status EXCEPT ![d][i] = new]
          /\ \/ new = status[d][i]
             \/ new = "deleted" /\ p.file.deleted
             \/ /\ new \in {"live", "suppressed"} /\ ~p.file.deleted
                /\ status[d][i] = "unknown"
    BY <1>1, ExecuteEffect
  <2>4. CASE new = status[d][i]
    <3>1. status' = status
      BY <2>1, <2>3, <2>4 DEF EngineTypeOK, TypeOK
    <3> QED BY <3>1, <2>1 DEF Ids!tpsVars
  <2>5. CASE new = "deleted" /\ p.file.deleted /\ status[d][i] # "deleted"
    <3>1. i \in RemovedIds \ GoneIds[d]
      BY <2>1, <2>5 DEF RemovedIds, GoneIds
    <3>2. /\ KnownIds' = [KnownIds EXCEPT ![d] = @ \cup {i}]
          /\ GoneIds' = [GoneIds EXCEPT ![d] = @ \cup {i}]
      BY <2>1, <2>3, <2>5, SetsAfter DEF EngineTypeOK
    <3>3. Ids!LearnRemoval(d, i)
      BY <2>2, <3>1, <3>2 DEF Ids!LearnRemoval, AddedIds, RemovedIds, KnownIds, GoneIds
    <3> QED BY <2>1, <3>3 DEF Ids!TPSNext
  <2>6. CASE new \in {"live", "suppressed"} /\ ~p.file.deleted /\ status[d][i] = "unknown"
    <3>1. i \in AddedIds \ KnownIds[d]
      BY <2>1, <2>6 DEF AddedIds, KnownIds
    <3>2. KnownIds' = [KnownIds EXCEPT ![d] = @ \cup {i}] /\ GoneIds' = GoneIds
      BY <2>1, <2>3, <2>6, SetsAfter DEF EngineTypeOK
    <3>3. Ids!Learn(d, i)
      BY <2>2, <3>1, <3>2 DEF Ids!Learn, AddedIds, RemovedIds, KnownIds, GoneIds
    <3> QED BY <2>1, <3>3 DEF Ids!TPSNext
  <2> QED BY <2>3, <2>4, <2>5, <2>6
<1> QED BY <1>1, FolderSteps, StepRefines DEF EngineTypeOK

LEMMA EngineBorne == EngineSpec => []Borne
<1>1. EngineInit => Borne
  BY DEF EngineInit, Init, Borne
<1>2. EngineTypeOK /\ Answers /\ Borne /\ [EngineNext]_engineVars => Borne'
  BY EngineStepBorne
<1> QED BY <1>1, <1>2, EngineInvariant, PTL DEF EngineSpec

(* Deletion is final on every device, whatever the user does between a      *)
(* decision and its execution.                                              *)
THEOREM EngineDeletesForGood == EngineSpec => EngineIsTwoPhaseSet
<1>1. EngineInit => Ids!TPSInit
  BY DEF EngineInit, Init, Ids!TPSInit
<1>2. EngineTypeOK /\ Answers /\ Borne /\ [EngineNext]_engineVars =>
        [Ids!TPSNext]_(Ids!tpsVars)
  BY EngineStepRefines
<1> QED BY <1>1, <1>2, EngineBorne, EngineInvariant, PTL
        DEF EngineSpec, EngineIsTwoPhaseSet, Ids!TPSSpec

----------------------------------------------------------------------------
(* A device's rows change at one record at a time, and a row is added       *)
(* beside a live row of the same content only if its insert is overtaken.   *)
LEMMA OvertakenRow ==
  ASSUME TypeOK, DuplicateOnlyIfOvertaken, NEW d \in Node, NEW k \in Id, NEW new \in Status,
         status' = [status EXCEPT ![d][k] = new],
         \A e \in Node : overtaken[e] \subseteq overtaken'[e],
         new = "live" /\ status[d][k] # "live" /\ k \notin overtaken[d] =>
           \A i \in Twins(k) : status[d][i] # "live"
  PROVE  DuplicateOnlyIfOvertaken'
<1> SUFFICES ASSUME NEW e \in Node, NEW i \in Id, NEW j \in Twins(i),
                    status'[e][i] = "live", status'[e][j] = "live",
                    i \notin overtaken[e], j \notin overtaken[e]
             PROVE  FALSE
  BY DEF DuplicateOnlyIfOvertaken
<1>1. \A c \in Node : \A h \in Id :
        status'[c][h] = IF c = d /\ h = k THEN new ELSE status[c][h]
  BY DEF TypeOK
<1>2. j \in Id /\ j # i /\ i \in Twins(j)
  BY TwinsSymmetric
<1>3. CASE e # d \/ (i # k /\ j # k)
  BY <1>1, <1>2, <1>3 DEF DuplicateOnlyIfOvertaken
<1>4. CASE e = d /\ i = k
  BY <1>1, <1>2, <1>4 DEF DuplicateOnlyIfOvertaken
<1>5. CASE e = d /\ j = k
  BY <1>1, <1>2, <1>5 DEF DuplicateOnlyIfOvertaken
<1> QED BY <1>3, <1>4, <1>5

LEMMA StepDuplicates ==
  ASSUME EngineTypeOK, Answers, DuplicateOnlyIfOvertaken, [EngineNext]_engineVars
  PROVE  DuplicateOnlyIfOvertaken'
<1>1. CASE UNCHANGED <<status, overtaken>>
  BY <1>1 DEF DuplicateOnlyIfOvertaken
<1>2. ASSUME NEW d \in Node, NEW i \in Id, UserCopies(d, i) \/ UserDeletes(d, i)
      PROVE  DuplicateOnlyIfOvertaken'
  <2>1. \A e \in Node : overtaken[e] \subseteq overtaken'[e]
    BY <1>2 DEF UserCopies, UserDeletes, EngineTypeOK
  <2>2. PICK new \in Status :
          /\ status' = [status EXCEPT ![d][i] = new]
          /\ new = "live" => \A j \in Twins(i) : status[d][j] # "live"
    BY <1>2 DEF UserCopies, UserDeletes, Copy, Delete, Status
  <2> QED BY <2>1, <2>2, OvertakenRow DEF EngineTypeOK
<1>3. ASSUME NEW d \in Node, NEW p \in pending[d], Execute(d, p)
      PROVE  DuplicateOnlyIfOvertaken'
  <2>1. p.file \in File /\ p.file.id \in Id /\ p.file.deleted \in BOOLEAN
    BY PendingTypes
  <2>2. PICK new \in Status :
          /\ status' = [status EXCEPT ![d][p.file.id] = new]
          /\ \/ new = status[d][p.file.id]
             \/ new = "deleted" /\ p.file.deleted
             \/ /\ new \in {"live", "suppressed"} /\ ~p.file.deleted
                /\ status[d][p.file.id] = "unknown"
                /\ new = "live" => p.action = "ApplyRemote"
    BY <1>3, ExecuteEffect
  <2>3. ASSUME new = "live", status[d][p.file.id] # "live", p.file.id \notin overtaken[d]
        PROVE  \A i \in Twins(p.file.id) : status[d][i] # "live"
    <3>1. /\ p.action = "ApplyRemote" /\ ~p.file.deleted /\ status[d][p.file.id] = "unknown"
          /\ p.action = MergeDecide(LocalStateOf(d, p.file), p.file.deleted, p.file.hlc)
      BY <2>2, <2>3 DEF Answers, Sound
    <3> QED BY <2>1, <3>1, Decision
  <2>4. overtaken' = overtaken
    BY <1>3 DEF Execute
  <2> QED BY <2>1, <2>2, <2>3, <2>4, OvertakenRow DEF EngineTypeOK
<1> QED BY <1>1, <1>2, <1>3
        DEF EngineNext, engineVars, vars, Elsewhere, Tick, Arrive, Consider, Lists, Pull,
            Interrupt, Crash

(* No device shows the same content twice, but where the user copied it     *)
(* while the insert of a record of that content was decided.                *)
THEOREM DuplicatesAreOvertaken == EngineSpec => []DuplicateOnlyIfOvertaken
<1>1. EngineInit => DuplicateOnlyIfOvertaken
  BY DEF EngineInit, Init, DuplicateOnlyIfOvertaken, Twins
<1>2. EngineTypeOK /\ Answers /\ DuplicateOnlyIfOvertaken /\ [EngineNext]_engineVars =>
        DuplicateOnlyIfOvertaken'
  BY StepDuplicates
<1> QED BY <1>1, <1>2, EngineInvariant, PTL DEF EngineSpec

----------------------------------------------------------------------------
LEMMA EngineStepWipes ==
  ASSUME EngineTypeOK, Answers, WipesStamped, CopiedOnce, [EngineNext]_engineVars
  PROVE  WipesStamped' /\ CopiedOnce'
<1>1. ASSUME NEW d \in Node, NEW p \in pending[d], Execute(d, p)
      PROVE  WipesStamped' /\ CopiedOnce'
  <2>1. p.file.id \in Id /\ files' = files
    BY <1>1, PendingTypes DEF Execute
  <2>2. PICK new \in Status, w \in Clock :
          /\ status' = [status EXCEPT ![d][p.file.id] = new]
          /\ wipe' = [wipe EXCEPT ![d][p.file.id] = w]
          /\ new = "deleted" => w \in Stamp \/ (w = wipe[d][p.file.id]
                                                 /\ status[d][p.file.id] = "deleted")
    BY <1>1, ExecuteEffect
  <2>3. \A e \in Node : \A i \in Id :
          /\ status'[e][i] = IF e = d /\ i = p.file.id THEN new ELSE status[e][i]
          /\ wipe'[e][i] = IF e = d /\ i = p.file.id THEN w ELSE wipe[e][i]
    BY <2>2 DEF EngineTypeOK, TypeOK
  <2>4. WipesStamped'
    BY <2>1, <2>2, <2>3 DEF WipesStamped
  <2> QED BY <2>1, <2>4 DEF CopiedOnce
<1> QED BY <1>1, FolderSteps, StepWipesStamped, StepCopiedOnce DEF EngineTypeOK

(* Every step that is not Execute and brings a listed record to life is     *)
(* none: the user copies under new ids.                                     *)
LEMMA OnlyExecuteRevives ==
  ASSUME EngineTypeOK, EngineNext, NEW d \in Node, NEW f \in todo[d],
         status[d][f.id] # "live", status'[d][f.id] = "live"
  PROVE  \E e \in Node : \E p \in pending[e] : Execute(e, p)
<1>1. f \in files /\ f.id \in Id
  BY DEF EngineTypeOK, TypeOK, File
<1>2. ASSUME NEW e \in Node, NEW i \in Id, UserCopies(e, i) PROVE FALSE
  <2>1. i # f.id
    BY <1>1, <1>2 DEF UserCopies, Copy
  <2> QED BY <2>1, <1>1, <1>2 DEF UserCopies, Copy, EngineTypeOK, TypeOK
<1>3. ASSUME NEW e \in Node, NEW i \in Id, UserDeletes(e, i) PROVE FALSE
  BY <1>1, <1>3 DEF UserDeletes, Delete, EngineTypeOK, TypeOK
<1> QED BY <1>2, <1>3 DEF EngineNext, Elsewhere, Tick, Arrive, Consider, Lists, Pull,
                          Interrupt, Crash, vars

(* A pull brings back no content that was deleted here later than the       *)
(* record was copied, unless the insert is overtaken.                       *)
THEOREM EngineWipesCover == EngineSpec => WipeCoversUnlessOvertaken
<1>1. EngineInit => WipesStamped /\ CopiedOnce
  BY DEF EngineInit, Init, WipesStamped, CopiedOnce
<1>2. EngineTypeOK /\ Answers /\ WipesStamped /\ CopiedOnce /\ [EngineNext]_engineVars =>
        (WipesStamped /\ CopiedOnce)'
  BY EngineStepWipes
<1>3. ASSUME EngineTypeOK, Answers, WipesStamped, CopiedOnce, EngineNext,
             NEW d \in Node, NEW f \in todo[d],
             status[d][f.id] # "live", status'[d][f.id] = "live",
             f.id \notin overtaken[d],
             NEW i \in Twins(f.id), status[d][i] = "deleted"
      PROVE  HlcLt(wipe[d][i], f.hlc)
  <2>1. f \in files /\ f.id \in Id
    BY <1>3 DEF EngineTypeOK, TypeOK, File
  <2>2. PICK e \in Node : \E p \in pending[e] : Execute(e, p)
    BY <1>3, OnlyExecuteRevives
  <2>3. PICK p \in pending[e] : Execute(e, p)
    BY <2>2
  <2>4. p.file \in files /\ p.file \in File /\ p.file.id \in Id /\ p.file.deleted \in BOOLEAN
    BY <1>3, PendingTypes
  <2>5. PICK new \in Status :
          /\ status' = [status EXCEPT ![e][p.file.id] = new]
          /\ \/ new = status[e][p.file.id]
             \/ new = "deleted" /\ p.file.deleted
             \/ /\ new \in {"live", "suppressed"} /\ ~p.file.deleted
                /\ status[e][p.file.id] = "unknown"
                /\ new = "live" => p.action = "ApplyRemote"
    BY <1>3, <2>3, ExecuteEffect
  <2>6. e = d /\ p.file.id = f.id /\ ~p.file.deleted /\ p.action = "ApplyRemote"
    BY <2>1, <2>4, <2>5, <1>3 DEF EngineTypeOK, TypeOK
  <2>7. /\ p.action = MergeDecide(LocalStateOf(d, p.file), p.file.deleted, p.file.hlc)
        /\ IsNext(d, p.file)
    BY <2>6, <1>3 DEF Answers, Sound
  <2>8. f = p.file
    <3>1. ~f.deleted
      BY <2>6, <2>7, <1>3 DEF IsNext
    <3> QED BY <2>1, <2>4, <2>6, <3>1, <1>3 DEF CopiedOnce
  <2> QED BY <2>4, <2>6, <2>7, <2>8, <1>3, InsertedIsLater DEF EngineTypeOK
<1>4. EngineTypeOK /\ Answers /\ WipesStamped /\ CopiedOnce /\ [EngineNext]_engineVars =>
        [\A d \in Node : \A f \in todo[d] :
           status[d][f.id] # "live" /\ status'[d][f.id] = "live" =>
             f.id \in overtaken[d] \/
             \A i \in Twins(f.id) :
               status[d][i] = "deleted" => HlcLt(wipe[d][i], f.hlc)]_engineVars
  BY <1>3
<1> QED BY <1>1, <1>2, <1>4, EngineInvariant, PTL DEF EngineSpec, WipeCoversUnlessOvertaken

============================================================================
