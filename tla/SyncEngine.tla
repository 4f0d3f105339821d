----------------------------- MODULE SyncEngine -----------------------------
(***************************************************************************)
(* The pull of SyncFolder with its decision and its execution apart: the   *)
(* shell takes a summary of its tables (`LocalState`), asks `merge_decide` *)
(* and executes the answer (`MergeAction`) later, while the user goes on   *)
(* copying and deleting.  Nothing is asked again, so the answer may be     *)
(* about tables that are no longer so.  `merge_decide` is the core's; when *)
(* the summary is taken and the answer executed is the shell's.            *)
(***************************************************************************)
EXTENDS SyncFolder

CONSTANT MaxFiles   \* bound: how many files the devices publish

ASSUME MaxFilesAssumption == MaxFiles \in Nat

VARIABLES
  pending,      \* pending[d]: the answer d has and has not executed, if any
  overtaken     \* overtaken[d]: records decided before a copy or a deletion
                \* of their content here, and executed, if at all, after it

engineVars == <<vars, pending, overtaken>>

EngineInit ==
  /\ Init
  /\ pending = [d \in Node |-> {}]
  /\ overtaken = [d \in Node |-> {}]

(* The records whose answer a change of record i's content overtakes. *)
Overtakes(d, i) == {p.file.id : p \in {q \in pending[d] : SyncHash[q.file.id] = SyncHash[i]}}

(* What the user does does not wait for the pull. *)
UserCopies(d, i) ==
  /\ Cardinality(files) < MaxFiles
  /\ Copy(d, i)
  /\ overtaken' = [overtaken EXCEPT ![d] = @ \cup Overtakes(d, i)]
  /\ UNCHANGED pending

UserDeletes(d, i) ==
  /\ Cardinality(files) < MaxFiles
  /\ Delete(d, i)
  /\ overtaken' = [overtaken EXCEPT ![d] = @ \cup Overtakes(d, i)]
  /\ UNCHANGED pending

(* Mutant: the whole listing is asked about before anything is executed. *)
Consider_Batch(d, f) ==
  /\ IsNext(d, f) /\ \A p \in pending[d] : p.file # f
  /\ pending' = [pending EXCEPT ![d] = @ \cup
       {[file |-> f, action |-> MergeDecide(LocalStateOf(d, f), f.deleted, f.hlc)]}]
  /\ UNCHANGED <<vars, overtaken>>

(* Summarise the tables, ask, and keep the answer. *)
Consider(d, f) ==
  /\ pending[d] = {} /\ IsNext(d, f)
  /\ pending' = [pending EXCEPT ![d] =
       {[file |-> f, action |-> MergeDecide(LocalStateOf(d, f), f.deleted, f.hlc)]}]
  /\ UNCHANGED <<vars, overtaken>>

(* Execute the answer: the tables, the clock, and the file is applied. *)
Execute(d, p) ==
  LET f == p.file IN
  /\ pending' = [pending EXCEPT ![d] = @ \ {p}]
  /\ todo' = [todo EXCEPT ![d] = @ \ {f}]
  /\ clk' = [clk EXCEPT ![d] = HlcReceive(clk[d], f.hlc, Phys(d), d)]
  /\ status' = [status EXCEPT ![d][f.id] = Outcome(p.action, @)]
  /\ wipe' = [wipe EXCEPT ![d][f.id] =
                IF p.action \in {"ApplyTombstone", "RecordTombstoneOnly"} THEN f.hlc ELSE @]
  /\ UNCHANGED <<now, files, arrived, crashes, overtaken>>

(* An interrupted session forgets the answer it had. *)
Interrupt(d) ==
  /\ Crash(d)
  /\ pending' = [pending EXCEPT ![d] = {}]
  /\ UNCHANGED overtaken

(* A session begins with a listing. *)
Lists(d) == Pull(d) /\ UNCHANGED <<pending, overtaken>>

(* Time and the provider know nothing of what the engine has decided. *)
Elsewhere ==
  /\ Tick \/ \E d \in Node : \E f \in files : Arrive(d, f)
  /\ UNCHANGED <<pending, overtaken>>

EngineNext ==
  \/ Elsewhere
  \/ \E d \in Node :
       \/ \E i \in Id : UserCopies(d, i) \/ UserDeletes(d, i)
       \/ \E f \in files : Consider(d, f)
       \/ Lists(d)
       \/ \E p \in pending[d] : Execute(d, p)
       \/ Interrupt(d)

EngineSpec == EngineInit /\ [][EngineNext]_engineVars

----------------------------------------------------------------------------
(* The types; an answer is about a file of the listing under way. *)
EngineTypeOK ==
  /\ TypeOK
  /\ pending \in [Node -> SUBSET [file : File, action : MergeAction]]
  /\ \A d \in Node : \A p, q \in pending[d] : p = q /\ p.file \in todo[d]
  /\ overtaken \in [Node -> SUBSET Id]

(* Where no copy and no deletion of the same content came in between, an   *)
(* answer kept and executed later does what deciding and executing at once *)
(* does, whatever else happened meanwhile: every step is one of SyncFolder *)
(* or changes none of its variables.                                       *)
AtomicUnlessOvertaken ==
  [][(\A d \in Node : overtaken'[d] = {}) => [Next]_vars]_engineVars

(* A device shows the same content twice only when the user copied it      *)
(* while the insert of one of the two was decided and not yet executed.    *)
DuplicateOnlyIfOvertaken ==
  \A d \in Node : \A i \in Id : \A j \in Twins(i) :
    status[d][i] = "live" /\ status[d][j] = "live" =>
      i \in overtaken[d] \/ j \in overtaken[d]

(* A record that a pull brings to life is later than every wipe of its     *)
(* content that the device knows of, however many there were, unless the   *)
(* user changed that content while the insert was decided: a file that was *)
(* on its way when the content was deleted does not bring it back.         *)
WipeCoversUnlessOvertaken ==
  [][\A d \in Node : \A f \in todo[d] :
       status[d][f.id] # "live" /\ status'[d][f.id] = "live" =>
         f.id \in overtaken[d] \/
         \A i \in Twins(f.id) :
           status[d][i] = "deleted" => HlcLt(wipe[d][i], f.hlc)]_engineVars

(* Deletion is final even when answers are overtaken: no answer, however   *)
(* old, brings a deleted record back or makes a deletion up.               *)
EngineIsTwoPhaseSet == Ids!TPSSpec

============================================================================
