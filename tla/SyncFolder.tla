----------------------------- MODULE SyncFolder -----------------------------
(***************************************************************************)
(* Devices that sync clips through one vault folder.  The folder holds     *)
(* records/{id} and tombs/{id} files; each device sees them when the       *)
(* provider delivers them, in any order and after any delay.  A device     *)
(* pulls by listing what it sees, minus what its `syncApplied` table has,  *)
(* and asks `merge_decide` about each file, tombstones first.  The rules   *)
(* are those of MergeRules and Hlc; the engine that runs them is outside   *)
(* the core and is modelled from what the core says of it.                 *)
(***************************************************************************)
EXTENDS MergeRules, FiniteSets

CONSTANTS
  Id,           \* record ids
  Hash,         \* sync_hashes: equal for equal content
  SyncHash,     \* SyncHash[i]: the sync_hash of record i's content
  Skew,         \* Skew[d]: how far d's physical clock is ahead
  MaxNow,       \* bound: the last instant of time
  MaxCrashes    \* bound: how many pull sessions are interrupted

ASSUME SyncHashAssumption == SyncHash \in [Id -> Hash]
ASSUME SkewAssumption ==
  /\ MaxNow \in Nat /\ MaxCrashes \in Nat
  /\ Skew \in [Node -> Int]
  /\ \A d \in Node : \A t \in 0 .. MaxNow : t + Skew[d] \in Wall

(* What a device holds about a record: nothing; a live row; an entry in    *)
(* `syncApplied` without a row; an entry in `syncApplied` that is deleted. *)
Status == {"unknown", "live", "suppressed", "deleted"}

File == [id : Id, deleted : BOOLEAN, hlc : Stamp]

VARIABLES
  now,          \* real time
  clk,          \* clk[d]: d's hybrid logical clock
  files,        \* the envelopes ever published in the folder
  arrived,      \* arrived[d]: those the provider has delivered to d
  todo,         \* todo[d]: those of d's current listing still to process
  status,       \* status[d][i]: what d holds about record i
  wipe,         \* wipe[d][i]: the stamp of the tombstone d recorded for i
  crashes       \* how many pull sessions were interrupted

vars == <<now, clk, files, arrived, todo, status, wipe, crashes>>

Init ==
  /\ now = 0
  /\ clk = [d \in Node |-> NoStamp]
  /\ files = {}
  /\ arrived = [d \in Node |-> {}]
  /\ todo = [d \in Node |-> {}]
  /\ status = [d \in Node |-> [i \in Id |-> "unknown"]]
  /\ wipe = [d \in Node |-> [i \in Id |-> NoStamp]]
  /\ crashes = 0

Phys(d) == now + Skew[d]

(* The other records with the content of record i. *)
Twins(i) == {j \in Id \ {i} : SyncHash[j] = SyncHash[i]}

(* Mutant: the lookup returns the first tombstone instead of the newest. *)
Newest_Oldest(stamps) ==
  IF stamps = {} THEN NoStamp
  ELSE CHOOSE s \in stamps : \A t \in stamps : HlcLeq(s, t)

Newest(stamps) ==
  IF stamps = {} THEN NoStamp
  ELSE CHOOSE s \in stamps : \A t \in stamps : HlcLeq(t, s)

(* The LocalState the shell builds for a file, from `syncApplied` and from *)
(* sync_hash lookups over live rows and over tombstoned entries.           *)
LocalStateOf(d, f) ==
  [applied             |-> status[d][f.id] # "unknown",
   appliedDeleted      |-> status[d][f.id] = "deleted",
   liveDuplicate       |-> \E i \in Twins(f.id) : status[d][i] = "live",
   tombstonedDuplicate |->
     Newest({wipe[d][i] : i \in {j \in Twins(f.id) : status[d][j] = "deleted"}})]

(* Stamp with `hlc_next` and write the file; the writer sees its own file. *)
Publish(d, i, deleted) ==
  LET s == HlcNext(clk[d], Phys(d), d)
      f == [id |-> i, deleted |-> deleted, hlc |-> s]
  IN  /\ clk[d] # NoStamp => clk[d].wall < MaxWall
      /\ clk' = [clk EXCEPT ![d] = s]
      /\ files' = files \cup {f}
      /\ arrived' = [arrived EXCEPT ![d] = @ \cup {f}]

(* The user copies content that has no live row here; content that has one *)
(* only moves to the top of the list, which is local.                      *)
Copy(d, i) ==
  /\ \A f \in files : f.id # i
  /\ \A j \in Twins(i) : status[d][j] # "live"
  /\ Publish(d, i, FALSE)
  /\ status' = [status EXCEPT ![d][i] = "live"]
  /\ UNCHANGED <<now, todo, wipe, crashes>>

(* The user deletes a clip: its row goes and a tombstone is published. *)
Delete(d, i) ==
  /\ status[d][i] = "live"
  /\ Publish(d, i, TRUE)
  /\ status' = [status EXCEPT ![d][i] = "deleted"]
  /\ wipe' = [wipe EXCEPT ![d][i] = clk'[d]]
  /\ UNCHANGED <<now, todo, crashes>>

(* The provider delivers a file to a device. *)
Arrive(d, f) ==
  /\ f \in files \ arrived[d]
  /\ arrived' = [arrived EXCEPT ![d] = @ \cup {f}]
  /\ UNCHANGED <<now, clk, files, todo, status, wipe, crashes>>

(* The filename-set difference between the folder and `syncApplied`. *)
Unapplied(d) ==
  {f \in arrived[d] :
     IF f.deleted THEN status[d][f.id] # "deleted" ELSE status[d][f.id] = "unknown"}

(* A pull session begins: list the folder. *)
Pull(d) ==
  /\ todo[d] = {} /\ Unapplied(d) # {}
  /\ todo' = [todo EXCEPT ![d] = Unapplied(d)]
  /\ UNCHANGED <<now, clk, files, arrived, status, wipe, crashes>>

(* Tombstones of a listing are processed before its live records. *)
IsNext(d, f) == f \in todo[d] /\ (f.deleted \/ \A g \in todo[d] : ~g.deleted)

(* What executing a decision leaves in `syncApplied`. *)
Outcome(action, old) ==
  CASE action = "ApplyRemote" -> "live"
    [] action = "SkipDuplicateContent" -> "suppressed"
    [] action \in {"ApplyTombstone", "RecordTombstoneOnly"} -> "deleted"
    [] action = "Skip" -> old

(* Merge the stamp, decide, execute the decision and mark the file applied. *)
Process(d, f) ==
  LET action == MergeDecide(LocalStateOf(d, f), f.deleted, f.hlc) IN
  /\ IsNext(d, f)
  /\ todo' = [todo EXCEPT ![d] = @ \ {f}]
  /\ clk' = [clk EXCEPT ![d] = HlcReceive(clk[d], f.hlc, Phys(d), d)]
  /\ status' = [status EXCEPT ![d][f.id] = Outcome(action, @)]
  /\ wipe' = [wipe EXCEPT ![d][f.id] =
                IF action \in {"ApplyTombstone", "RecordTombstoneOnly"} THEN f.hlc ELSE @]
  /\ UNCHANGED <<now, files, arrived, crashes>>

(* Mutant: the listing is marked applied before it is processed. *)
Crash_MarksListed(d) ==
  /\ todo[d] # {} /\ crashes < MaxCrashes
  /\ todo' = [todo EXCEPT ![d] = {}]
  /\ status' = [status EXCEPT ![d] =
                  [i \in Id |-> IF @[i] = "unknown" /\ \E f \in todo[d] : f.id = i
                                THEN "suppressed" ELSE @[i]]]
  /\ crashes' = crashes + 1
  /\ UNCHANGED <<now, clk, files, arrived, wipe>>

(* The session is interrupted: what it has not processed waits for the next. *)
Crash(d) ==
  /\ todo[d] # {} /\ crashes < MaxCrashes
  /\ todo' = [todo EXCEPT ![d] = {}]
  /\ crashes' = crashes + 1
  /\ UNCHANGED <<now, clk, files, arrived, status, wipe>>

Tick ==
  /\ now < MaxNow
  /\ now' = now + 1
  /\ UNCHANGED <<clk, files, arrived, todo, status, wipe, crashes>>

Next ==
  \/ Tick
  \/ \E d \in Node :
       \/ \E i \in Id : Copy(d, i) \/ Delete(d, i)
       \/ \E f \in files : Arrive(d, f) \/ Process(d, f)
       \/ Pull(d)
       \/ Crash(d)

Spec == Init /\ [][Next]_vars

(* The provider delivers every file in the end and the shell keeps pulling *)
(* and finishes its sessions.  The user owes nothing.                      *)
Fairness ==
  \A d \in Node :
    /\ WF_vars(\E f \in files : Arrive(d, f))
    /\ WF_vars(Pull(d))
    /\ WF_vars(\E f \in files : Process(d, f))

FairSpec == Spec /\ Fairness

----------------------------------------------------------------------------
(* The types; a listing holds delivered files only. *)
TypeOK ==
  /\ now \in 0 .. MaxNow
  /\ clk \in [Node -> Clock]
  /\ files \subseteq File
  /\ arrived \in [Node -> SUBSET files]
  /\ todo \in [Node -> SUBSET files]
  /\ \A d \in Node : todo[d] \subseteq arrived[d]
  /\ status \in [Node -> [Id -> Status]]
  /\ wipe \in [Node -> [Id -> Clock]]
  /\ crashes \in 0 .. MaxCrashes

(* A device never shows the same content twice: dedupe suppresses the      *)
(* second insert however copies on several devices and pulls interleave.   *)
OneLivePerContent ==
  \A d \in Node : \A i \in Id :
    status[d][i] = "live" => \A j \in Twins(i) : status[d][j] # "live"

(* d has been delivered the tombstone of record i and does not show i; and *)
(* no session is under way whose listing, made before, has i without it.   *)
Withheld(d, i) ==
  /\ status[d][i] # "live"
  /\ \E g \in arrived[d] : g.deleted /\ g.id = i
  /\ status[d][i] = "deleted" \/
       ((\E f \in todo[d] : f.id = i) => \E g \in todo[d] : g.deleted /\ g.id = i)

(* A record withheld for its tombstone is never shown again, not for a     *)
(* moment: not by the session that lists both, nor once the tombstone is   *)
(* processed, even if there was no record to delete, nor after a session   *)
(* interrupted before it came to the tombstone, nor when a file of the     *)
(* record arrives late ("Tombstones are processed BEFORE live records",    *)
(* "can never resurrect it").                                              *)
NoFlicker == [][\A d \in Node : \A i \in Id : Withheld(d, i) => Withheld(d, i)']_vars

(* A copy made after a device applied the tombstone of the same content    *)
(* carries a later stamp than that tombstone, so no device takes it to be  *)
(* covered by the wipe.  Clocks at most the drift window apart.            *)
RecopyOutranksWipe ==
  [][\A f \in files' \ files : ~f.deleted =>
       \A i \in Twins(f.id) :
         wipe[f.hlc.node][i] # NoStamp => HlcLt(wipe[f.hlc.node][i], f.hlc)]_vars

(* A record that a pull brings to life is later than every wipe of its     *)
(* content that the device knows of, however many there were: a file that  *)
(* was on its way when the content was deleted does not bring it back.     *)
WipeCoversOlderCopies ==
  [][\A d \in Node : \A f \in todo[d] :
       status[d][f.id] # "live" /\ status'[d][f.id] = "live" =>
         \A i \in Twins(f.id) :
           status[d][i] = "deleted" => HlcLt(wipe[d][i], f.hlc)]_vars

(* Nothing is on its way and every device has applied all it received. *)
Settled ==
  \A d \in Node : arrived[d] = files /\ todo[d] = {} /\ Unapplied(d) = {}

Shows(d, h) == \E i \in Id : SyncHash[i] = h /\ status[d][i] = "live"

Tombstoned(h) == \E f \in files : f.deleted /\ SyncHash[f.id] = h

(* Once the folder has settled, the devices show the same content, deleted *)
(* content aside.                                                          *)
SettledDevicesAgree ==
  Settled => \A h \in Hash : Tombstoned(h) \/
                \A d, e \in Node : Shows(d, h) => Shows(e, h)

(* Every device ends up with a deleted record deleted, and it stays so,    *)
(* whatever the order in which the record and its tombstones arrive.       *)
DeletionReachesAll ==
  \A i \in Id :
    (\E f \in files : f.deleted /\ f.id = i)
      ~> [](\A d \in Node : status[d][i] = "deleted")

(* Content that nobody deletes is shown by every device in the end. *)
CopyReachesAll ==
  \A h \in Hash :
    (\E f \in files : SyncHash[f.id] = h)
      ~> (Tombstoned(h) \/ \A d \in Node : Shows(d, h))

(* Read as sets of ids, the devices implement a replicated set with        *)
(* removal for good: no interleaving of copies, deletions, deliveries and  *)
(* interrupted sessions brings a deleted id back or invents a deletion     *)
(* ("the ONLY update is a tombstone", "a tombstone always wins").          *)
Ids == INSTANCE TwoPhaseSet WITH
  Replica <- Node, Element <- Id,
  added   <- {f.id : f \in {g \in files : ~g.deleted}},
  removed <- {f.id : f \in {g \in files : g.deleted}},
  known   <- [d \in Node |-> {i \in Id : status[d][i] # "unknown"}],
  gone    <- [d \in Node |-> {i \in Id : status[d][i] = "deleted"}]

IsTwoPhaseSet == Ids!TPSSpec

----------------------------------------------------------------------------
(* Two statements of the core's documentation that do not hold: see the    *)
(* findings.                                                               *)

(* "A re-copy survives as a NEW record": once a copy is published that is  *)
(* later than every tombstone of its content, it is shown everywhere in    *)
(* the end, unless the content is wiped again.                             *)
Outranks(f) ==
  \A g \in files : g.deleted /\ SyncHash[g.id] = SyncHash[f.id] => HlcLt(g.hlc, f.hlc)

RecopySurvives ==
  \A h \in Hash :
    (\E f \in files : ~f.deleted /\ SyncHash[f.id] = h /\ Outranks(f))
      ~> ((\A d \in Node : Shows(d, h)) \/
          ~ \E f \in files : ~f.deleted /\ SyncHash[f.id] = h /\ Outranks(f))

(* The devices converge: once the folder has settled they show the same. *)
DevicesConverge ==
  Settled => \A h \in Hash : \A d, e \in Node : Shows(d, h) => Shows(e, h)

============================================================================
