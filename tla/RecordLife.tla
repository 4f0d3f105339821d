----------------------------- MODULE RecordLife -----------------------------
(***************************************************************************)
(* What tombstones, their collection and the stale rejoin together promise *)
(* about one record, whatever the clocks show and whoever is away: the     *)
(* record is on the shelf until somebody deletes it, then it is marked as  *)
(* deleted, and the mark is taken away only when no device that keeps up   *)
(* still has the record.  From then on the shelf stays empty.              *)
(***************************************************************************)
CONSTANTS
  Holder,   \* the devices that have the record at first
  Keeper    \* those of them that keep up

VARIABLES
  shelf,    \* what is published: the record, its tombstone or nothing
  deleted,  \* a user deleted the record
  holders   \* the devices that have the record as a live row

lifeVars == <<shelf, deleted, holders>>

LifeInit == shelf = "record" /\ deleted = FALSE /\ holders = Holder

Remove(d) ==
  /\ ~deleted /\ deleted' = TRUE
  /\ shelf' = "tomb"
  /\ d \in holders /\ holders' = holders \ {d}

(* A record nobody deleted may get lost, and is published again. *)
Misplace == ~deleted /\ shelf = "record" /\ shelf' = "nothing" /\ UNCHANGED <<deleted, holders>>

Restore == ~deleted /\ shelf = "nothing" /\ shelf' = "record" /\ UNCHANGED <<deleted, holders>>

(* A device learns of the deletion or, not having kept up, gives in. *)
GiveUp(d) ==
  /\ deleted \/ d \notin Keeper
  /\ d \in holders /\ holders' = holders \ {d}
  /\ UNCHANGED <<shelf, deleted>>

(* The mark goes; the device that takes it away has let the record go. *)
Clear(d) ==
  /\ shelf = "tomb" /\ shelf' = "nothing"
  /\ holders' = holders \ {d} /\ holders' \cap Keeper = {}
  /\ UNCHANGED deleted

LifeNext ==
  \/ Misplace \/ Restore
  \/ \E d \in Holder : Remove(d) \/ GiveUp(d) \/ Clear(d)

LifeSpec == LifeInit /\ [][LifeNext]_lifeVars

============================================================================
