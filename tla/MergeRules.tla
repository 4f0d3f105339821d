----------------------------- MODULE MergeRules -----------------------------
(***************************************************************************)
(* What to do with one incoming envelope: `LocalState`, `MergeAction` and  *)
(* `merge_decide` of crates/clipy-si-core/src/sync/mod.rs.                 *)
(***************************************************************************)
EXTENDS Hlc

MergeAction ==
  {"ApplyRemote", "ApplyTombstone", "RecordTombstoneOnly", "Skip",
   "SkipDuplicateContent"}

(* The shell's summary of what it holds about an incoming record id: is it *)
(* in `syncApplied`, and there as deleted; does another record with the    *)
(* same sync_hash live here; the newest tombstone of such a record.        *)
LocalState ==
  [applied : BOOLEAN, appliedDeleted : BOOLEAN,
   liveDuplicate : BOOLEAN, tombstonedDuplicate : Clock]

(* The wipe of identical content covers a record captured before or at it. *)
CoveredByWipe(local, hlc) ==
  local.tombstonedDuplicate # NoStamp /\ ~HlcLt(local.tombstonedDuplicate, hlc)

(* Mutant: live rows with the same content are not looked up. *)
Suppressed_WipeOnly(local, hlc) == CoveredByWipe(local, hlc)

(* Mutant: the lookup of live rows is negated. *)
Suppressed_Inverted(local, hlc) == CoveredByWipe(local, hlc) \/ ~local.liveDuplicate

(* An unknown live record is not inserted beside identical content. *)
Suppressed(local, hlc) == CoveredByWipe(local, hlc) \/ local.liveDuplicate

(* Mutant: known records never change, deletion included. *)
KnownAction_Immutable(local, deleted) == "Skip"

(* Mutant: the live file of a deleted record is applied. *)
KnownAction_Reopens(local, deleted) ==
  IF deleted = local.appliedDeleted THEN "Skip"
  ELSE IF deleted THEN "ApplyTombstone" ELSE "ApplyRemote"

(* A known record's only update is its deletion; deletion is final. *)
KnownAction(local, deleted) ==
  IF deleted /\ ~local.appliedDeleted THEN "ApplyTombstone" ELSE "Skip"

(* Mutant: there is nothing to delete, so the tombstone is passed over. *)
UnknownAction_NoRecord(local, deleted, hlc) ==
  IF deleted \/ Suppressed(local, hlc) THEN "Skip" ELSE "ApplyRemote"

UnknownAction(local, deleted, hlc) ==
  IF deleted THEN "RecordTombstoneOnly"
  ELSE IF Suppressed(local, hlc) THEN "SkipDuplicateContent" ELSE "ApplyRemote"

MergeDecide(local, deleted, hlc) ==
  IF local.applied THEN KnownAction(local, deleted)
  ELSE UnknownAction(local, deleted, hlc)

============================================================================
