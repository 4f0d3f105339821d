----------------------------- MODULE TwoPhaseSet -----------------------------
(***************************************************************************)
(* What the vault promises about record ids, whatever files arrive where   *)
(* and when: a replicated set whose elements are added once and removed    *)
(* once.  A replica learns additions and removals in any order, and what   *)
(* it knows to be removed never comes back ("the ONLY update is a          *)
(* tombstone", crates/clipy-si-core/src/sync/mod.rs).                      *)
(***************************************************************************)
CONSTANTS Replica, Element

VARIABLES
  added,        \* elements added anywhere
  removed,      \* elements removed anywhere
  known,        \* known[r]: elements replica r has heard of
  gone          \* gone[r]: elements replica r knows to be removed

tpsVars == <<added, removed, known, gone>>

TPSInit ==
  /\ added = {} /\ removed = {}
  /\ known = [r \in Replica |-> {}]
  /\ gone = [r \in Replica |-> {}]

Add(r, x) ==
  /\ x \notin added
  /\ added' = added \cup {x}
  /\ known' = [known EXCEPT ![r] = @ \cup {x}]
  /\ UNCHANGED <<removed, gone>>

(* A replica removes what it knows and has not seen removed; another may   *)
(* have removed it already.                                                *)
Remove(r, x) ==
  /\ x \in known[r] \ gone[r]
  /\ removed' = removed \cup {x}
  /\ gone' = [gone EXCEPT ![r] = @ \cup {x}]
  /\ UNCHANGED <<added, known>>

Learn(r, x) ==
  /\ x \in added \ known[r]
  /\ known' = [known EXCEPT ![r] = @ \cup {x}]
  /\ UNCHANGED <<added, removed, gone>>

LearnRemoval(r, x) ==
  /\ x \in removed \ gone[r]
  /\ known' = [known EXCEPT ![r] = @ \cup {x}]
  /\ gone' = [gone EXCEPT ![r] = @ \cup {x}]
  /\ UNCHANGED <<added, removed>>

TPSNext ==
  \E r \in Replica, x \in Element :
    Add(r, x) \/ Remove(r, x) \/ Learn(r, x) \/ LearnRemoval(r, x)

TPSSpec == TPSInit /\ [][TPSNext]_tpsVars

============================================================================
