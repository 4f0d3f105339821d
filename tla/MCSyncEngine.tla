---------------------------- MODULE MCSyncEngine ----------------------------
(* Two devices and three interchangeable records of the same content. *)
EXTENDS SyncEngine, TLC

MCMinWall == -1
MCNode == {1, 2}
MCHash == {"h"}
MCSameHash == [i \in Id |-> "h"]
MCNoSkew == [d \in MCNode |-> 0]
MCSymmetry == Permutations(Id)

============================================================================
