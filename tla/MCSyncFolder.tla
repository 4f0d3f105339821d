---------------------------- MODULE MCSyncFolder ----------------------------
(* Two devices and two records of the same content: the case the rules are *)
(* about.                                                                  *)
EXTENDS SyncFolder

MCMinWall == -1
MCNode == {1, 2}
MCHash == {"h"}
MCSameHash == [i \in Id |-> "h"]

(* Physical clocks that agree, that are one drift window apart, two apart. *)
MCNoSkew == [d \in MCNode |-> 0]
MCSkew == [d \in MCNode |-> d - 1]
MCFarSkew == [d \in MCNode |-> 2 * (d - 1)]

============================================================================
