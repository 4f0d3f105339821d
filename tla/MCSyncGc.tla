------------------------------ MODULE MCSyncGc ------------------------------
(* Two devices, one of which keeps up; the other's clock is ahead.  The    *)
(* retention period outlasts the stale window by what DelayAssumption asks *)
(* for and not a second more.                                              *)
EXTENDS SyncGc

MCDevice == {1, 2}
MCKeepsUp == {1}
MCOffset == [d \in MCDevice |-> d - 1]

ASSUME DelayAssumption == VisibleInTime /\ ClocksInRange

============================================================================
