---------------------------- MODULE MCSyncGcLate ----------------------------
(* Clocks that agree and the code's own periods, in units of five days:    *)
(* retention 7 (35 days), stale window 6 (30 days).  The folder may show a *)
(* change three units late.                                                *)
EXTENDS SyncGc

MCDevice == {1, 2}
MCOffset == [d \in MCDevice |-> 0]

============================================================================
