----------------------------- MODULE MCHlcClock -----------------------------
(* Two devices whose physical clocks can be further apart than the drift   *)
(* window, and a counter that overflows at its second increment.           *)
EXTENDS HlcClock

MCMinWall == -1
MCNode == {1, 2}
MCPhysRange == {0, 1, 3}

============================================================================
