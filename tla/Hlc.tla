-------------------------------- MODULE Hlc --------------------------------
(***************************************************************************)
(* Hybrid logical clock stamps: crates/clipy-si-core/src/sync/mod.rs,      *)
(* `hlc_compare`, `hlc_next` and `hlc_receive`, and the `Hlc` struct of    *)
(* record/mod.rs.  A node (a UUID) is compared by its bytes, so nodes are  *)
(* numbers here.  The widths of the fields are constants: MinWall and      *)
(* MaxWall stand for i64::MIN and i64::MAX, MaxCounter for u32::MAX, and   *)
(* sums that leave them saturate as the code's do.                         *)
(***************************************************************************)
EXTENDS Integers

CONSTANTS
  MinWall,      \* least wall_millis
  MaxWall,      \* greatest wall_millis
  MaxCounter,   \* greatest counter
  MaxDrift,     \* MAX_DRIFT_MILLIS
  MaxNode,      \* greatest node, all bits of the UUID set
  Node,         \* the nodes (device ids) that stamp
  NoStamp       \* the absent clock: Option::None

ASSUME WidthAssumption ==
  /\ MinWall \in Int /\ MaxWall \in Int /\ MinWall < MaxWall
  /\ MaxCounter \in Nat /\ MaxDrift \in Nat
ASSUME NodeAssumption == MaxNode \in Nat /\ Node \subseteq 0 .. MaxNode

Wall == MinWall .. MaxWall

Stamp == [wall : Wall, counter : 0 .. MaxCounter, node : Node]

ASSUME NoStampAssumption == NoStamp \notin Stamp

(* A device's clock: the last stamp it issued or merged, if any. *)
Clock == Stamp \cup {NoStamp}

Larger(a, b) == IF a >= b THEN a ELSE b
Smaller(a, b) == IF a <= b THEN a ELSE b

(* i64::saturating_add of a non-negative amount. *)
SatAdd(a, n) == Smaller(a + n, MaxWall)

(* hlc_compare(a, b) == Less: wall, then counter, then node. *)
HlcLt(a, b) ==
  \/ a.wall < b.wall
  \/ a.wall = b.wall /\ a.counter < b.counter
  \/ a.wall = b.wall /\ a.counter = b.counter /\ a.node < b.node

HlcLeq(a, b) == HlcLt(a, b) \/ a = b

(* Mutant: a physical clock that stepped back is believed. *)
HlcNext_FollowsClock(prev, now, node) ==
  IF prev = NoStamp \/ now # prev.wall
  THEN [wall |-> now, counter |-> 0, node |-> node]
  ELSE IF prev.counter < MaxCounter
       THEN [wall |-> prev.wall, counter |-> prev.counter + 1, node |-> node]
       ELSE [wall |-> SatAdd(prev.wall, 1), counter |-> 0, node |-> node]

(* The stamp issued after clock `prev` when the physical clock shows `now`. *)
HlcNext(prev, now, node) ==
  IF prev = NoStamp \/ now > prev.wall
  THEN [wall |-> now, counter |-> 0, node |-> node]
  ELSE IF prev.counter < MaxCounter
       THEN [wall |-> prev.wall, counter |-> prev.counter + 1, node |-> node]
       ELSE [wall |-> SatAdd(prev.wall, 1), counter |-> 0, node |-> node]

(* Mutant: the remote wall is taken as it is. *)
ClampedWall_Unclamped(remote, now) == remote.wall

(* The wall a receiver credits a remote stamp with: at most now + MaxDrift. *)
ClampedWall(remote, now) == Smaller(remote.wall, SatAdd(now, MaxDrift))

(* Mutant: the remote counter is forgotten. *)
MergedCounter_LocalOnly(local, remote, remoteWall, wall) ==
  IF local # NoStamp /\ local.wall = wall
  THEN Smaller(local.counter + 1, MaxCounter) ELSE 0

(* The counter after a merge into `wall`: of the two counters, those whose *)
(* wall is the merged one take part; the greatest is incremented.          *)
MergedCounter(local, remote, remoteWall, wall) ==
  LET fromLocal  == IF local # NoStamp /\ local.wall = wall
                    THEN local.counter + 1 ELSE 0
      fromRemote == IF remoteWall = wall THEN remote.counter + 1 ELSE 0
  IN  Smaller(Larger(fromLocal, fromRemote), MaxCounter)

(* The local clock after receiving `remote`. *)
HlcReceive(local, remote, now, node) ==
  LET remoteWall == ClampedWall(remote, now)
      localWall  == IF local = NoStamp THEN MinWall ELSE local.wall
      wall       == Larger(Larger(localWall, remoteWall), now)
  IN  [wall    |-> wall,
       counter |-> MergedCounter(local, remote, remoteWall, wall),
       node    |-> node]

============================================================================
