------------------------------ MODULE HlcClock ------------------------------
(***************************************************************************)
(* The clocks of the devices that share a vault.  A device stamps with     *)
(* `hlc_next` before it publishes and merges the stamps it reads with      *)
(* `hlc_receive`; its physical clock may be set forwards or backwards at   *)
(* any time.  The shell keeps the clock, that is, it stores what either    *)
(* function returns and passes it to the next call.                        *)
(***************************************************************************)
EXTENDS Hlc, Sequences

CONSTANTS
  PhysRange,    \* the readings (unix ms) a physical clock can show
  MaxIssues     \* bound: the stamps each device issues

ASSUME PhysAssumption == PhysRange \subseteq Wall
ASSUME MaxIssuesAssumption == MaxIssues \in Nat

VARIABLES
  phys,         \* phys[d]: what d's physical clock shows (`now_millis`)
  clk,          \* clk[d]: d's hybrid logical clock
  issued,       \* issued[d]: the stamps d has published, in order
  heard,        \* heard[d]: the stamps d received within its drift window
  peak,         \* peak[d]: the greatest reading d's physical clock has shown
  rolls,        \* rolls[d]: how often d's counter overflowed into the wall
  spent         \* spent[d]: d stamped although there was no later stamp left

vars == <<phys, clk, issued, heard, peak, rolls, spent>>

Init ==
  /\ phys \in [Node -> PhysRange]
  /\ clk = [d \in Node |-> NoStamp]
  /\ issued = [d \in Node |-> << >>]
  /\ heard = [d \in Node |-> {}]
  /\ peak = phys
  /\ rolls = [d \in Node |-> 0]
  /\ spent = [d \in Node |-> FALSE]

(* The user, NTP or a suspended laptop sets the physical clock. *)
SetPhysicalClock(d) ==
  \E t \in PhysRange :
    /\ t # phys[d]
    /\ phys' = [phys EXCEPT ![d] = t]
    /\ peak' = [peak EXCEPT ![d] = Larger(peak[d], t)]
    /\ UNCHANGED <<clk, issued, heard, rolls, spent>>

CounterFull(d) ==
  clk[d] # NoStamp /\ phys[d] <= clk[d].wall /\ clk[d].counter = MaxCounter

(* The counter overflows into a wall that cannot grow: the last stamp of   *)
(* all has been issued or merged.                                          *)
Exhausted(d) == CounterFull(d) /\ clk[d].wall = MaxWall

(* Stamp a record or a tombstone and publish it. *)
Issue(d) ==
  /\ Len(issued[d]) < MaxIssues
  /\ LET s == HlcNext(clk[d], phys[d], d) IN
       /\ clk' = [clk EXCEPT ![d] = s]
       /\ issued' = [issued EXCEPT ![d] = Append(issued[d], s)]
  /\ rolls' = [rolls EXCEPT ![d] = IF CounterFull(d) THEN @ + 1 ELSE @]
  /\ spent' = [spent EXCEPT ![d] = @ \/ Exhausted(d)]
  /\ UNCHANGED <<phys, heard, peak>>

(* Read a stamp that another device published, as often as the shell likes. *)
Receive(d, e) ==
  \E i \in 1 .. Len(issued[e]) :
    LET s == issued[e][i] IN
      /\ clk' = [clk EXCEPT ![d] = HlcReceive(clk[d], s, phys[d], d)]
      /\ heard' = [heard EXCEPT ![d] =
                     IF s.wall <= SatAdd(phys[d], MaxDrift) THEN @ \cup {s} ELSE @]
      /\ UNCHANGED <<phys, issued, peak, rolls, spent>>

Next ==
  \E d \in Node :
    \/ SetPhysicalClock(d)
    \/ Issue(d)
    \/ \E e \in Node \ {d} : Receive(d, e)

Spec == Init /\ [][Next]_vars

----------------------------------------------------------------------------
(* The types of the clocks, and of the histories kept beside them. *)
TypeOK ==
  /\ phys \in [Node -> PhysRange]
  /\ clk \in [Node -> Clock]
  /\ issued \in [Node -> Seq(Stamp)]
  /\ heard \in [Node -> SUBSET Stamp]
  /\ peak \in [Node -> PhysRange]
  /\ rolls \in [Node -> Nat]
  /\ spent \in [Node -> BOOLEAN]

(* A device never issues a stamp that is not after all it issued before,   *)
(* whatever its physical clock does, whatever it receives in between and   *)
(* when its counter overflows (`hlc_next`, "Monotonic even if the wall     *)
(* clock steps backwards"), as long as there is a later stamp.             *)
IssuedInOrder ==
  \A d \in Node : ~spent[d] =>
    \A i, j \in 1 .. Len(issued[d]) :
      i < j => HlcLt(issued[d][i], issued[d][j])

(* A stamp a device issues is after every stamp it has received that was   *)
(* within the drift window at the time: what makes a re-copy outrank the   *)
(* tombstone its device had applied.  Saturated counters included, again   *)
(* as long as there is a later stamp.                                      *)
IssuedAfterHeard ==
  [][\A d \in Node :
       Len(issued'[d]) > Len(issued[d]) /\ ~spent'[d] =>
         \A t \in heard[d] : HlcLt(t, issued'[d][Len(issued'[d])])]_vars

(* A badly skewed peer cannot poison a clock: a device's clock is never    *)
(* further than MaxDrift ahead of a reading its own physical clock has     *)
(* shown, overflows of its own counter aside, however far ahead the others *)
(* are and however often their stamps are passed on.                       *)
DriftBounded ==
  \A d \in Node :
    clk[d] # NoStamp => clk[d].wall <= peak[d] + MaxDrift + rolls[d]

(* Nor can peers use up a device's stamps: it runs out of them only if its *)
(* own physical clock has been within the drift window of the end of i64,  *)
(* overflows of its own counter aside.                                     *)
SpentByOwnClock ==
  \A d \in Node : spent[d] => peak[d] + MaxDrift + rolls[d] >= MaxWall

============================================================================
