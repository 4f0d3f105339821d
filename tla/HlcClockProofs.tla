--------------------------- MODULE HlcClockProofs ---------------------------
(***************************************************************************)
(* Proofs about HlcClock, for any set of devices, any widths, any drift    *)
(* window and any behaviour of the physical clocks.                        *)
(***************************************************************************)
EXTENDS HlcClock, TLAPS

(* t's wall and counter are at most those of c: the order of stamps without *)
(* the node, which is what a clock keeps track of.                          *)
AtOrBefore(t, c) ==
  t.wall < c.wall \/ (t.wall = c.wall /\ t.counter <= c.counter)

Before(t, c) ==
  t.wall < c.wall \/ (t.wall = c.wall /\ t.counter < c.counter)

(* The clock has caught up with everything the device issued or heard, as   *)
(* long as it has not run out of stamps.                                    *)
ClockCoversHeard ==
  \A d \in Node : ~spent[d] =>
    \A t \in heard[d] : clk[d] # NoStamp /\ AtOrBefore(t, clk[d])

ClockCoversIssued ==
  \A d \in Node : ~spent[d] =>
    \A i \in 1 .. Len(issued[d]) :
      clk[d] # NoStamp /\ AtOrBefore(issued[d][i], clk[d])

PeakIsPeak == \A d \in Node : phys[d] <= peak[d]

(* A stamp names the device that issued it. *)
OwnStamps ==
  \A d \in Node : \A i \in 1 .. Len(issued[d]) : issued[d][i].node = d

(* Of two stamps issued anywhere, one is before the other and not the other *)
(* before the one: devices that stamp in the same millisecond with the same *)
(* counter included, and a device's own as long as it is not spent.         *)
OneOrder ==
  \A d, e \in Node : \A i \in 1 .. Len(issued[d]), j \in 1 .. Len(issued[e]) :
    d # e \/ (i # j /\ ~spent[d]) =>
      (HlcLt(issued[d][i], issued[e][j]) <=> ~HlcLt(issued[e][j], issued[d][i]))

IInv ==
  TypeOK /\ ClockCoversHeard /\ ClockCoversIssued /\ IssuedInOrder
  /\ PeakIsPeak /\ DriftBounded /\ SpentByOwnClock

----------------------------------------------------------------------------
(* hlc_next returns a stamp of the calling node. *)
LEMMA NextIsStamp ==
  ASSUME NEW c \in Clock, NEW now \in Wall, NEW d \in Node
  PROVE  HlcNext(c, now, d) \in Stamp
BY WidthAssumption, NoStampAssumption
   DEF HlcNext, SatAdd, Smaller, Stamp, Clock, Wall

(* hlc_receive returns a stamp of the receiving node. *)
LEMMA ReceiveIsStamp ==
  ASSUME NEW c \in Clock, NEW s \in Stamp, NEW now \in Wall, NEW d \in Node
  PROVE  HlcReceive(c, s, now, d) \in Stamp
BY WidthAssumption, NoStampAssumption
   DEF HlcReceive, MergedCounter, ClampedWall, SatAdd, Smaller, Larger, Stamp, Clock, Wall

(* There is a later stamp for hlc_next to return. *)
HasRoom(c, now) == ~(now <= c.wall /\ c.counter = MaxCounter /\ c.wall = MaxWall)

(* If there is one, it is after all that the clock it starts from covers.   *)
LEMMA NextIsAfter ==
  ASSUME NEW c \in Stamp, NEW now \in Wall, HasRoom(c, now), NEW d \in Node,
         NEW t \in Stamp, AtOrBefore(t, c)
  PROVE  Before(t, HlcNext(c, now, d))
BY WidthAssumption, NoStampAssumption
   DEF HlcNext, SatAdd, Smaller, Stamp, Wall, AtOrBefore, Before, HasRoom

(* Then hlc_next does not move the clock back. *)
LEMMA NextKeeps ==
  ASSUME NEW c \in Stamp, NEW now \in Wall, NEW d \in Node, HasRoom(c, now)
  PROVE  AtOrBefore(c, HlcNext(c, now, d))
BY WidthAssumption, NoStampAssumption
   DEF HlcNext, SatAdd, Smaller, Stamp, Wall, AtOrBefore, HasRoom

(* The merged stamp is at no earlier a wall than the clock and the remote   *)
(* stamp as credited, and counts no less than whichever has the same wall.  *)
LEMMA ReceiveMerges ==
  ASSUME NEW c \in Clock, NEW s \in Stamp, NEW now \in Wall, NEW d \in Node
  PROVE  LET r == HlcReceive(c, s, now, d)
             credited == ClampedWall(s, now)
         IN  /\ r.wall \in Int /\ credited \in Int /\ credited <= r.wall
             /\ c # NoStamp => c.wall <= r.wall
             /\ c # NoStamp /\ c.wall = r.wall => c.counter <= r.counter
             /\ credited = r.wall => s.counter <= r.counter
<1> DEFINE credited == ClampedWall(s, now)
           mine == IF c = NoStamp THEN MinWall ELSE c.wall
           wall == Larger(Larger(mine, credited), now)
           counter == MergedCounter(c, s, credited, wall)
           r == HlcReceive(c, s, now, d)
<1>1. r.wall = wall /\ r.counter = counter
  BY DEF HlcReceive
<1>2. /\ mine \in Int /\ credited \in Int /\ wall \in Int
      /\ mine <= wall /\ credited <= wall
  <2>1. now \in Int /\ s.wall \in Int /\ mine \in Int
    BY WidthAssumption DEF Wall, Stamp, Clock
  <2>2. credited \in Int
    BY <2>1, WidthAssumption DEF ClampedWall, SatAdd, Smaller
  <2> HIDE DEF mine, credited
  <2> QED BY <2>1, <2>2 DEF Larger
<1>3. c # NoStamp => mine = c.wall
  OBVIOUS
<1> HIDE DEF credited, wall
<1>4. c # NoStamp /\ c.wall = wall => c.counter <= counter
  BY <1>2, WidthAssumption DEF MergedCounter, Smaller, Larger, Stamp, Clock
<1>5. credited = wall => s.counter <= counter
  BY <1>2, WidthAssumption DEF MergedCounter, Smaller, Larger, Stamp, Clock
<1> HIDE DEF mine, counter, r
<1> QED BY <1>1, <1>2, <1>3, <1>4, <1>5 DEF r, credited

(* hlc_receive never moves a clock back. *)
LEMMA ReceiveKeeps ==
  ASSUME NEW c \in Stamp, NEW s \in Stamp, NEW now \in Wall, NEW d \in Node
  PROVE  AtOrBefore(c, HlcReceive(c, s, now, d))
<1>1. c \in Clock /\ c # NoStamp /\ c.wall \in Int
  BY NoStampAssumption, WidthAssumption DEF Clock, Stamp, Wall
<1> QED BY <1>1, ReceiveMerges DEF AtOrBefore

(* hlc_receive catches up with a stamp that is within the drift window,     *)
(* even when the counter saturates.                                         *)
LEMMA ReceiveCovers ==
  ASSUME NEW c \in Clock, NEW s \in Stamp, NEW now \in Wall, NEW d \in Node,
         s.wall <= SatAdd(now, MaxDrift)
  PROVE  AtOrBefore(s, HlcReceive(c, s, now, d))
<1>1. ClampedWall(s, now) = s.wall
  BY DEF ClampedWall, Smaller
<1> QED BY <1>1, ReceiveMerges DEF AtOrBefore

LEMMA AtOrBeforeTransitive ==
  ASSUME NEW a \in Stamp, NEW b \in Stamp, NEW c \in Stamp,
         AtOrBefore(a, b), AtOrBefore(b, c)
  PROVE  AtOrBefore(a, c)
BY WidthAssumption DEF AtOrBefore, Stamp, Wall

(* A clock that moves forward still covers what it covered. *)
LEMMA CoversAfterReceive ==
  ASSUME NEW c \in Stamp, NEW s \in Stamp, NEW now \in Wall, NEW d \in Node,
         NEW t \in Stamp, AtOrBefore(t, c)
  PROVE  AtOrBefore(t, HlcReceive(c, s, now, d))
BY ReceiveKeeps, ReceiveIsStamp, AtOrBeforeTransitive, NoStampAssumption DEF Clock

LEMMA CoversAfterNext ==
  ASSUME NEW c \in Stamp, NEW now \in Wall, HasRoom(c, now), NEW d \in Node,
         NEW t \in Stamp, AtOrBefore(t, c)
  PROVE  AtOrBefore(t, HlcNext(c, now, d))
BY NextKeeps, NextIsStamp, AtOrBeforeTransitive, NoStampAssumption DEF Clock

LEMMA StampCoversItself == ASSUME NEW s \in Stamp PROVE AtOrBefore(s, s)
BY WidthAssumption DEF AtOrBefore, Stamp, Wall

(* How far one call can move a clock's wall. *)
LEMMA NextWall ==
  ASSUME NEW c \in Clock, NEW now \in Wall, NEW d \in Node
  PROVE  \/ HlcNext(c, now, d).wall = now
         \/ c # NoStamp /\ HlcNext(c, now, d).wall = c.wall
         \/ /\ c # NoStamp /\ now <= c.wall /\ c.counter = MaxCounter
            /\ HlcNext(c, now, d).wall <= c.wall + 1
BY WidthAssumption, NoStampAssumption DEF HlcNext, SatAdd, Smaller, Stamp, Clock, Wall

LEMMA ReceiveWall ==
  ASSUME NEW c \in Clock, NEW s \in Stamp, NEW now \in Wall, NEW d \in Node
  PROVE  \/ HlcReceive(c, s, now, d).wall <= now + MaxDrift
         \/ c # NoStamp /\ HlcReceive(c, s, now, d).wall = c.wall
BY WidthAssumption, NoStampAssumption
   DEF HlcReceive, MergedCounter, ClampedWall, SatAdd, Smaller, Larger, Stamp, Clock, Wall

----------------------------------------------------------------------------
LEMMA PhysRangeInt == \A t \in PhysRange : t \in Int
BY PhysAssumption, WidthAssumption DEF Wall

LEMMA InitIInv == Init => IInv
<1> SUFFICES ASSUME Init PROVE IInv
  OBVIOUS
<1>1. TypeOK
  BY DEF Init, TypeOK, Clock
<1>2. ClockCoversHeard /\ ClockCoversIssued /\ IssuedInOrder
  BY DEF Init, ClockCoversHeard, ClockCoversIssued, IssuedInOrder
<1>3. \A d \in Node : phys[d] \in Int /\ peak[d] = phys[d]
  BY PhysRangeInt DEF Init
<1>4. PeakIsPeak
  BY <1>3 DEF PeakIsPeak
<1>5. DriftBounded
  BY DEF Init, DriftBounded
<1>6. SpentByOwnClock
  BY DEF Init, SpentByOwnClock
<1> QED BY <1>1, <1>2, <1>4, <1>5, <1>6 DEF IInv

LEMMA SetPhysicalClockStep ==
  ASSUME IInv, NEW d \in Node, SetPhysicalClock(d)
  PROVE  IInv'
<1> USE DEF IInv
<1> PICK t \in PhysRange :
       /\ phys' = [phys EXCEPT ![d] = t]
       /\ peak' = [peak EXCEPT ![d] = Larger(peak[d], t)]
       /\ UNCHANGED <<clk, issued, heard, rolls, spent>>
  BY DEF SetPhysicalClock
<1>1. TypeOK'
  BY DEF TypeOK, Larger
<1>2. (ClockCoversHeard /\ ClockCoversIssued /\ IssuedInOrder)'
  BY DEF ClockCoversHeard, ClockCoversIssued, IssuedInOrder
<1>3. \A e \in Node : peak'[e] \in Int /\ phys'[e] \in Int /\ peak[e] \in Int
        /\ peak'[e] >= peak[e] /\ phys'[e] <= peak'[e]
  BY PhysAssumption, WidthAssumption DEF TypeOK, PeakIsPeak, Larger, Wall
<1>4. PeakIsPeak'
  BY <1>3 DEF PeakIsPeak
<1>5. \A e \in Node : clk[e] # NoStamp => clk[e].wall \in Int
  BY WidthAssumption DEF TypeOK, Clock, Stamp, Wall
<1>6. DriftBounded'
  BY <1>3, <1>5, WidthAssumption DEF DriftBounded, TypeOK
<1>7. SpentByOwnClock'
  BY <1>3, WidthAssumption DEF SpentByOwnClock, TypeOK
<1> QED BY <1>1, <1>2, <1>4, <1>6, <1>7

LEMMA IssueStep ==
  ASSUME IInv, NEW d \in Node, Issue(d)
  PROVE  /\ IInv'
         /\ ~spent'[d] => \A t \in heard[d] : HlcLt(t, issued'[d][Len(issued'[d])])
<1> USE DEF IInv
<1> DEFINE s == HlcNext(clk[d], phys[d], d)
<1>1. /\ clk' = [clk EXCEPT ![d] = s]
      /\ issued' = [issued EXCEPT ![d] = Append(issued[d], s)]
      /\ rolls' = [rolls EXCEPT ![d] = IF CounterFull(d) THEN @ + 1 ELSE @]
      /\ spent' = [spent EXCEPT ![d] = @ \/ Exhausted(d)]
      /\ UNCHANGED <<phys, heard, peak>>
  BY DEF Issue
<1>2. phys[d] \in Wall /\ clk[d] \in Clock /\ issued[d] \in Seq(Stamp)
  BY PhysAssumption DEF TypeOK
<1>3. s \in Stamp /\ s # NoStamp
  BY <1>2, NextIsStamp, NoStampAssumption
<1>4. TypeOK'
  <2>1. spent' \in [Node -> BOOLEAN]
    BY <1>1 DEF TypeOK, Exhausted, CounterFull
  <2> QED BY <1>1, <1>2, <1>3, <2>1 DEF TypeOK, Clock
<1>21. \A e \in Node : spent'[e] = IF e = d THEN spent[d] \/ Exhausted(d) ELSE spent[e]
  BY <1>1 DEF TypeOK
<1>22. ~spent'[d] /\ clk[d] # NoStamp => ~spent[d] /\ HasRoom(clk[d], phys[d])
  BY <1>21 DEF Exhausted, CounterFull, HasRoom
<1>23. \A e \in Node : ~spent'[e] => ~spent[e]
  BY <1>21
<1>5. ASSUME ~spent'[d], NEW t \in Stamp, clk[d] # NoStamp, AtOrBefore(t, clk[d])
      PROVE  Before(t, s) /\ AtOrBefore(t, s)
  BY <1>22, <1>2, <1>5, NextIsAfter, CoversAfterNext DEF Clock
<1>6. \A e \in Node : clk'[e] = IF e = d THEN s ELSE clk[e]
  BY <1>1 DEF TypeOK
<1>7. \A e \in Node : issued'[e] = IF e = d THEN Append(issued[d], s) ELSE issued[e]
  BY <1>1 DEF TypeOK
<1>8. /\ Len(issued'[d]) = Len(issued[d]) + 1
      /\ issued'[d][Len(issued[d]) + 1] = s
      /\ \A i \in 1 .. Len(issued[d]) : issued'[d][i] = issued[d][i]
  <2> HIDE DEF s
  <2>1. issued'[d] = Append(issued[d], s)
    BY <1>7
  <2> QED BY <1>2, <1>3, <2>1
<1>9. \A e \in Node : heard'[e] = heard[e] /\ heard[e] \subseteq Stamp
  BY <1>1 DEF TypeOK
<1>10. ClockCoversHeard'
  <2> HIDE DEF s
  <2> QED BY <1>3, <1>5, <1>6, <1>9, <1>23 DEF ClockCoversHeard
<1>11. \A i \in 1 .. Len(issued[d]) : issued[d][i] \in Stamp
  BY <1>2
<1>12. ASSUME NEW e \in Node, ~spent'[e], NEW i \in 1 .. Len(issued'[e])
       PROVE  clk'[e] # NoStamp /\ AtOrBefore(issued'[e][i], clk'[e])
  <2>1. CASE e # d
    BY <2>1, <1>6, <1>7, <1>12, <1>23 DEF ClockCoversIssued
  <2>2. CASE e = d /\ i = Len(issued[d]) + 1
    BY <2>2, <1>3, <1>6, <1>8, StampCoversItself
  <2>3. CASE e = d /\ i # Len(issued[d]) + 1
    <3>1. i \in 1 .. Len(issued[d]) /\ issued'[d][i] = issued[d][i]
      BY <2>3, <1>2, <1>8
    <3> QED BY <2>3, <3>1, <1>3, <1>5, <1>6, <1>11, <1>12, <1>23 DEF ClockCoversIssued
  <2> QED BY <2>1, <2>2, <2>3
<1>13. ClockCoversIssued'
  BY <1>12 DEF ClockCoversIssued
<1>14. ASSUME NEW e \in Node, ~spent'[e],
              NEW i \in 1 .. Len(issued'[e]), NEW j \in 1 .. Len(issued'[e]), i < j
       PROVE  HlcLt(issued'[e][i], issued'[e][j])
  <2>1. CASE e # d
    BY <2>1, <1>7, <1>14, <1>23 DEF IssuedInOrder
  <2>2. CASE e = d /\ j = Len(issued[d]) + 1
    <3>1. i \in 1 .. Len(issued[d]) /\ issued'[d][i] = issued[d][i]
      BY <2>2, <1>2, <1>8, <1>14
    <3>2. Before(issued[d][i], s)
      BY <2>2, <3>1, <1>5, <1>11, <1>14, <1>23 DEF ClockCoversIssued
    <3> QED BY <2>2, <3>1, <3>2, <1>8 DEF Before, HlcLt
  <2>3. CASE e = d /\ j # Len(issued[d]) + 1
    <3>1. i \in 1 .. Len(issued[d]) /\ j \in 1 .. Len(issued[d])
      BY <2>3, <1>2, <1>8, <1>14
    <3> QED BY <2>3, <3>1, <1>8, <1>14, <1>23 DEF IssuedInOrder
  <2> QED BY <2>1, <2>2, <2>3
<1>15. IssuedInOrder'
  BY <1>14 DEF IssuedInOrder
<1>16. PeakIsPeak'
  BY <1>1 DEF PeakIsPeak
<1>17. ASSUME NEW e \in Node, clk'[e] # NoStamp
       PROVE  clk'[e].wall <= peak'[e] + MaxDrift + rolls'[e]
  <2>1. CASE e # d
    BY <2>1, <1>1, <1>6, <1>17 DEF DriftBounded, TypeOK
  <2>2. CASE e = d
    <3>1. /\ peak[d] \in Int /\ phys[d] \in Int /\ rolls[d] \in Nat /\ MaxDrift \in Nat
          /\ phys[d] <= peak[d] /\ peak'[d] = peak[d]
          /\ rolls'[d] = IF CounterFull(d) THEN rolls[d] + 1 ELSE rolls[d]
      <4>1. peak[d] \in Int /\ phys[d] \in Int /\ rolls[d] \in Nat
        BY PhysRangeInt DEF TypeOK
      <4>2. phys[d] <= peak[d] /\ peak' = peak
        BY <1>1 DEF PeakIsPeak
      <4>3. rolls'[d] = IF CounterFull(d) THEN rolls[d] + 1 ELSE rolls[d]
        BY <1>1 DEF TypeOK
      <4> QED BY <4>1, <4>2, <4>3, WidthAssumption
    <3>2. clk[d] # NoStamp =>
             clk[d].wall \in Int /\ clk[d].wall <= peak[d] + MaxDrift + rolls[d]
      BY <1>2, WidthAssumption DEF DriftBounded, Clock, Stamp, Wall
    <3>3. s.wall \in Int
      BY <1>3, WidthAssumption DEF Stamp, Wall
    <3>4. \/ s.wall = phys[d]
          \/ clk[d] # NoStamp /\ s.wall = clk[d].wall
          \/ CounterFull(d) /\ clk[d] # NoStamp /\ s.wall <= clk[d].wall + 1
      BY <1>2, NextWall DEF CounterFull
    <3>5. s.wall <= peak[d] + MaxDrift + rolls'[d]
      <4> HIDE DEF s
      <4> QED BY <3>1, <3>2, <3>3, <3>4
    <3> QED BY <2>2, <1>6, <3>1, <3>5
  <2> QED BY <2>1, <2>2
<1>18. DriftBounded'
  BY <1>17 DEF DriftBounded
<1>19. ASSUME ~spent'[d], NEW t \in heard[d]
       PROVE  HlcLt(t, issued'[d][Len(issued'[d])])
  <2>1. Before(t, s)
    BY <1>5, <1>9, <1>19, <1>23 DEF ClockCoversHeard
  <2> QED BY <2>1, <1>8 DEF Before, HlcLt
<1>20. SpentByOwnClock'
  <2> SUFFICES ASSUME NEW e \in Node, spent'[e]
               PROVE  peak'[e] + MaxDrift + rolls'[e] >= MaxWall
    BY DEF SpentByOwnClock
  <2>1. /\ peak'[e] = peak[e] /\ peak[e] \in Int /\ MaxDrift \in Nat /\ MaxWall \in Int
        /\ rolls[e] \in Nat /\ rolls'[e] \in Nat /\ rolls'[e] >= rolls[e]
    BY <1>1, PhysRangeInt, WidthAssumption DEF TypeOK
  <2>2. CASE spent[e]
    BY <2>1, <2>2 DEF SpentByOwnClock
  <2>3. CASE ~spent[e]
    <3>1. clk[e] # NoStamp /\ clk[e].wall = MaxWall
      BY <2>3, <1>21 DEF Exhausted, CounterFull
    <3> QED BY <2>1, <3>1 DEF DriftBounded
  <2> QED BY <2>2, <2>3
<1> QED BY <1>4, <1>10, <1>13, <1>15, <1>16, <1>18, <1>19, <1>20

LEMMA ReceiveStep ==
  ASSUME IInv, NEW d \in Node, NEW e \in Node, Receive(d, e)
  PROVE  IInv'
<1> USE DEF IInv
<1>1. PICK k \in 1 .. Len(issued[e]) :
        /\ clk' = [clk EXCEPT ![d] = HlcReceive(clk[d], issued[e][k], phys[d], d)]
        /\ heard' = [heard EXCEPT ![d] =
                       IF issued[e][k].wall <= SatAdd(phys[d], MaxDrift)
                       THEN heard[d] \cup {issued[e][k]} ELSE heard[d]]
        /\ UNCHANGED <<phys, issued, peak, rolls, spent>>
  BY DEF Receive
<1> DEFINE s == issued[e][k]
           r == HlcReceive(clk[d], s, phys[d], d)
<1>2. /\ phys[d] \in Wall /\ clk[d] \in Clock /\ s \in Stamp
  BY PhysAssumption DEF TypeOK
<1>3. r \in Stamp /\ r # NoStamp
  BY <1>2, ReceiveIsStamp, NoStampAssumption
<1>4. TypeOK'
  BY <1>1, <1>2, <1>3 DEF TypeOK, Clock
<1>5. \A c \in Node : clk'[c] = IF c = d THEN r ELSE clk[c]
  BY <1>1 DEF TypeOK
<1>6. \A t \in Stamp : clk[d] # NoStamp /\ AtOrBefore(t, clk[d]) => AtOrBefore(t, r)
  BY <1>2, CoversAfterReceive DEF Clock
<1>7. s.wall <= SatAdd(phys[d], MaxDrift) => AtOrBefore(s, r)
  BY <1>2, ReceiveCovers
<1>8. \A c \in Node : /\ heard[c] \subseteq Stamp
                      /\ c # d => heard'[c] = heard[c]
                      /\ \A t \in heard'[d] :
                           t \in heard[d] \/ (t = s /\ s.wall <= SatAdd(phys[d], MaxDrift))
  BY <1>1 DEF TypeOK
<1>9. ClockCoversHeard'
  <2> HIDE DEF r, s
  <2> SUFFICES ASSUME NEW c \in Node, ~spent[c], NEW t \in heard'[c]
               PROVE  clk'[c] # NoStamp /\ AtOrBefore(t, clk'[c])
    BY <1>1 DEF ClockCoversHeard
  <2>1. CASE c # d
    BY <2>1, <1>5, <1>8 DEF ClockCoversHeard
  <2>2. CASE c = d
    BY <2>2, <1>3, <1>5, <1>6, <1>7, <1>8 DEF ClockCoversHeard
  <2> QED BY <2>1, <2>2
<1>10. \A c \in Node : \A i \in 1 .. Len(issued[c]) : issued[c][i] \in Stamp
  BY DEF TypeOK
<1>11. ClockCoversIssued'
  <2> HIDE DEF r, s
  <2> QED BY <1>1, <1>3, <1>5, <1>6, <1>10 DEF ClockCoversIssued
<1>12. (IssuedInOrder /\ PeakIsPeak)'
  BY <1>1 DEF IssuedInOrder, PeakIsPeak
<1>13. ASSUME NEW c \in Node, clk'[c] # NoStamp
       PROVE  clk'[c].wall <= peak'[c] + MaxDrift + rolls'[c]
  <2>1. CASE c # d
    BY <2>1, <1>1, <1>5, <1>13 DEF DriftBounded
  <2>2. CASE c = d
    <3>1. /\ peak[d] \in Int /\ phys[d] \in Int /\ rolls[d] \in Nat /\ MaxDrift \in Nat
          /\ phys[d] <= peak[d] /\ peak' = peak /\ rolls' = rolls
      <4>1. peak[d] \in Int /\ phys[d] \in Int /\ rolls[d] \in Nat
        BY PhysRangeInt DEF TypeOK
      <4>2. phys[d] <= peak[d] /\ peak' = peak /\ rolls' = rolls
        BY <1>1 DEF PeakIsPeak
      <4> QED BY <4>1, <4>2, WidthAssumption
    <3>2. clk[d] # NoStamp =>
             clk[d].wall \in Int /\ clk[d].wall <= peak[d] + MaxDrift + rolls[d]
      BY <1>2, WidthAssumption DEF DriftBounded, Clock, Stamp, Wall
    <3>3. r.wall \in Int
      BY <1>3, WidthAssumption DEF Stamp, Wall
    <3>4. r.wall <= phys[d] + MaxDrift \/ (clk[d] # NoStamp /\ r.wall = clk[d].wall)
      BY <1>2, ReceiveWall
    <3> HIDE DEF r
    <3> QED BY <2>2, <1>5, <3>1, <3>2, <3>3, <3>4
  <2> QED BY <2>1, <2>2
<1>14. DriftBounded'
  BY <1>13 DEF DriftBounded
<1>15. SpentByOwnClock'
  BY <1>1 DEF SpentByOwnClock
<1> QED BY <1>4, <1>9, <1>11, <1>12, <1>14, <1>15

LEMMA StepIInv == IInv /\ [Next]_vars => IInv'
<1> SUFFICES ASSUME IInv, [Next]_vars PROVE IInv'
  OBVIOUS
<1>1. CASE UNCHANGED vars
  BY <1>1 DEF vars, IInv, TypeOK, ClockCoversHeard, ClockCoversIssued,
              IssuedInOrder, PeakIsPeak, DriftBounded, SpentByOwnClock
<1>2. ASSUME NEW d \in Node, SetPhysicalClock(d) PROVE IInv'
  BY <1>2, SetPhysicalClockStep
<1>3. ASSUME NEW d \in Node, Issue(d) PROVE IInv'
  BY <1>3, IssueStep
<1>4. ASSUME NEW d \in Node, NEW e \in Node, Receive(d, e) PROVE IInv'
  BY <1>4, ReceiveStep
<1> QED BY <1>1, <1>2, <1>3, <1>4 DEF Next

(* The inductive invariant of the clocks. *)
THEOREM ClockInvariant == Spec => []IInv
BY InitIInv, StepIInv, PTL DEF Spec

(* Every clock holds a stamp of its own device or none, and every history   *)
(* holds stamps (`hlc_next`, `hlc_receive`).                                *)
THEOREM ClockTypes == Spec => []TypeOK
BY ClockInvariant, PTL DEF IInv

(* A device's stamps strictly increase, whatever the physical clocks do and *)
(* for any widths of wall and counter, as long as there is a later stamp.   *)
THEOREM StampsIncrease == Spec => []IssuedInOrder
BY ClockInvariant, PTL DEF IInv

(* The clamp in `hlc_receive` bounds every clock by the device's own        *)
(* physical clock, whatever the other devices stamp.                        *)
THEOREM NoPoisoning == Spec => []DriftBounded
BY ClockInvariant, PTL DEF IInv

(* A device runs out of stamps only by its own physical clock. *)
THEOREM OnlyOwnClockSpends == Spec => []SpentByOwnClock
BY ClockInvariant, PTL DEF IInv

(* A stamp is after every stamp its device received within the drift window. *)
THEOREM StampsFollowHeard == Spec => IssuedAfterHeard
<1>1. ASSUME IInv, [Next]_vars, NEW d \in Node, Len(issued'[d]) > Len(issued[d]), ~spent'[d]
      PROVE  \A t \in heard[d] : HlcLt(t, issued'[d][Len(issued'[d])])
  <2>1. issued' # issued
    <3>1. SUFFICES ASSUME issued' = issued PROVE FALSE
      OBVIOUS
    <3>2. Len(issued[d]) \in Nat
      BY <1>1 DEF IInv, TypeOK
    <3> QED BY <1>1, <3>1, <3>2
  <2>2. \E e \in Node : Issue(e)
    BY <1>1, <2>1 DEF Next, vars, SetPhysicalClock, Receive
  <2>3. PICK e \in Node : Issue(e)
    BY <2>2
  <2>4. CASE e = d
    BY <1>1, <2>3, <2>4, IssueStep
  <2>5. CASE e # d
    <3>1. issued'[d] = issued[d]
      BY <1>1, <2>3, <2>5 DEF Issue, IInv, TypeOK
    <3>2. Len(issued[d]) \in Nat
      BY <1>1 DEF IInv, TypeOK
    <3> QED BY <1>1, <3>1, <3>2
  <2> QED BY <2>4, <2>5
<1>2. IInv /\ [Next]_vars =>
        [\A d \in Node : Len(issued'[d]) > Len(issued[d]) /\ ~spent'[d] =>
           \A t \in heard[d] : HlcLt(t, issued'[d][Len(issued'[d])])]_vars
  BY <1>1
<1> QED BY <1>2, ClockInvariant, PTL DEF Spec, IssuedAfterHeard

(* hlc_compare is a strict order, total on stamps that differ.               *)
LEMMA HlcIsStrict ==
  ASSUME NEW a \in Stamp, NEW b \in Stamp
  PROVE  /\ HlcLt(a, b) => ~HlcLt(b, a)
         /\ HlcLt(a, b) \/ HlcLt(b, a)
              \/ (a.wall = b.wall /\ a.counter = b.counter /\ a.node = b.node)
<1>1. /\ a.wall \in Int /\ a.counter \in Int /\ a.node \in Int
      /\ b.wall \in Int /\ b.counter \in Int /\ b.node \in Int
  <2>1. \A d \in Node : d \in Int
    BY NodeAssumption
  <2> QED BY <2>1, WidthAssumption DEF Stamp, Wall
<1> QED BY <1>1 DEF HlcLt

LEMMA OwnAfterIssue ==
  ASSUME TypeOK, OwnStamps, NEW d \in Node, Issue(d)
  PROVE  OwnStamps'
<1> DEFINE s == HlcNext(clk[d], phys[d], d)
<1>1. s \in Stamp /\ issued[d] \in Seq(Stamp)
  BY NextIsStamp, PhysAssumption DEF TypeOK
<1>2. s.node = d
  BY DEF HlcNext
<1>3. issued' = [issued EXCEPT ![d] = Append(issued[d], s)]
  BY DEF Issue
<1> HIDE DEF s
<1> SUFFICES ASSUME NEW e \in Node, NEW i \in 1 .. Len(issued'[e])
             PROVE  issued'[e][i].node = e
  BY DEF OwnStamps
<1>4. issued'[e] = IF e = d THEN Append(issued[d], s) ELSE issued[e]
  BY <1>3 DEF TypeOK
<1>5. CASE e # d
  BY <1>4, <1>5 DEF OwnStamps
<1>6. CASE e = d /\ i \in 1 .. Len(issued[d])
  BY <1>1, <1>4, <1>6 DEF OwnStamps
<1>7. CASE e = d /\ i \notin 1 .. Len(issued[d])
  BY <1>1, <1>2, <1>4, <1>7
<1> QED BY <1>5, <1>6, <1>7

(* The node makes the order total (`hlc_compare`, "`node` makes the order   *)
(* total even when two devices stamp the same (wall, counter)"): no device  *)
(* ever issues a stamp that ties with one of another device, and none that  *)
(* ties with one of its own before it is spent.                             *)
THEOREM StampsNeverTie == Spec => []OneOrder
<1>1. Init => OwnStamps
  BY DEF Init, OwnStamps
<1>2. IInv /\ OwnStamps /\ [Next]_vars => OwnStamps'
  <2> SUFFICES ASSUME TypeOK, OwnStamps, [Next]_vars PROVE OwnStamps'
    BY DEF IInv
  <2>1. ASSUME issued' = issued PROVE OwnStamps'
    BY <2>1 DEF OwnStamps
  <2>2. ASSUME NEW d \in Node, Issue(d) PROVE OwnStamps'
    BY <2>2, OwnAfterIssue
  <2> QED BY <2>1, <2>2 DEF Next, vars, SetPhysicalClock, Receive
<1>3. ASSUME IInv, OwnStamps,
             NEW d \in Node, NEW e \in Node,
             NEW i \in 1 .. Len(issued[d]), NEW j \in 1 .. Len(issued[e]),
             d # e \/ (i # j /\ ~spent[d])
      PROVE  HlcLt(issued[d][i], issued[e][j]) <=> ~HlcLt(issued[e][j], issued[d][i])
  <2> DEFINE a == issued[d][i]
             b == issued[e][j]
  <2>1. a \in Stamp /\ b \in Stamp /\ i \in Int /\ j \in Int
    BY <1>3 DEF IInv, TypeOK
  <2>2. a.node = d /\ b.node = e
    BY <1>3 DEF OwnStamps
  <2>3. CASE d # e
    <3> HIDE DEF a, b
    <3>1. HlcLt(a, b) <=> ~HlcLt(b, a)
      BY <2>1, <2>2, <2>3, HlcIsStrict
    <3> QED BY <3>1 DEF a, b
  <2>4. CASE d = e /\ i # j /\ ~spent[d]
    <3>1. HlcLt(a, b) \/ HlcLt(b, a)
      <4>1. i < j \/ j < i
        BY <2>1, <2>4
      <4> QED BY <1>3, <2>4, <4>1 DEF IInv, IssuedInOrder
    <3> HIDE DEF a, b
    <3>2. HlcLt(a, b) <=> ~HlcLt(b, a)
      BY <2>1, <3>1, HlcIsStrict
    <3> QED BY <3>2 DEF a, b
  <2> QED BY <1>3, <2>3, <2>4
<1>4. IInv /\ OwnStamps => OneOrder
  BY <1>3 DEF OneOrder
<1> QED BY <1>1, <1>2, <1>4, ClockInvariant, PTL DEF Spec

============================================================================
