-------------------------- MODULE SecretScanProofs --------------------------
(***************************************************************************)
(* The merge of overlapping matches, for every text and whatever the       *)
(* regular expressions find: the matches kept are disjoint and ordered,    *)
(* none is lost, the verdict is that of the spans, a guess never hides a   *)
(* definite match; the offsets, the masks and what ordinary text keeps;    *)
(* and a run of random characters is noticed whatever its length.          *)
(***************************************************************************)
EXTENDS SecretScan, FiniteSetTheorems, WellFoundedInduction, TLAPS

IsMatch(m) ==
  /\ m.source \in Source /\ m.start \in Nat /\ m.end \in Nat
  /\ m.start < m.end /\ m.end <= text.bytes

LEMMA BoundaryType ==
  ASSUME NEW t \in Text, NEW i
  PROVE  Boundary(t, i) \in Nat /\ Boundary(t, i) <= t.bytes /\ t.bytes \in Nat
BY TextAssumption DEF Boundary, IsText

LEMMA SpanType ==
  ASSUME NEW t \in Text, NEW s \in Spans(t)
  PROVE  s.start \in Nat /\ s.end \in Nat /\ s.end <= t.bytes
BY BoundaryType DEF Spans

(* A later character begins after an earlier one, and so does the end. *)
LEMMA BoundaryGrows ==
  ASSUME NEW t \in Text, NEW i \in DOMAIN t.at, NEW j \in Nat, i < j
  PROVE  t.at[i] \in Nat /\ t.at[i] < Boundary(t, j)
BY TextAssumption DEF Boundary, IsText

LEMMA RunType ==
  ASSUME NEW t \in Text, NEW r \in Runs(t)
  PROVE  /\ r.start \in Nat /\ r.end \in Nat
         /\ r.start < r.end /\ r.end <= t.bytes
<1>1. PICK p \in TokenChars(t) \X TokenChars(t) :
        /\ r = [start |-> t.at[p[1]], end |-> Boundary(t, p[2] + 1)]
        /\ p[1] .. p[2] # {}
  BY DEF Runs
<1>2. TokenChars(t) \subseteq DOMAIN t.at /\ DOMAIN t.at \subseteq Nat
  BY TextAssumption DEF IsText, TokenChars
<1>3. p[1] \in DOMAIN t.at /\ p[2] \in Nat /\ p[1] < p[2] + 1
  BY <1>1, <1>2
<1> QED BY <1>1, <1>3, BoundaryGrows, BoundaryType

(* Two maximal runs of a text are the same or do not overlap. *)
LEMMA RunsApart ==
  ASSUME NEW t \in Text, NEW r \in Runs(t), NEW s \in Runs(t), r # s
  PROVE  ~Overlap(r, s)
<1> DEFINE Maximal(x, p) ==
      /\ x = [start |-> t.at[p[1]], end |-> Boundary(t, p[2] + 1)]
      /\ p[1] .. p[2] # {} /\ p[1] .. p[2] \subseteq TokenChars(t)
      /\ p[1] - 1 \notin TokenChars(t) /\ p[2] + 1 \notin TokenChars(t)
<1>1. PICK p \in TokenChars(t) \X TokenChars(t) : Maximal(r, p)
  BY DEF Runs
<1>2. PICK q \in TokenChars(t) \X TokenChars(t) : Maximal(s, q)
  BY DEF Runs
<1>3. TokenChars(t) \subseteq DOMAIN t.at /\ DOMAIN t.at \subseteq Nat
  BY TextAssumption DEF IsText, TokenChars
<1>4. p[1] \in Nat /\ p[2] \in Nat /\ q[1] \in Nat /\ q[2] \in Nat
  BY ONLY <1>3, p \in TokenChars(t) \X TokenChars(t), q \in TokenChars(t) \X TokenChars(t)
<1>5. ASSUME p[2] < q[1] PROVE r.end <= s.start
  <2>1. p[2] + 1 = q[1] \/ p[2] + 1 < q[1]
    BY <1>4, <1>5
  <2>2. q[1] \in DOMAIN t.at
    BY <1>3
  <2>3. CASE p[2] + 1 = q[1]
    BY <2>2, <2>3, <1>1, <1>2, <1>4, BoundaryType DEF Boundary
  <2>4. CASE p[2] + 1 < q[1]
    <3>1. p[2] + 1 \in DOMAIN t.at
      BY <2>2, <2>4, <1>4, TextAssumption DEF IsText
    <3> QED BY <3>1, <2>2, <2>4, <1>1, <1>2, <1>4, BoundaryGrows DEF Boundary
  <2> QED BY <2>1, <2>3, <2>4
<1>6. ASSUME q[2] < p[1] PROVE s.end <= r.start
  <2>1. q[2] + 1 = p[1] \/ q[2] + 1 < p[1]
    BY <1>4, <1>6
  <2>2. p[1] \in DOMAIN t.at
    BY <1>3
  <2>3. CASE q[2] + 1 = p[1]
    BY <2>2, <2>3, <1>1, <1>2, <1>4, BoundaryType DEF Boundary
  <2>4. CASE q[2] + 1 < p[1]
    <3>1. q[2] + 1 \in DOMAIN t.at
      BY <2>2, <2>4, <1>4, TextAssumption DEF IsText
    <3> QED BY <3>1, <2>2, <2>4, <1>1, <1>2, <1>4, BoundaryGrows DEF Boundary
  <2> QED BY <2>1, <2>3, <2>4
<1>7. ASSUME p[1] <= q[2], q[1] <= p[2] PROVE FALSE
  <2>1. ~(p[1] < q[1])
    BY <1>1, <1>2, <1>4, <1>7
  <2>2. ~(q[1] < p[1])
    BY <1>1, <1>2, <1>4, <1>7
  <2>3. ~(p[2] < q[2])
    BY <1>1, <1>2, <1>4, <1>7
  <2>4. ~(q[2] < p[2])
    BY <1>1, <1>2, <1>4, <1>7
  <2>5. p[1] = q[1] /\ p[2] = q[2]
    BY <2>1, <2>2, <2>3, <2>4, <1>4
  <2> QED BY <2>5, <1>1, <1>2
<1>8. r.start \in Nat /\ r.end \in Nat /\ s.start \in Nat /\ s.end \in Nat
  BY RunType
<1>9. r.end <= s.start \/ s.end <= r.start
  BY <1>4, <1>5, <1>6, <1>7
<1> QED BY <1>8, <1>9 DEF Overlap

(* The order begins with the start. *)
LEMMA BeforeStartsEarlier ==
  ASSUME NEW a, NEW b, a.start \in Nat, b.start \in Nat, Before(a, b)
  PROVE  a.start <= b.start
<1>1. PICK i \in 1 .. 4 :
        /\ SortKey(a)[i] < SortKey(b)[i]
        /\ \A j \in 1 .. i - 1 : SortKey(a)[j] = SortKey(b)[j]
  BY DEF Before, LexLess
<1>2. SortKey(a)[1] = a.start /\ SortKey(b)[1] = b.start
  BY DEF SortKey
<1>3. CASE i = 1
  BY <1>1, <1>2, <1>3
<1>4. CASE i # 1
  BY <1>1, <1>2, <1>4
<1> QED BY <1>3, <1>4

(***************************************************************************)
(* The invariant.  Collecting: nothing is merged yet.  Merging: what is    *)
(* kept is in order, nothing still to look at begins before it, and each   *)
(* match looked at is kept or overlaps one that is.  The guesses, pushed   *)
(* last, overlap nothing.                                                  *)
(***************************************************************************)
Collecting == stage \in Source => kept = <<>> /\ todo = {}

NotWalked == stage \in Source \cup {"merge"} => passed = 0 /\ chars = <<>>

KeptInOrder ==
  /\ KeptDisjoint
  /\ \A i \in DOMAIN kept : kept[i].end <= lastEnd

RestIsLater == \A m \in todo, i \in DOMAIN kept : kept[i].start <= m.start

GuessesApart ==
  \A m, other \in raws : m.source = "entropy" /\ m # other => ~Overlap(m, other)

NoGuessYet == stage \in Source => \A m \in raws : m.source # "entropy"

DoneIsDone == stage \in {"convert", "done"} => todo = {}

(* The walk, once it has begun, has counted the characters before each     *)
(* boundary it came to.                                                    *)
Walked ==
  stage \in {"convert", "done"} =>
    /\ Len(chars) <= 2 * Len(kept)
    /\ \A k \in DOMAIN chars : chars[k] = Clamp(CharsBefore(Target(k)))
    /\ IF chars = <<>> THEN passed = 0 ELSE passed = CharsBefore(Target(Len(chars)))
    /\ stage = "done" => Len(chars) = 2 * Len(kept)

ScanInv ==
  /\ TypeOK
  /\ Collecting /\ NotWalked
  /\ KeptInOrder
  /\ RestIsLater
  /\ NothingUnreported
  /\ GuessesApart /\ NoGuessYet
  /\ DoneIsDone /\ Walked

LEMMA InitScan == Init => ScanInv
BY DEF Init, ScanInv, TypeOK, Collecting, NotWalked, KeptInOrder, KeptDisjoint, RestIsLater,
  NothingUnreported, Reported, GuessesApart, NoGuessYet, DoneIsDone, Walked, Source

(* A source that finds a span adds a match of its own, and no guess. *)
LEMMA PushScan ==
  ASSUME ScanInv, NEW source \in Source \ {"entropy"}, NEW span \in Spans(text),
         Push(source, span)
  PROVE  ScanInv'
<1>1. IsMatch(Match(source, span)) /\ Match(source, span).source = source
  BY SpanType DEF ScanInv, TypeOK, IsMatch, Match, Push, NonEmpty
<1>2. /\ raws' = raws \cup {Match(source, span)}
      /\ stage \in Source /\ stage' = stage /\ text' = text
      /\ kept = <<>> /\ todo = {} /\ kept' = kept /\ todo' = todo /\ lastEnd' = lastEnd
      /\ passed' = passed /\ chars' = chars
  BY DEF Push, merged, walked, ScanInv, Collecting
<1>3. TypeOK'
  BY <1>1, <1>2 DEF ScanInv, TypeOK, IsMatch
<1>4. GuessesApart' /\ NoGuessYet'
  BY <1>1, <1>2 DEF ScanInv, GuessesApart, NoGuessYet
<1>5. NothingUnreported'
  BY <1>2 DEF NothingUnreported, Reported, Source
<1>6. Collecting' /\ NotWalked' /\ KeptInOrder' /\ RestIsLater' /\ DoneIsDone' /\ Walked'
  BY <1>2 DEF ScanInv, Collecting, NotWalked, KeptInOrder, KeptDisjoint, RestIsLater, DoneIsDone, Walked, Source
<1> QED BY <1>3, <1>4, <1>5, <1>6 DEF ScanInv

LEMMA TurnScan ==
  ASSUME ScanInv, NEW source \in Source, NEW next \in Source, Turn(source, next)
  PROVE  ScanInv'
BY DEF Turn, merged, walked, ScanInv, TypeOK, Collecting, NotWalked, KeptInOrder, KeptDisjoint, RestIsLater,
  NothingUnreported, Reported, GuessesApart, NoGuessYet, DoneIsDone, Walked, Source

LEMMA EntropyScan ==
  ASSUME ScanInv, Entropy
  PROVE  ScanInv'
<1> DEFINE Free == {q \in Runs(text) :
                     Qualifies(text, q) /\ ~OverlapsAny(q, raws \cup text.dataUris)}
           New == {Match("entropy", r) : r \in Free}
<1>1. /\ raws' = raws \cup New /\ todo' = raws'
      /\ stage = "entropy" /\ stage' = "merge" /\ text' = text
      /\ kept = <<>> /\ kept' = kept /\ lastEnd' = lastEnd
      /\ passed' = passed /\ chars' = chars
  BY DEF Entropy, walked, ScanInv, Collecting, Source
<1>2. \A m \in New : IsMatch(m) /\ m.source = "entropy"
  BY RunType DEF ScanInv, TypeOK, IsMatch, Match, Source
<1>3. TypeOK'
  <2> HIDE DEF New
  <2>1. \A m \in raws' : IsMatch(m)
    BY <1>1, <1>2 DEF ScanInv, TypeOK, IsMatch
  <2>2. kept' = <<>> /\ kept' \in Seq(raws') /\ lastEnd' = 0
    BY <1>1 DEF ScanInv, TypeOK
  <2> QED BY <1>1, <2>1, <2>2 DEF ScanInv, TypeOK, IsMatch
<1>4. \A m \in New, other \in raws : ~Overlap(m, other) /\ ~Overlap(other, m)
  BY DEF Match, OverlapsAny, Overlap
<1>5. \A m, other \in New : m # other => ~Overlap(m, other)
  <2> SUFFICES ASSUME NEW m \in New, NEW other \in New, m # other
               PROVE  ~Overlap(m, other)
    OBVIOUS
  <2>1. PICK r \in Free : m = Match("entropy", r)
    OBVIOUS
  <2>2. PICK s \in Free : other = Match("entropy", s)
    OBVIOUS
  <2>3. r # s
    BY <2>1, <2>2
  <2>4. ~Overlap(r, s)
    BY <2>3, RunsApart DEF ScanInv, TypeOK
  <2> QED BY <2>1, <2>2, <2>4 DEF Overlap, Match
<1>6. \A m \in raws : m.source # "entropy"
  BY <1>1 DEF ScanInv, NoGuessYet, Source
<1>7. GuessesApart'
  BY <1>1, <1>4, <1>5, <1>6 DEF GuessesApart
<1>8. NothingUnreported' /\ NoGuessYet'
  BY <1>1 DEF NothingUnreported, Reported, NoGuessYet, Source
<1>9. Collecting' /\ NotWalked' /\ KeptInOrder' /\ RestIsLater' /\ DoneIsDone' /\ Walked'
  BY <1>1 DEF ScanInv, Collecting, NotWalked, KeptInOrder, KeptDisjoint, RestIsLater, DoneIsDone, Walked, Source
<1> QED BY <1>3, <1>7, <1>8, <1>9 DEF ScanInv

LEMMA MergedScan == ScanInv /\ Merged => ScanInv'
BY DEF Merged, merged, walked, ScanInv, TypeOK, Collecting, NotWalked, KeptInOrder, KeptDisjoint, RestIsLater,
  NothingUnreported, Reported, GuessesApart, NoGuessYet, DoneIsDone, Walked, Source

LEMMA FinishScan == ScanInv /\ Finish => ScanInv'
<1> SUFFICES ASSUME ScanInv, Finish PROVE ScanInv'
  OBVIOUS
<1>1. /\ stage = "convert" /\ stage' = "done" /\ Len(chars) = 2 * Len(kept)
      /\ UNCHANGED <<text, raws, todo, kept, lastEnd, passed, chars>>
  BY DEF Finish, merged, walked
<1>2. TypeOK' /\ Collecting' /\ NotWalked' /\ DoneIsDone'
  BY <1>1 DEF ScanInv, TypeOK, Collecting, NotWalked, DoneIsDone, Source
<1>3. KeptInOrder' /\ RestIsLater' /\ GuessesApart'
  BY <1>1 DEF ScanInv, KeptInOrder, KeptDisjoint, RestIsLater, GuessesApart
<1>4. NothingUnreported' /\ NoGuessYet'
  BY <1>1 DEF ScanInv, NothingUnreported, Reported, NoGuessYet, Source
<1>5. Walked'
  BY <1>1 DEF ScanInv, Walked, Target, CharsBefore, Clamp
<1> QED BY <1>2, <1>3, <1>4, <1>5 DEF ScanInv

(* A match that fits goes after all that is kept; one that does not        *)
(* overlaps the last one, which begins no later and ends after its start.  *)
LEMMA MergeScan ==
  ASSUME ScanInv, NEW m \in todo, Merge(m)
  PROVE  ScanInv'
<1>1. /\ stage = "merge" /\ stage' = stage /\ text' = text /\ raws' = raws
      /\ todo' = todo \ {m} /\ m \in raws /\ passed' = passed /\ chars' = chars
  BY DEF Merge, walked, ScanInv, TypeOK
<1>2. \A o \in raws : o.start \in Nat /\ o.end \in Nat /\ o.start < o.end
  BY DEF ScanInv, TypeOK
<1>3. kept \in Seq(raws) /\ lastEnd = IF kept = <<>> THEN 0 ELSE kept[Len(kept)].end
  BY DEF ScanInv, TypeOK
<1>4. \A other \in todo' : m.start <= other.start
  BY <1>1, <1>2, BeforeStartsEarlier DEF Merge, ScanInv, TypeOK
<1>5. Collecting' /\ NotWalked' /\ NoGuessYet' /\ DoneIsDone' /\ Walked' /\ GuessesApart'
  BY <1>1 DEF ScanInv, Collecting, NotWalked, NoGuessYet, DoneIsDone, Walked, GuessesApart, Source
<1>6. CASE Fits(m, kept, lastEnd)
  <2>1. kept' = Append(kept, m) /\ lastEnd' = m.end
    BY <1>6 DEF Merge
  <2>2. /\ Len(kept') = Len(kept) + 1 /\ DOMAIN kept' = 1 .. Len(kept) + 1
        /\ kept'[Len(kept) + 1] = m
        /\ \A i \in 1 .. Len(kept) : kept'[i] = kept[i]
        /\ DOMAIN kept = 1 .. Len(kept) /\ Len(kept) \in Nat
    BY <2>1, <1>3
  <2>3. kept' \in Seq(raws) /\ kept' # <<>>
    BY <2>1, <1>1, <1>3
  <2>4. TypeOK'
    BY <2>1, <2>2, <2>3, <1>1 DEF ScanInv, TypeOK
  <2>5. \A i \in 1 .. Len(kept) : kept[i].end <= m.start /\ kept[i] \in raws
    BY <1>2, <1>3, <1>6, <2>2, <1>1 DEF Fits, ScanInv, KeptInOrder
  <2>6. KeptInOrder'
    BY <2>1, <2>2, <2>5, <1>1, <1>2 DEF ScanInv, KeptInOrder, KeptDisjoint
  <2>7. RestIsLater'
    BY <2>2, <1>1, <1>4 DEF ScanInv, RestIsLater
  <2>8. NothingUnreported'
    BY <2>2, <1>1 DEF ScanInv, NothingUnreported, Reported
  <2> QED BY <1>5, <2>4, <2>6, <2>7, <2>8 DEF ScanInv
<1>7. CASE ~Fits(m, kept, lastEnd)
  <2>1. kept' = kept /\ lastEnd' = lastEnd
    BY <1>7 DEF Merge
  <2>2. kept # <<>> /\ m.start < lastEnd /\ Len(kept) \in DOMAIN kept
        /\ kept[Len(kept)] \in raws /\ lastEnd = kept[Len(kept)].end
    BY <1>1, <1>2, <1>3, <1>7 DEF Fits
  <2>3. kept[Len(kept)].start <= m.start
    BY <2>2 DEF ScanInv, RestIsLater
  <2>4. Overlap(kept[Len(kept)], m)
    BY <2>2, <2>3, <1>1, <1>2 DEF Overlap
  <2>5. NothingUnreported'
    BY <2>1, <2>2, <2>4, <1>1 DEF ScanInv, NothingUnreported, Reported
  <2>6. TypeOK' /\ KeptInOrder' /\ RestIsLater'
    BY <2>1, <1>1 DEF ScanInv, TypeOK, KeptInOrder, KeptDisjoint, RestIsLater
  <2> QED BY <1>5, <2>5, <2>6 DEF ScanInv
<1> QED BY <1>6, <1>7

(* How many characters of a text begin before byte b: the first n, where   *)
(* the walk stops.                                                         *)
Stops(t, b, n) ==
  /\ n \in 0 .. Len(t.at)
  /\ n = Len(t.at) \/ t.at[n + 1] >= b
  /\ \A k \in 0 .. n - 1 : t.at[k + 1] < b

LEMMA StopsOnce ==
  ASSUME NEW t \in Text, NEW b \in Nat, NEW c \in Nat, b <= c,
         NEW m, Stops(t, b, m), NEW n, Stops(t, c, n)
  PROVE  m <= n /\ (b = c => m = n)
<1>1. DOMAIN t.at = 1 .. Len(t.at) /\ Len(t.at) \in Nat /\ \A i \in DOMAIN t.at : t.at[i] \in Nat
  BY TextAssumption DEF IsText
<1>2. m \in Nat /\ n \in Nat /\ m <= Len(t.at) /\ n <= Len(t.at)
  BY <1>1 DEF Stops
<1>3. ~(n < m)
  <2> SUFFICES ASSUME n < m PROVE FALSE
    OBVIOUS
  <2>1. n \in 0 .. m - 1 /\ n + 1 \in DOMAIN t.at /\ n # Len(t.at)
    BY <1>1, <1>2
  <2>2. t.at[n + 1] < b /\ t.at[n + 1] >= c /\ t.at[n + 1] \in Nat
    BY <1>1, <2>1 DEF Stops
  <2> QED BY <2>2
<1>4. ASSUME b = c PROVE ~(m < n)
  <2> SUFFICES ASSUME m < n PROVE FALSE
    OBVIOUS
  <2>1. m \in 0 .. n - 1 /\ m + 1 \in DOMAIN t.at /\ m # Len(t.at)
    BY <1>1, <1>2
  <2>2. t.at[m + 1] < c /\ t.at[m + 1] >= b /\ t.at[m + 1] \in Nat
    BY <1>1, <2>1 DEF Stops
  <2> QED BY <1>4, <2>2
<1> QED BY <1>2, <1>3, <1>4

(* A set of naturals has a least element. *)
LEMMA LeastNat ==
  ASSUME NEW S \in SUBSET Nat, S # {}
  PROVE  \E m \in S : \A n \in S : m <= n
<1> DEFINE R == {ss \in Nat \X Nat : ss[1] < ss[2]}
<1>1. IsWellFoundedOn(R, Nat)
  BY NatLessThanWellFounded DEF OpToRel
<1>2. \A x \in Nat, y \in Nat : y < x => <<y, x>> \in R
  OBVIOUS
<1> HIDE DEF R
<1>3. PICK m \in S : \A n \in S : <<n, m>> \notin R
  BY <1>1, WFMin
<1>4. \A n \in S : ~(n < m)
  BY <1>2, <1>3
<1> QED BY <1>4

LEMMA Stop ==
  ASSUME NEW t \in Text, NEW b \in Nat
  PROVE  \E n : Stops(t, b, n) /\ n = Cardinality({i \in DOMAIN t.at : t.at[i] < b})
<1> DEFINE Q == {n \in 0 .. Len(t.at) : n = Len(t.at) \/ t.at[n + 1] >= b}
<1>1. DOMAIN t.at = 1 .. Len(t.at) /\ Len(t.at) \in Nat
      /\ (\A i \in DOMAIN t.at : t.at[i] \in Nat)
      /\ \A i, j \in DOMAIN t.at : i < j => t.at[i] < t.at[j]
  BY TextAssumption DEF IsText
<1>3. Len(t.at) \in Q /\ Q \subseteq Nat
  BY <1>1
<1>4. PICK n \in Q : \A k \in Q : n <= k
  <2> HIDE DEF Q
  <2> QED BY <1>3, LeastNat
<1>5. \A k \in Q : ~(k < n)
  BY <1>1, <1>4
<1>6. n \in Nat /\ n <= Len(t.at)
  BY <1>1
<1>7. ASSUME NEW k \in 0 .. n - 1 PROVE t.at[k + 1] < b
  <2>1. k \in 0 .. Len(t.at) /\ k < n /\ k # Len(t.at) /\ k + 1 \in DOMAIN t.at
    BY <1>1, <1>6
  <2>2. k \notin Q
    BY <1>5, <2>1
  <2>3. t.at[k + 1] \in Nat /\ ~(t.at[k + 1] >= b)
    BY <1>1, <2>1, <2>2
  <2> QED BY <2>3
<1>8. Stops(t, b, n)
  BY <1>7 DEF Stops
<1>9. {i \in DOMAIN t.at : t.at[i] < b} = 1 .. n
  <2>1. ASSUME NEW i \in 1 .. n PROVE i \in DOMAIN t.at /\ t.at[i] < b
    <3>1. i - 1 \in 0 .. n - 1 /\ (i - 1) + 1 = i /\ i \in DOMAIN t.at
      BY <1>1, <1>6
    <3> QED BY <1>7, <3>1
  <2>2. ASSUME NEW i \in DOMAIN t.at, t.at[i] < b PROVE i \in 1 .. n
    <3> SUFFICES ASSUME n < i PROVE FALSE
      BY <1>1, <1>6
    <3>1. n + 1 \in DOMAIN t.at /\ n # Len(t.at)
      BY <1>1, <1>6
    <3>2. t.at[n + 1] >= b /\ t.at[n + 1] \in Nat /\ t.at[i] \in Nat
      BY <1>1, <3>1
    <3>3. n + 1 = i \/ t.at[n + 1] < t.at[i]
      BY <1>1, <1>6, <3>1
    <3> QED BY <2>2, <3>2, <3>3
  <2> QED BY <2>1, <2>2
<1>10. Cardinality(1 .. n) = n
  BY <1>6, FS_Interval
<1> QED BY <1>8, <1>9, <1>10

(* One walk after another counts as a walk from the beginning would. *)
LEMMA WalkCounts ==
  ASSUME NEW t \in Text, NEW b \in Nat, NEW c \in Nat, b <= c, NEW m,
         Stops(t, b, m) \/ m = 0
  PROVE  Stops(t, c, Walk(t, m, c))
<1>1. PICK n : Stops(t, c, n)
  BY Stop
<1>2. m \in Nat /\ m <= n /\ n \in Nat /\ n <= Len(t.at) /\ Len(t.at) \in Nat
  <2>1. n \in Nat /\ n <= Len(t.at) /\ Len(t.at) \in Nat
    BY <1>1, TextAssumption DEF Stops, IsText
  <2>2. CASE m = 0
    BY <2>1, <2>2
  <2>3. CASE Stops(t, b, m)
    <3>1. m <= n
      BY <1>1, <2>3, StopsOnce
    <3> QED BY <2>1, <2>3, <3>1 DEF Stops
  <2> QED BY <2>2, <2>3
<1> DEFINE P(w) == /\ w = Len(t.at) \/ t.at[w + 1] >= c
                   /\ \A k \in m .. w - 1 : t.at[k + 1] < c
<1>3. n \in m .. Len(t.at) /\ P(n)
  BY <1>1, <1>2 DEF Stops
<1>4. Walk(t, m, c) = CHOOSE w \in m .. Len(t.at) : P(w)
  BY DEF Walk
<1>5. Walk(t, m, c) \in m .. Len(t.at) /\ P(Walk(t, m, c))
  <2> HIDE DEF P
  <2> QED BY <1>3, <1>4
<1>6. ASSUME NEW k \in 0 .. m - 1 PROVE t.at[k + 1] < c
  <2>1. Stops(t, b, m)
    BY <1>2, <1>6
  <2>2. t.at[k + 1] < b
    BY <2>1, <1>6 DEF Stops
  <2>3. t.at[k + 1] \in Nat
    <3>1. k + 1 \in DOMAIN t.at
      BY <1>2, TextAssumption DEF IsText
    <3> QED BY <3>1, TextAssumption DEF IsText
  <2> QED BY <2>2, <2>3
<1> QED BY <1>2, <1>5, <1>6 DEF Stops

LEMMA CountIsStop ==
  ASSUME ScanInv, NEW b \in Nat
  PROVE  Stops(text, b, CharsBefore(b))
BY Stop DEF CharsBefore, ScanInv, TypeOK

(* The boundaries ascend. *)
LEMMA TargetsAscend ==
  ASSUME ScanInv, NEW k \in Nat, k + 1 <= 2 * Len(kept)
  PROVE  /\ Target(k + 1) \in Nat
         /\ k > 0 => Target(k) \in Nat /\ Target(k) <= Target(k + 1)
<1>1. /\ Len(kept) \in Nat /\ DOMAIN kept = 1 .. Len(kept)
      /\ \A i \in DOMAIN kept : kept[i] \in raws
      /\ \A m \in raws : m.start \in Nat /\ m.end \in Nat /\ m.start < m.end
      /\ \A i, j \in DOMAIN kept : i < j => kept[i].end <= kept[j].start
  BY DEF ScanInv, TypeOK, KeptInOrder, KeptDisjoint
<1>2. PICK q \in Nat : k = 2 * q \/ k = 2 * q + 1
  <2>1. k = 2 * (k \div 2) \/ k = 2 * (k \div 2) + 1
    OBVIOUS
  <2>2. k \div 2 \in Nat
    OBVIOUS
  <2> QED BY <2>1, <2>2
<1>3. CASE k = 2 * q
  <2>1. (k + 2) \div 2 = q + 1 /\ (k + 1) % 2 = 1 /\ (k + 1) \div 2 = q /\ k % 2 # 1
    BY <1>3
  <2>2. Target(k + 1) = kept[q + 1].start /\ Target(k) = kept[q].end
    BY <2>1 DEF Target
  <2>3. q + 1 \in DOMAIN kept /\ (k > 0 => q \in DOMAIN kept /\ q < q + 1)
    BY <1>1, <1>3
  <2> QED BY <1>1, <2>2, <2>3
<1>4. CASE k = 2 * q + 1
  <2>1. (k + 2) \div 2 = q + 1 /\ (k + 1) % 2 # 1 /\ (k + 1) \div 2 = q + 1 /\ k % 2 = 1
    BY <1>4
  <2>2. Target(k + 1) = kept[q + 1].end /\ Target(k) = kept[q + 1].start
    BY <2>1 DEF Target
  <2>3. q + 1 \in DOMAIN kept
    BY <1>1, <1>4
  <2> QED BY <1>1, <2>2, <2>3
<1> QED BY <1>2, <1>3, <1>4

LEMMA ConvertScan == ScanInv /\ Convert => ScanInv'
<1> SUFFICES ASSUME ScanInv, Convert PROVE ScanInv'
  OBVIOUS
<1> DEFINE k == Len(chars)
<1>1. /\ stage = "convert" /\ stage' = stage /\ text' = text /\ raws' = raws
      /\ todo' = todo /\ kept' = kept /\ lastEnd' = lastEnd
      /\ k < 2 * Len(kept) /\ passed' = Walk(text, passed, Target(k + 1))
      /\ chars' = Append(chars, Clamp(passed'))
  BY DEF Convert, merged
<1>2. /\ k \in Nat /\ Len(kept) \in Nat /\ chars \in Seq(0 .. MaxU32) /\ text \in Text
      /\ DOMAIN chars = 1 .. k
  BY DEF ScanInv, TypeOK
<1>3. Target(k + 1) \in Nat /\ (k > 0 => Target(k) \in Nat /\ Target(k) <= Target(k + 1))
  BY <1>1, <1>2, TargetsAscend
<1> HIDE DEF k
<1>4. Stops(text, Target(k + 1), passed')
  <2>1. CASE k = 0
    <3>1. passed = 0
      BY <1>1, <1>2, <2>1 DEF ScanInv, Walked, k
    <3> QED BY <1>1, <1>2, <1>3, <3>1, WalkCounts
  <2>2. CASE k > 0
    <3>1. passed = CharsBefore(Target(k))
      BY <1>1, <1>2, <2>2 DEF ScanInv, Walked, k
    <3>2. Stops(text, Target(k), passed)
      BY <1>3, <2>2, <3>1, CountIsStop
    <3> QED BY <1>1, <1>2, <1>3, <2>2, <3>2, WalkCounts
  <2> QED BY <1>2, <2>1, <2>2
<1>5. passed' = CharsBefore(Target(k + 1))
  <2>1. Stops(text, Target(k + 1), CharsBefore(Target(k + 1)))
    BY <1>3, CountIsStop
  <2>2. passed' \in Nat /\ CharsBefore(Target(k + 1)) \in Nat
    BY <1>4, <2>1 DEF Stops
  <2> QED BY <1>2, <1>3, <1>4, <2>1, <2>2, StopsOnce
<1>6. passed' \in 0 .. Len(text.at) /\ Len(text.at) \in Nat
  BY <1>2, <1>4, TextAssumption DEF Stops, IsText
<1>7. Clamp(passed') \in 0 .. MaxU32
  BY <1>6, RedactionAssumption DEF Clamp
<1>8. /\ chars' \in Seq(0 .. MaxU32) /\ Len(chars') = k + 1 /\ chars'[k + 1] = Clamp(passed')
      /\ \A i \in 1 .. k : chars'[i] = chars[i]
      /\ chars' # <<>> /\ DOMAIN chars' = 1 .. k + 1
  BY <1>1, <1>2, <1>7 DEF k
<1>9. TypeOK'
  BY <1>1, <1>6, <1>8 DEF ScanInv, TypeOK
<1>10. Walked'
  <2>1. \A i \in 1 .. 2 * Len(kept) : Target(i)' = Target(i)
    BY <1>1 DEF Target
  <2>2. \A b : CharsBefore(b)' = CharsBefore(b)
    BY <1>1 DEF CharsBefore
  <2>3. \A i \in 1 .. k : chars[i] = Clamp(CharsBefore(Target(i)))
    BY <1>1, <1>2 DEF ScanInv, Walked
  <2>4. ASSUME NEW i \in DOMAIN chars' PROVE chars'[i] = Clamp(CharsBefore(Target(i)))'
    <3>1. Clamp(CharsBefore(Target(i)))' = Clamp(CharsBefore(Target(i)))
      BY <1>1 DEF Target, CharsBefore, Clamp
    <3>2. i \in 1 .. k \/ i = k + 1
      BY <1>2, <1>8
    <3> QED BY <1>5, <1>8, <2>3, <3>1, <3>2
  <2>5. passed' = CharsBefore(Target(Len(chars)))'
    BY <1>1, <1>5, <1>8 DEF Target, CharsBefore
  <2>6. Len(chars') <= 2 * Len(kept)
    BY <1>1, <1>2, <1>8
  <2> QED BY <1>1, <1>8, <2>4, <2>5, <2>6 DEF Walked
<1>11. Collecting' /\ NotWalked' /\ KeptInOrder' /\ RestIsLater' /\ DoneIsDone'
  BY <1>1 DEF ScanInv, Collecting, NotWalked, KeptInOrder, KeptDisjoint, RestIsLater, DoneIsDone, Source
<1>12. NothingUnreported' /\ GuessesApart' /\ NoGuessYet'
  BY <1>1 DEF ScanInv, NothingUnreported, Reported, GuessesApart, NoGuessYet, Source
<1> QED BY <1>9, <1>10, <1>11, <1>12 DEF ScanInv

LEMMA StepScan == ScanInv /\ [Next]_vars => ScanInv'
<1> SUFFICES ASSUME ScanInv, [Next]_vars PROVE ScanInv'
  OBVIOUS
<1>1. ASSUME NEW span \in Spans(text),
             \/ Provider(span) \/ Gated(span) \/ Url(span)
             \/ KeyValue(span) \/ UserRule(span)
      PROVE  ScanInv'
  <2>1. PICK source \in Source \ {"entropy"} : Push(source, span)
    BY <1>1 DEF Provider, Gated, Url, KeyValue, UserRule, PushGated, Source
  <2> QED BY <2>1, PushScan
<1>2. CASE \/ Turn("provider", "gated") \/ Turn("gated", "url") \/ Turn("url", "kv")
           \/ Turn("kv", "user") \/ Turn("user", "entropy")
  BY <1>2, TurnScan DEF Source
<1>3. CASE Entropy
  BY <1>3, EntropyScan
<1>4. ASSUME NEW m \in todo, Merge(m) PROVE ScanInv'
  BY <1>4, MergeScan
<1>5. CASE Merged
  BY <1>5, MergedScan
<1>6. CASE Convert
  BY <1>6, ConvertScan
<1>7. CASE Finish
  BY <1>7, FinishScan
<1>8. CASE UNCHANGED vars
  BY <1>8 DEF vars, merged, walked, ScanInv, TypeOK, Collecting, NotWalked, KeptInOrder, KeptDisjoint, RestIsLater,
    NothingUnreported, Reported, GuessesApart, NoGuessYet, DoneIsDone, Walked, Target, CharsBefore
<1> QED BY <1>1, <1>2, <1>3, <1>4, <1>5, <1>6, <1>7, <1>8 DEF Next

LEMMA ScanInvariant == Spec => []ScanInv
BY InitScan, StepScan, PTL DEF Spec

(***************************************************************************)
(* Every match, pushed or kept, is a span of the text that is not empty,   *)
(* whatever the rules of the user are.                                     *)
(***************************************************************************)
THEOREM ScanTypes == Spec => []TypeOK
BY ScanInvariant, PTL DEF ScanInv

(***************************************************************************)
(* The matches kept are ordered and disjoint, for every text and every set *)
(* of matches: what byte_to_char_offsets relies on.                        *)
(***************************************************************************)
THEOREM MergeIsDisjoint == Spec => []KeptDisjoint
BY ScanInvariant, PTL DEF ScanInv, KeptInOrder

(***************************************************************************)
(* Every match that was looked at is kept or overlaps one that is.         *)
(***************************************************************************)
THEOREM MergeLosesNothing == Spec => []NothingUnreported
BY ScanInvariant, PTL DEF ScanInv

(***************************************************************************)
(* is_secret and detect_secrets never disagree.                            *)
(***************************************************************************)
THEOREM VerdictsAgree == Spec => []VerdictMatchesSpans
<1>1. ScanInv => VerdictMatchesSpans
  <2> SUFFICES ASSUME ScanInv, stage = "done" PROVE raws # {} <=> kept # <<>>
    BY DEF VerdictMatchesSpans, IsSecret
  <2>1. ASSUME raws # {} PROVE kept # <<>>
    <3>1. PICK m \in raws : m \notin todo
      BY <2>1 DEF ScanInv, DoneIsDone
    <3>2. DOMAIN kept # {}
      BY <3>1 DEF ScanInv, NothingUnreported, Reported, Source
    <3> QED BY <3>2
  <2>2. ASSUME kept # <<>> PROVE raws # {}
    BY <2>2 DEF ScanInv, TypeOK
  <2> QED BY <2>1, <2>2
<1> QED BY <1>1, ScanInvariant, PTL

(***************************************************************************)
(* An entropy match overlaps no other match, and is always kept.           *)
(***************************************************************************)
THEOREM GuessesAreHarmless == Spec => []GuessesHideNothing
<1>1. ScanInv => GuessesHideNothing
  <2> SUFFICES ASSUME ScanInv, NEW m \in raws, m.source = "entropy"
               PROVE  /\ \A other \in raws \ {m} : ~Overlap(m, other)
                      /\ stage = "done" => \E i \in DOMAIN kept : kept[i] = m
    BY DEF GuessesHideNothing
  <2>1. \A other \in raws \ {m} : ~Overlap(m, other)
    BY DEF ScanInv, GuessesApart
  <2>2. ASSUME stage = "done" PROVE \E i \in DOMAIN kept : kept[i] = m
    <3>1. PICK i \in DOMAIN kept : kept[i] = m \/ Overlap(kept[i], m)
      BY <2>2 DEF ScanInv, DoneIsDone, NothingUnreported, Reported, Source
    <3>2. kept[i] \in raws
      BY <3>1 DEF ScanInv, TypeOK
    <3> QED BY <2>1, <3>1, <3>2 DEF Overlap
  <2> QED BY <2>1, <2>2
<1> QED BY <1>1, ScanInvariant, PTL

----------------------------------------------------------------------------
(***************************************************************************)
(* What stands behind a match: it begins at a character; a captured value  *)
(* in it has a sign that it is no word; a guess is of token characters of  *)
(* three classes, not all of them hexadecimal.                             *)
(***************************************************************************)
Reason(m) ==
  /\ \E i \in DOMAIN text.at : text.at[i] = m.start
  /\ m.source \in {"gated", "url", "kv"} =>
       \E i \in Inside(text, m) : Class[text.chars[i]] \in Signal
  /\ m.source = "entropy" =>
       /\ ~(Symbols(text, m) \subseteq Hex)
       /\ Cardinality({Class[c] : c \in Symbols(text, m)}) >= 3
       /\ \A i \in Inside(text, m) : Class[text.chars[i]] # "other"

ReasonInv == ScanInv /\ \A m \in raws : Reason(m)

LEMMA SpanStarts ==
  ASSUME NEW t \in Text, NEW span \in Spans(t), NonEmpty(span)
  PROVE  \E i \in DOMAIN t.at : t.at[i] = span.start
<1>1. PICK p \in t.cuts \X t.cuts :
        span = [start |-> Boundary(t, p[1]), end |-> Boundary(t, p[2])]
  BY DEF Spans
<1>2. span.start < span.end /\ span.end <= t.bytes /\ span.start \in Nat /\ span.end \in Nat
      /\ t.bytes \in Nat
  BY SpanType, BoundaryType DEF NonEmpty
<1>3. span.start # t.bytes
  BY <1>2
<1> QED BY <1>1, <1>3 DEF Boundary

LEMMA RunOfTokens ==
  ASSUME NEW t \in Text, NEW r \in Runs(t)
  PROVE  /\ \E i \in DOMAIN t.at : t.at[i] = r.start
         /\ Inside(t, r) \subseteq TokenChars(t)
<1>1. PICK p \in TokenChars(t) \X TokenChars(t) :
        /\ r = [start |-> t.at[p[1]], end |-> Boundary(t, p[2] + 1)]
        /\ p[1] .. p[2] # {} /\ p[1] .. p[2] \subseteq TokenChars(t)
  BY DEF Runs
<1>2. /\ DOMAIN t.at = 1 .. Len(t.at) /\ Len(t.at) \in Nat /\ t.bytes \in Nat
      /\ \A i \in DOMAIN t.at : t.at[i] \in Nat
      /\ \A i, j \in DOMAIN t.at : i < j => t.at[i] < t.at[j]
  BY TextAssumption DEF IsText
<1>3. p[1] \in DOMAIN t.at /\ p[2] \in DOMAIN t.at
  BY DEF TokenChars
<1>4. ASSUME NEW i \in Inside(t, r) PROVE i \in p[1] .. p[2]
  <2>1. i \in DOMAIN t.at /\ t.at[p[1]] <= t.at[i] /\ t.at[i] < Boundary(t, p[2] + 1)
    BY <1>1 DEF Inside
  <2>2. ~(i < p[1])
    BY <1>2, <1>3, <2>1
  <2>3. ~(p[2] < i)
    <3> SUFFICES ASSUME p[2] < i PROVE FALSE
      OBVIOUS
    <3>1. p[2] + 1 \in DOMAIN t.at
      BY <1>2, <1>3, <2>1
    <3>2. Boundary(t, p[2] + 1) = t.at[p[2] + 1]
      BY <3>1 DEF Boundary
    <3>3. p[2] + 1 = i \/ t.at[p[2] + 1] < t.at[i]
      BY <1>2, <1>3, <2>1, <3>1
    <3>4. t.at[i] \in Nat /\ t.at[p[2] + 1] \in Nat
      BY <1>2, <2>1, <3>1
    <3> QED BY <2>1, <3>2, <3>3, <3>4
  <2> QED BY <1>2, <1>3, <2>1, <2>2, <2>3
<1> QED BY <1>1, <1>3, <1>4

LEMMA InitReason == Init => ReasonInv
BY InitScan DEF Init, ReasonInv

LEMMA PushReason ==
  ASSUME ReasonInv, NEW span \in Spans(text),
         \/ Provider(span) \/ Gated(span) \/ Url(span)
         \/ KeyValue(span) \/ UserRule(span)
  PROVE  \A m \in raws' : Reason(m)'
<1>1. PICK source \in Source \ {"entropy"} :
        /\ Push(source, span)
        /\ source \in {"gated", "url", "kv"} => PushGated(source, span)
  BY DEF Provider, Gated, Url, KeyValue, UserRule, PushGated, Source
<1>2. NonEmpty(span) /\ raws' = raws \cup {Match(source, span)} /\ text' = text
  BY <1>1 DEF Push
<1>3. text \in Text
  BY DEF ReasonInv, ScanInv, TypeOK
<1> DEFINE m == Match(source, span)
<1>4. m.start = span.start /\ m.end = span.end /\ m.source = source
  BY DEF Match
<1> HIDE DEF m
<1>5. \E i \in DOMAIN text.at : text.at[i] = m.start
  BY <1>2, <1>3, <1>4, SpanStarts
<1>6. ASSUME source \in {"gated", "url", "kv"}
      PROVE  \E i \in Inside(text, m) : Class[text.chars[i]] \in Signal
  <2>1. PICK value \in Spans(text) :
          /\ span.start <= value.start /\ value.end <= span.end
          /\ LooksLikeSecretValue(text, value)
    BY <1>1, <1>6 DEF PushGated
  <2>2. PICK i \in Inside(text, value) : Class[text.chars[i]] \in Signal
    BY <2>1 DEF LooksLikeSecretValue, Symbols
  <2>3. i \in DOMAIN text.at /\ value.start <= text.at[i] /\ text.at[i] < value.end
    BY <2>2 DEF Inside
  <2>4. text.at[i] \in Nat /\ value.start \in Nat /\ value.end \in Nat
        /\ span.start \in Nat /\ span.end \in Nat
    BY <1>3, <2>3, SpanType, TextAssumption DEF IsText
  <2>5. i \in Inside(text, m)
    BY <1>4, <2>1, <2>3, <2>4 DEF Inside
  <2> QED BY <2>2, <2>5
<1>7. Reason(m)
  BY <1>4, <1>5, <1>6 DEF Reason
<1>8. \A o \in raws \cup {m} : Reason(o)
  BY <1>7 DEF ReasonInv
<1> QED BY <1>2, <1>8 DEF Reason, Inside, Symbols, m

LEMMA EntropyReason ==
  ASSUME ReasonInv, Entropy
  PROVE  \A m \in raws' : Reason(m)'
<1>1. text \in Text /\ text' = text
  BY DEF ReasonInv, ScanInv, TypeOK, Entropy
<1>2. ASSUME NEW m \in raws' PROVE Reason(m)
  <2>1. CASE m \in raws
    BY <2>1 DEF ReasonInv
  <2>2. CASE m \notin raws
    <3>1. PICK r \in Runs(text) : Qualifies(text, r) /\ m = Match("entropy", r)
      BY <2>2 DEF Entropy
    <3>2. m.start = r.start /\ m.end = r.end /\ m.source = "entropy"
      BY <3>1 DEF Match
    <3>3. Inside(text, m) = Inside(text, r) /\ Symbols(text, m) = Symbols(text, r)
      BY <3>2 DEF Inside, Symbols
    <3>4. /\ \E i \in DOMAIN text.at : text.at[i] = m.start
          /\ \A i \in Inside(text, m) : Class[text.chars[i]] # "other"
      BY <1>1, <3>2, <3>3, RunOfTokens DEF TokenChars
    <3>5. /\ ~(Symbols(text, m) \subseteq Hex)
          /\ Cardinality({Class[c] : c \in Symbols(text, m)}) >= 3
      BY <3>1, <3>3 DEF Qualifies
    <3> QED BY <3>2, <3>4, <3>5 DEF Reason
  <2> QED BY <2>1, <2>2
<1> QED BY <1>1, <1>2 DEF Reason, Inside, Symbols

LEMMA StepReason == ReasonInv /\ [Next]_vars => ReasonInv'
<1> SUFFICES ASSUME ReasonInv, [Next]_vars PROVE ReasonInv'
  OBVIOUS
<1>1. ScanInv'
  BY StepScan DEF ReasonInv
<1>2. ASSUME UNCHANGED <<text, raws>> PROVE \A m \in raws' : Reason(m)'
  BY <1>2 DEF ReasonInv, Reason, Inside, Symbols
<1>3. CASE \/ Turn("provider", "gated") \/ Turn("gated", "url") \/ Turn("url", "kv")
           \/ Turn("kv", "user") \/ Turn("user", "entropy")
           \/ (\E m \in todo : Merge(m)) \/ Merged \/ Convert \/ Finish \/ UNCHANGED vars
  <2>1. UNCHANGED <<text, raws>>
    BY <1>3 DEF Turn, Merge, Merged, Convert, Finish, vars
  <2> QED BY <1>1, <1>2, <2>1 DEF ReasonInv
<1>4. CASE Entropy
  BY <1>1, <1>4, EntropyReason DEF ReasonInv
<1>5. ASSUME NEW span \in Spans(text),
             \/ Provider(span) \/ Gated(span) \/ Url(span)
             \/ KeyValue(span) \/ UserRule(span)
      PROVE  ReasonInv'
  BY <1>1, <1>5, PushReason DEF ReasonInv
<1> QED BY <1>3, <1>4, <1>5 DEF Next

LEMMA ReasonInvariant == Spec => []ReasonInv
BY InitReason, StepReason, PTL DEF Spec

(***************************************************************************)
(* The character spans returned are those of the bytes that matched, for   *)
(* every text and every set of matches.                                    *)
(***************************************************************************)
THEOREM SpansAreFaithful == Spec => []CharSpansFaithful
<1>1. ReasonInv => CharSpansFaithful
  <2> SUFFICES ASSUME ReasonInv, stage = "done", NEW i \in DOMAIN kept
               PROVE  /\ chars[2 * i - 1] = Clamp(CharsBefore(kept[i].start))
                      /\ chars[2 * i] = Clamp(CharsBefore(kept[i].end))
                      /\ chars[2 * i - 1] < chars[2 * i] \/ chars[2 * i] = MaxU32
    BY DEF CharSpansFaithful
  <2>1. /\ ScanInv /\ text \in Text /\ kept \in Seq(raws) /\ kept[i] \in raws
        /\ Len(chars) = 2 * Len(kept) /\ Len(kept) \in Nat /\ DOMAIN kept = 1 .. Len(kept)
        /\ DOMAIN chars = 1 .. Len(chars)
        /\ \A k \in DOMAIN chars : chars[k] = Clamp(CharsBefore(Target(k)))
    BY DEF ReasonInv, ScanInv, TypeOK, Walked
  <2>2. /\ 2 * i - 1 \in DOMAIN chars /\ 2 * i \in DOMAIN chars
        /\ ((2 * i - 1) + 1) \div 2 = i /\ (2 * i - 1) % 2 = 1
        /\ (2 * i + 1) \div 2 = i /\ (2 * i) % 2 # 1
    <3>1. i \in Nat /\ 1 <= i /\ i <= Len(kept)
      BY <2>1
    <3>2. 2 * i - 1 \in 1 .. Len(chars) /\ 2 * i \in 1 .. Len(chars)
      BY <2>1, <3>1
    <3>3. (2 * i - 1) + 1 = 2 * i /\ (2 * i) \div 2 = i /\ (2 * i) % 2 = 0
      BY <3>1
    <3>4. (2 * i + 1) \div 2 = i /\ (2 * i - 1) % 2 = 1
      BY <3>1
    <3> QED BY <2>1, <3>2, <3>3, <3>4
  <2>3. Target(2 * i - 1) = kept[i].start /\ Target(2 * i) = kept[i].end
    BY <2>2 DEF Target
  <2>4. /\ kept[i].start \in Nat /\ kept[i].end \in Nat /\ kept[i].start < kept[i].end
    BY <2>1 DEF ScanInv, TypeOK
  <2>5. CharsBefore(kept[i].start) \in Nat /\ CharsBefore(kept[i].end) \in Nat
        /\ CharsBefore(kept[i].start) < CharsBefore(kept[i].end)
    <3> DEFINE m == CharsBefore(kept[i].start)
               n == CharsBefore(kept[i].end)
    <3>1. Stops(text, kept[i].start, m) /\ Stops(text, kept[i].end, n)
      BY <2>1, <2>4, CountIsStop
    <3>2. PICK j \in DOMAIN text.at : text.at[j] = kept[i].start
      BY <2>1 DEF ReasonInv, Reason
    <3>3. /\ DOMAIN text.at = 1 .. Len(text.at) /\ Len(text.at) \in Nat
          /\ \A a, b \in DOMAIN text.at : a < b => text.at[a] < text.at[b]
          /\ \A a \in DOMAIN text.at : text.at[a] \in Nat
      BY <2>1, TextAssumption DEF IsText
    <3> HIDE DEF m, n
    <3>4. m \in 0 .. Len(text.at) /\ n \in 0 .. Len(text.at)
      BY <3>1 DEF Stops
    <3>5. m < j
      <4> SUFFICES ASSUME j <= m PROVE FALSE
        BY <3>2, <3>3, <3>4
      <4>1. j - 1 \in 0 .. m - 1 /\ (j - 1) + 1 = j
        BY <3>2, <3>3, <3>4
      <4>2. text.at[j] < kept[i].start
        BY <3>1, <4>1 DEF Stops
      <4> QED BY <2>4, <3>2, <4>2
    <3>6. j <= n
      <4> SUFFICES ASSUME n < j PROVE FALSE
        BY <3>2, <3>3, <3>4
      <4>1. n # Len(text.at) /\ n + 1 \in DOMAIN text.at
        BY <3>2, <3>3, <3>4
      <4>2. text.at[n + 1] >= kept[i].end
        BY <3>1, <4>1 DEF Stops
      <4>3. n + 1 = j \/ text.at[n + 1] < text.at[j]
        BY <3>2, <3>3, <3>4, <4>1
      <4>4. text.at[n + 1] \in Nat
        BY <3>3, <4>1
      <4> QED BY <2>4, <3>2, <4>2, <4>3, <4>4
    <3> QED BY <3>2, <3>3, <3>4, <3>5, <3>6 DEF m, n
  <2>6. /\ chars[2 * i - 1] = Clamp(CharsBefore(kept[i].start))
        /\ chars[2 * i] = Clamp(CharsBefore(kept[i].end))
    BY <2>1, <2>2, <2>3
  <2>7. \A a, b \in Nat : a < b => Clamp(a) < Clamp(b) \/ Clamp(b) = MaxU32
    BY RedactionAssumption DEF Clamp
  <2> QED BY <2>5, <2>6, <2>7
<1> QED BY <1>1, ReasonInvariant, PTL

(***************************************************************************)
(* Whatever the style, a text with a secret is not displayed whole.        *)
(***************************************************************************)
THEOREM SecretsAreMasked == Spec => []MaskHides
<1>1. ScanInv => MaskHides
  <2> SUFFICES ASSUME ScanInv, kept # <<>>, NEW style \in MaskStyle
               PROVE  LET shown == Displayed(text, IsSecret, TRUE, style)
                      IN  /\ shown \subseteq DOMAIN text.at
                          /\ Cardinality(shown) <= Keep[style]
                          /\ Len(text.at) <= Keep[style] => shown = {}
    BY DEF MaskHides
  <2> DEFINE n == Len(text.at)
             shown == Displayed(text, IsSecret, TRUE, style)
             keep == Keep[style]
  <2>1. /\ n \in Nat /\ DOMAIN text.at = 1 .. n
    BY TextAssumption DEF ScanInv, TypeOK, IsText
  <2>2. IsSecret
    BY DEF IsSecret, ScanInv, TypeOK
  <2>3. shown = Shown(style, n)
    BY <2>2 DEF Displayed
  <2>4. keep \in Nat
    BY DEF Keep, MaskStyle
  <2>5. Bare(style, n) <=> n > keep
    BY DEF Bare
  <2>6. ~Bare(style, n) => shown = {}
    BY <2>3 DEF Shown
  <2>7. Bare(style, n) => shown = n - keep + 1 .. n \/ shown = 1 .. keep
    BY <2>3 DEF Shown
  <2> HIDE DEF n, shown, keep
  <2>8. shown \subseteq 1 .. n /\ Cardinality(shown) <= keep /\ (n <= keep => shown = {})
    <3>1. CASE ~Bare(style, n)
      <4>1. Cardinality(shown) = 0
        BY <2>6, <3>1, FS_EmptySet
      <4> QED BY <2>4, <2>6, <3>1, <4>1
    <3>2. CASE Bare(style, n) /\ shown = n - keep + 1 .. n
      <4>1. Cardinality(n - keep + 1 .. n) = keep
        BY <2>1, <2>4, <2>5, <3>2, FS_Interval
      <4> QED BY <2>1, <2>4, <2>5, <3>2, <4>1
    <3>3. CASE Bare(style, n) /\ shown = 1 .. keep
      <4>1. Cardinality(1 .. keep) = keep
        BY <2>4, FS_Interval
      <4> QED BY <2>1, <2>4, <2>5, <3>3, <4>1
    <3> QED BY <2>7, <3>1, <3>2, <3>3
  <2> QED BY <2>1, <2>8 DEF n, shown, keep
<1> QED BY <1>1, ScanInvariant, PTL

(***************************************************************************)
(* Prose, digests and UUIDs are left alone by everything but provider      *)
(* tokens and the user's own rules.                                        *)
(***************************************************************************)
THEOREM PlainIsLeftAlone == Spec => []PlainStaysReadable
<1>1. ReasonInv => PlainStaysReadable
  <2> DEFINE symbols == {text.chars[i] : i \in DOMAIN text.at}
  <2> SUFFICES ASSUME ReasonInv, NEW m \in raws
               PROVE  /\ (\A c \in symbols : Class[c] \notin Signal) =>
                            m.source \in {"provider", "user"}
                      /\ (\A c \in symbols : c \in Hex \/ Class[c] = "other") =>
                            m.source # "entropy"
    BY DEF PlainStaysReadable
  <2>1. Reason(m) /\ m.source \in Source /\ text \in Text
    BY DEF ReasonInv, ScanInv, TypeOK
  <2>2. \A i \in Inside(text, m) : text.chars[i] \in symbols
    BY DEF Inside
  <2>3. ASSUME \A c \in symbols : c \in Hex \/ Class[c] = "other"
        PROVE  m.source # "entropy"
    BY <2>1, <2>2, <2>3 DEF Reason, Symbols
  <2>4. ASSUME \A c \in symbols : Class[c] \notin Signal
        PROVE  m.source \in {"provider", "user"}
    <3>1. m.source \notin {"gated", "url", "kv"}
      BY <2>1, <2>2, <2>4 DEF Reason
    <3>2. ASSUME m.source = "entropy" PROVE FALSE
      <4> DEFINE classes == {Class[c] : c \in Symbols(text, m)}
      <4>1. Cardinality(classes) >= 3
        BY <2>1, <3>2 DEF Reason
      <4>2. ASSUME NEW i \in Inside(text, m) PROVE Class[text.chars[i]] = "lower"
        <5>1. text.chars[i] \in symbols /\ text.chars[i] \in DOMAIN Class
          BY <2>1, TextAssumption DEF Inside, IsText
        <5>2. Class[text.chars[i]] \in CharClass
          BY <5>1, RedactionAssumption
        <5>3. Class[text.chars[i]] \notin Signal /\ Class[text.chars[i]] # "other"
          BY <2>1, <2>4, <3>2, <5>1 DEF Reason
        <5> QED BY <5>2, <5>3 DEF CharClass, Signal
      <4>3. classes \subseteq {"lower"}
        BY <4>2 DEF Symbols
      <4> HIDE DEF classes
      <4>4. IsFiniteSet({"lower"}) /\ Cardinality({"lower"}) = 1
        BY FS_Singleton
      <4>5. Cardinality(classes) <= 1 /\ Cardinality(classes) \in Nat
        BY <4>3, <4>4, FS_Subset, FS_CardinalityType
      <4> QED BY <4>1, <4>5
    <3> QED BY <2>1, <3>1, <3>2 DEF Source
  <2> QED BY <2>3, <2>4
<1> QED BY <1>1, ReasonInvariant, PTL

----------------------------------------------------------------------------
(* Random runs                                                             *)

(* Induction on a set of numbers. *)
LEMMA Counted ==
  ASSUME NEW T, 0 \in T, \A n \in Nat : n \in T => n + 1 \in T
  PROVE  \A n \in Nat : n \in T
<1> SUFFICES ASSUME NEW x \in Nat, x \notin T PROVE FALSE
  OBVIOUS
<1> DEFINE C == Nat \ T
<1>1. C \in SUBSET Nat /\ C # {}
  OBVIOUS
<1>2. PICK m \in C : \A n \in C : m <= n
  <2> HIDE DEF C
  <2> QED BY <1>1, LeastNat
<1>3. m \in Nat /\ m # 0 /\ m - 1 \in Nat /\ (m - 1) + 1 = m
  OBVIOUS
<1>4. m - 1 \in T
  BY <1>2, <1>3
<1> QED BY <1>3, <1>4

(* One time more. *)
LEMMA OneTimesMore == \A k \in Nat, x \in Int : (k + 1) * x = k * x + x
OBVIOUS

Chosen(S) == CHOOSE x \in S : TRUE

SumStep(t, run, S) ==
  CHOOSE g : g = [D \in SUBSET S |->
                    IF D = {} THEN 0 ELSE Worth(t, run, Chosen(D)) + g[D \ {Chosen(D)}]]

LEMMA SumIsStep ==
  ASSUME NEW t, NEW run, NEW S
  PROVE  MapThenSumSet(LAMBDA c : Worth(t, run, c), S) = SumStep(t, run, S)[S]
BY DEF MapThenSumSet, MapThenFoldSet, SumStep, Chosen

(* The sum of as many equal weights as there are symbols. *)
LEMMA EvenSum ==
  ASSUME NEW t, NEW run, NEW S, IsFiniteSet(S), NEW K \in Int,
         \A c \in S : Worth(t, run, c) = K
  PROVE  SumStep(t, run, S)[S] = Cardinality(S) * K
<1> DEFINE f == SumStep(t, run, S)
           g == [D \in SUBSET S |-> Cardinality(D) * K]
<1>1. ASSUME NEW D \in SUBSET S PROVE IsFiniteSet(D) /\ Cardinality(D) \in Nat
  BY FS_Subset, FS_CardinalityType
<1>2. ASSUME NEW D \in SUBSET S, D # {}
      PROVE  /\ Chosen(D) \in D /\ D \ {Chosen(D)} \in SUBSET S
             /\ Worth(t, run, Chosen(D)) = K
             /\ Cardinality(D) \in Nat /\ Cardinality(D) # 0
             /\ Cardinality(D \ {Chosen(D)}) = Cardinality(D) - 1
  <2>1. Chosen(D) \in D
    BY <1>2 DEF Chosen
  <2>2. Cardinality(D \ {Chosen(D)}) = Cardinality(D) - 1
    BY <1>1, <2>1, FS_RemoveElement
  <2>3. Cardinality(D) # 0
    BY <1>1, <1>2, FS_EmptySet
  <2> QED BY <1>1, <2>1, <2>2, <2>3
<1>3. Cardinality({}) = 0 /\ 0 * K = 0
  BY FS_EmptySet
<1>4. ASSUME NEW D \in SUBSET S, D # {}
      PROVE  Cardinality(D) * K = K + Cardinality(D \ {Chosen(D)}) * K
  <2>1. \A k \in Nat : k # 0 => k * K = K + (k - 1) * K
    <3> SUFFICES ASSUME NEW k \in Nat, k # 0 PROVE k * K = K + (k - 1) * K
      OBVIOUS
    <3>1. k - 1 \in Nat /\ (k - 1) + 1 = k
      OBVIOUS
    <3>2. ((k - 1) + 1) * K = (k - 1) * K + K
      BY <3>1, OneTimesMore
    <3>3. (k - 1) * K \in Int
      OBVIOUS
    <3> QED BY <3>1, <3>2, <3>3
  <2> QED BY <1>2, <1>4, <2>1
<1>5. g = [D \in SUBSET S |->
             IF D = {} THEN 0 ELSE Worth(t, run, Chosen(D)) + g[D \ {Chosen(D)}]]
  <2>1. ASSUME NEW D \in SUBSET S
        PROVE  g[D] = IF D = {} THEN 0 ELSE Worth(t, run, Chosen(D)) + g[D \ {Chosen(D)}]
    <3>1. g[D] = Cardinality(D) * K
      OBVIOUS
    <3>2. D # {} => g[D \ {Chosen(D)}] = Cardinality(D \ {Chosen(D)}) * K
      BY <1>2
    <3> HIDE DEF g
    <3> QED BY <1>2, <1>3, <1>4, <3>1, <3>2
  <2>2. g = [D \in SUBSET S |-> g[D]]
    OBVIOUS
  <2> HIDE DEF g
  <2> QED BY <2>1, <2>2
<1> HIDE DEF g
<1>6. f = [D \in SUBSET S |->
             IF D = {} THEN 0 ELSE Worth(t, run, Chosen(D)) + f[D \ {Chosen(D)}]]
  BY <1>5 DEF SumStep
<1> HIDE DEF f
<1> DEFINE T == {k \in Nat : \A D \in SUBSET S : Cardinality(D) = k => f[D] = k * K}
<1>7. 0 \in T
  <2>1. \A D \in SUBSET S : Cardinality(D) = 0 => D = {}
    BY <1>1, FS_EmptySet
  <2> QED BY <1>3, <1>6, <2>1
<1>8. ASSUME NEW k \in Nat, k \in T PROVE k + 1 \in T
  <2> SUFFICES ASSUME NEW D \in SUBSET S, Cardinality(D) = k + 1 PROVE f[D] = (k + 1) * K
    OBVIOUS
  <2>1. D # {}
    BY FS_EmptySet
  <2>2. f[D] = K + f[D \ {Chosen(D)}]
    BY <1>2, <1>6, <2>1
  <2>3. f[D \ {Chosen(D)}] = k * K
    BY <1>2, <1>8, <2>1
  <2>4. k * K \in Int
    OBVIOUS
  <2> QED BY <2>2, <2>3, <2>4, OneTimesMore
<1> HIDE DEF T
<1>9. \A k \in Nat : k \in T
  BY <1>7, <1>8, Counted
<1> QED BY <1>1, <1>9 DEF T, f

(* Symbols that are equally frequent: so many times so many characters. *)
LEMMA EvenlySpread ==
  ASSUME NEW I, IsFiniteSet(I), NEW f, NEW C, IsFiniteSet(C), NEW m \in Nat,
         \A i \in I : f[i] \in C, \A c \in C : Cardinality({i \in I : f[i] = c}) = m
  PROVE  Cardinality(I) = Cardinality(C) * m
<1> DEFINE Of(D) == {i \in I : f[i] \in D}
           T == {k \in Nat : \A D \in SUBSET C : Cardinality(D) = k => Cardinality(Of(D)) = k * m}
<1>1. ASSUME NEW D PROVE IsFiniteSet(Of(D)) /\ Cardinality(Of(D)) \in Nat
  BY FS_Subset, FS_CardinalityType
<1>2. 0 \in T
  <2>1. \A D \in SUBSET C : Cardinality(D) = 0 => D = {}
    BY FS_Subset, FS_EmptySet
  <2>2. Of({}) = {} /\ Cardinality({}) = 0 /\ 0 * m = 0
    BY FS_EmptySet
  <2> QED BY <2>1, <2>2
<1>3. ASSUME NEW k \in Nat, k \in T PROVE k + 1 \in T
  <2> SUFFICES ASSUME NEW D \in SUBSET C, Cardinality(D) = k + 1
               PROVE  Cardinality(Of(D)) = (k + 1) * m
    OBVIOUS
  <2>1. PICK c : c \in D
    BY FS_EmptySet
  <2> DEFINE E == D \ {c}
             One == {i \in I : f[i] = c}
  <2>2. Cardinality(E) = k
    <3>1. IsFiniteSet(D) /\ Cardinality(D) \in Nat
      BY FS_Subset, FS_CardinalityType
    <3>2. Cardinality(E) = Cardinality(D) - 1
      BY <2>1, <3>1, FS_RemoveElement
    <3> QED BY <3>2
  <2>3. Cardinality(Of(E)) = k * m
    BY <1>3, <2>2
  <2>4. Of(D) = Of(E) \cup One /\ Of(E) \cap One = {}
    BY <2>1
  <2>5. IsFiniteSet(One) /\ Cardinality(One) = m
    BY <2>1, FS_Subset
  <2>6. Cardinality(Of(E) \cap One) = 0
    BY <2>4, FS_EmptySet
  <2>7. IsFiniteSet(Of(E)) /\ Cardinality(Of(E)) \in Nat
    BY <1>1
  <2> HIDE DEF Of, One, E
  <2>8. Cardinality(Of(E) \cup One) = Cardinality(Of(E)) + Cardinality(One) - Cardinality(Of(E) \cap One)
    BY <2>5, <2>7, FS_Union
  <2>9. Cardinality(Of(D)) = k * m + m
    BY <2>3, <2>4, <2>5, <2>6, <2>7, <2>8
  <2> QED BY <2>9, OneTimesMore
<1>4. Of(C) = I
  OBVIOUS
<1>5. Cardinality(C) \in Nat
  BY FS_CardinalityType
<1> HIDE DEF T
<1>6. Cardinality(C) \in T
  BY <1>2, <1>3, <1>5, Counted
<1>7. Cardinality(Of(C)) = Cardinality(C) * m
  <2> HIDE DEF Of
  <2> QED BY <1>6 DEF T
<1> QED BY <1>4, <1>7

(* Products of more, of products and of differences. *)
LEMMA MoreTimes ==
  /\ \A k \in Nat, a \in Int, b \in Int : a >= b => k * a >= k * b /\ k * a \in Int /\ k * b \in Int
  /\ \A k \in Int, a \in Int, b \in Int : k * (a * b) = (k * a) * b /\ k * a = a * k
  /\ \A k \in Int, a \in Int, b \in Int : k * a - k * b = k * (a - b)
OBVIOUS

(* The cast to u32 changes nothing that a u32 holds. *)
LEMMA SmallIsU32 == \A k \in Nat : k <= MaxU32 => AsU32(k) = k
<1>1. MaxU32 \in Nat
  BY RedactionAssumption
<1>2. \A k \in Nat, b \in Nat : k <= b => k % (b + 1) = k
  OBVIOUS
<1> QED BY <1>1, <1>2 DEF AsU32

(* What the characters of a run are, and their symbols. *)
LEMMA RunIsFinite ==
  ASSUME NEW t \in Text, NEW run \in Runs(t)
  PROVE  /\ IsFiniteSet(Inside(t, run)) /\ IsFiniteSet(Symbols(t, run))
         /\ Cardinality(Inside(t, run)) \in DOMAIN Log2
         /\ Symbols(t, run) # {}
         /\ \A c \in Symbols(t, run) : Count(t, run, c) \in DOMAIN Log2
<1> DEFINE I == Inside(t, run)
           Of(c) == {i \in I : t.chars[i] = c}
<1>1. /\ DOMAIN t.at = 1 .. Len(t.at) /\ Len(t.at) \in Nat /\ Len(t.at) <= Len(Log2)
      /\ \A i \in DOMAIN t.at : t.at[i] \in Nat
  BY TextAssumption DEF IsText
<1>2. DOMAIN Log2 = 1 .. Len(Log2) /\ Len(Log2) \in Nat
  BY RedactionAssumption
<1>3. IsFiniteSet(DOMAIN t.at) /\ Cardinality(DOMAIN t.at) = Len(t.at)
  BY <1>1, FS_Interval
<1>4. I \in SUBSET DOMAIN t.at
  BY DEF Inside
<1>5. ASSUME NEW J \in SUBSET I, J # {}
      PROVE  IsFiniteSet(J) /\ Cardinality(J) \in DOMAIN Log2
  <2>1. J \in SUBSET DOMAIN t.at
    BY <1>4
  <2> HIDE DEF I
  <2>2. IsFiniteSet(J) /\ Cardinality(J) <= Len(t.at)
    BY <1>3, <2>1, FS_Subset
  <2>3. Cardinality(J) \in Nat /\ Cardinality(J) # 0
    BY <1>5, <2>2, FS_CardinalityType, FS_EmptySet
  <2> QED BY <1>1, <1>2, <2>2, <2>3
<1>6. I # {}
  <2>1. PICK i \in DOMAIN t.at : t.at[i] = run.start
    BY RunOfTokens
  <2>2. i \in I
    BY <1>1, <2>1, RunType DEF Inside
  <2> QED BY <2>2
<1>7. IsFiniteSet(Symbols(t, run))
  <2> DEFINE g == [i \in I |-> t.chars[i]]
  <2>1. g \in Surjection(I, Symbols(t, run))
    BY DEF Surjection, Symbols
  <2> HIDE DEF g, I
  <2> QED BY <1>5, <1>6, <2>1, FS_Surjection
<1>8. Symbols(t, run) # {}
  BY <1>6 DEF Symbols
<1>9. ASSUME NEW c \in Symbols(t, run) PROVE Count(t, run, c) \in DOMAIN Log2
  <2>1. Of(c) # {} /\ Of(c) \in SUBSET I
    BY DEF Symbols
  <2>2. Cardinality(Of(c)) \in DOMAIN Log2
    <3> HIDE DEF I, Of
    <3> QED BY <1>5, <2>1
  <2> QED BY <2>2 DEF Count
<1> QED BY <1>5, <1>6, <1>7, <1>8, <1>9

(***************************************************************************)
(* The entropy of a run in which each of s symbols is there m times is     *)
(* that of its length less that of m, for each of its characters.          *)
(***************************************************************************)
LEMMA UniformEntropy ==
  ASSUME NEW t \in Text, NEW run \in Runs(t), NEW m \in DOMAIN Log2,
         \A c \in Symbols(t, run) : Count(t, run, c) = m
  PROVE  LET n == Cardinality(Inside(t, run))
         IN  /\ n = Cardinality(Symbols(t, run)) * m
             /\ n <= MaxU32 =>
                  AsU32(n) = n /\ ShannonEntropy(t, run) = n * (Log2[n] - Log2[m])
<1> DEFINE I == Inside(t, run)
           S == Symbols(t, run)
           n == Cardinality(I)
           s == Cardinality(S)
<1>1. IsFiniteSet(I) /\ IsFiniteSet(S) /\ n \in DOMAIN Log2 /\ s \in Nat
  BY RunIsFinite, FS_CardinalityType
<1>2. m \in Nat /\ n \in Nat /\ Log2[m] \in Nat /\ Log2[n] \in Nat
  BY <1>1, RedactionAssumption
<1>3. n = s * m
  <2>1. \A i \in I : t.chars[i] \in S
    BY DEF Symbols
  <2>2. \A c \in S : Cardinality({i \in I : t.chars[i] = c}) = m
    BY DEF Count
  <2> DEFINE f == t.chars
  <2> HIDE DEF I, S, f
  <2>3. Cardinality(I) = Cardinality(S) * m
    BY <1>1, <1>2, <2>1, <2>2, EvenlySpread DEF f
  <2> QED BY <2>3
<1> SUFFICES ASSUME n <= MaxU32
             PROVE  AsU32(n) = n /\ ShannonEntropy(t, run) = n * (Log2[n] - Log2[m])
  BY <1>3
<1>4. AsU32(n) = n /\ AsU32(m) = m /\ m > 0
  <2>1. m >= 1 /\ s >= 1
    <3>1. s # 0
      BY <1>1, RunIsFinite, FS_EmptySet
    <3>2. m \in 1 .. Len(Log2)
      BY RedactionAssumption
    <3> HIDE DEF s
    <3> QED BY <1>1, <3>1, <3>2
  <2>2. s * m >= 1 * m
    BY <1>1, <1>2, <2>1, MoreTimes
  <2>3. m <= n
    BY <1>2, <1>3, <2>2
  <2>4. AsU32(n) = n /\ AsU32(m) = m
    <3>1. m <= MaxU32 /\ n <= MaxU32
      <4>1. n <= MaxU32
        OBVIOUS
      <4> HIDE DEF n
      <4> QED BY <1>2, <2>3, <4>1, RedactionAssumption
    <3> HIDE DEF n
    <3> QED BY <1>2, <3>1, SmallIsU32
  <2> HIDE DEF n, s
  <2> QED BY <1>2, <2>1, <2>4
<1> DEFINE K == m * (Log2[n] - Log2[m])
<1>5. \A c \in S : Occurrences(t, run, c) = m /\ Worth(t, run, c) = K
  BY <1>4 DEF Occurrences, Worth, Total
<1>6. ShannonEntropy(t, run) = SumStep(t, run, S)[S]
  <2>1. {c \in S : Occurrences(t, run, c) > 0} = S
    BY <1>4, <1>5
  <2> QED BY <2>1, SumIsStep DEF ShannonEntropy
<1>7. SumStep(t, run, S)[S] = s * K
  <2>1. K \in Int
    BY <1>2
  <2> HIDE DEF K, S
  <2> QED BY <1>1, <1>5, <2>1, EvenSum
<1>8. s * K = n * (Log2[n] - Log2[m])
  BY <1>1, <1>2, <1>3, MoreTimes
<1> QED BY <1>3, <1>4, <1>6, <1>7, <1>8

(***************************************************************************)
(* A run as even as a random one qualifies: the floor and the ratio leave  *)
(* it room, whatever its length, as long as a u32 holds that.              *)
(***************************************************************************)
LEMMA UniformQualifies ==
  ASSUME text \in Text, NEW run \in Runs(text), IsUniform(run)
  PROVE  Qualifies(text, run)
<1> DEFINE S == Symbols(text, run)
           n == Cardinality(Inside(text, run))
           s == Cardinality(S)
<1>1. PICK c \in S : TRUE
  BY RunIsFinite
<1> DEFINE m == Count(text, run, c)
           gain == Log2[n] - Log2[m]
           h == ShannonEntropy(text, run)
<1>2. /\ \A other \in S : Count(text, run, other) = m
      /\ s >= 2 ^ EntropyBits
      /\ s = n \/ s >= 2 ^ RefCap
  BY DEF IsUniform
<1>3. /\ m \in DOMAIN Log2 /\ n \in DOMAIN Log2 /\ s \in Nat
      /\ m \in Nat /\ n \in Nat /\ m >= 1 /\ n >= 1
      /\ Log2[m] \in Nat /\ Log2[n] \in Nat /\ gain \in Int
  <2>1. m \in DOMAIN Log2 /\ n \in DOMAIN Log2 /\ s \in Nat
    BY <1>1, RunIsFinite, FS_CardinalityType
  <2>2. \A k \in DOMAIN Log2 : k \in Nat /\ k >= 1 /\ Log2[k] \in Nat
    BY RedactionAssumption
  <2> HIDE DEF m, n, s
  <2> QED BY <2>1, <2>2
<1>4. n = s * m /\ h = n * gain /\ AsU32(n) = n
  BY <1>2, <1>3, UniformEntropy DEF IsUniform
<1>5. ASSUME NEW b \in {EntropyBits, RefCap}, s >= 2 ^ b
      PROVE  gain >= 1000 * b
  <2> DEFINE p == 2 ^ b
  <2>1. p \in Int /\ b \in Nat
    BY RedactionAssumption
  <2> HIDE DEF p, m, n, s, h
  <2>2. s >= p
    BY <1>5 DEF p
  <2>3. m * s >= m * p /\ m * s = s * m
    BY <1>3, <2>1, <2>2, MoreTimes
  <2>4. n >= m * p
    BY <1>4, <2>3
  <2>5. Log2[n] >= Log2[m] + 1000 * b
    BY <1>3, <2>4, LogAssumption DEF p
  <2> QED BY <1>3, <2>1, <2>5
<1>6. Reference(n) \in Nat /\ Reference(n) <= Log2[n] /\ Reference(n) <= 1000 * RefCap
  <2> DEFINE top == Log2[n]
  <2>1. top \in Nat /\ RefCap \in Nat
    BY <1>3, RedactionAssumption
  <2>2. Reference(n) = IF top < 1000 * RefCap THEN top ELSE 1000 * RefCap
    BY DEF Reference
  <2>3. Reference(n) \in Nat /\ Reference(n) <= top /\ Reference(n) <= 1000 * RefCap
    <3> HIDE DEF top
    <3> QED BY <2>1, <2>2
  <2> QED BY <2>3
<1>7. gain >= Reference(n)
  <2> HIDE DEF m, n, s, h
  <2>1. CASE s >= 2 ^ RefCap
    <3>1. gain >= 1000 * RefCap
      BY <1>5, <2>1
    <3>2. gain \in Int /\ RefCap \in Nat
      BY <1>3, RedactionAssumption
    <3>3. Reference(n) \in Nat /\ Reference(n) <= 1000 * RefCap
      BY <1>6
    <3> HIDE DEF gain
    <3> QED BY <3>1, <3>2, <3>3
  <2>2. CASE s = n
    <3>1. ~(m >= 2)
      <4> SUFFICES ASSUME m >= 2 PROVE FALSE
        OBVIOUS
      <4>1. s * m >= s * 2
        BY <1>3, MoreTimes
      <4>2. n >= n * 2
        BY <1>4, <2>2, <4>1
      <4> QED BY <1>3, <4>2
    <3>2. m = 1
      BY <1>3, <3>1
    <3>3. Log2[m] = 0
      BY <1>3, <3>2, LogAssumption
    <3> QED BY <1>3, <1>6, <3>3
  <2> QED BY <1>2, <2>1, <2>2
<1>8. Random(h, n, n)
  <2> DEFINE ref == Reference(n)
  <2>1. gain >= 1000 * EntropyBits /\ EntropyBits \in Nat
    BY <1>2, <1>5, RedactionAssumption
  <2>2. ref \in Nat /\ gain >= ref
    BY <1>6, <1>7
  <2> HIDE DEF m, s, gain, h, ref
  <2>3. h \in Int /\ h >= n * (1000 * EntropyBits) /\ h >= n * ref /\ n * ref \in Nat
    BY <1>3, <1>4, <2>1, <2>2, MoreTimes
  <2>4. n * (1000 * EntropyBits) = 1000 * n * EntropyBits
    BY <1>3, <2>1, MoreTimes
  <2>5. 85 * n * ref = 85 * (n * ref)
    BY <1>3, <2>2, MoreTimes
  <2>6. 100 * h >= 85 * (n * ref)
    <3> DEFINE x == n * ref
    <3> HIDE DEF x
    <3> QED BY <2>3 DEF x
  <2> QED BY <1>3, <2>3, <2>4, <2>5, <2>6 DEF Random, ref
<1> HIDE DEF h
<1> QED BY <1>4, <1>8 DEF IsUniform, Qualifies, Total, h

(***************************************************************************)
(* When the collection has ended, every run that qualifies was pushed or   *)
(* is touched by what claimed it before.                                   *)
(***************************************************************************)
NoticedInv ==
  /\ ScanInv
  /\ stage \notin Source =>
       \A run \in Runs(text) :
         Qualifies(text, run) =>
           OverlapsAny(run, text.dataUris) \/ \E m \in raws : Overlap(run, m)

LEMMA InitNoticed == Init => NoticedInv
BY InitScan DEF Init, NoticedInv, Source

LEMMA StepNoticed == NoticedInv /\ [Next]_vars => NoticedInv'
<1> DEFINE Claimed(run, found) == OverlapsAny(run, text.dataUris) \/ \E m \in found : Overlap(run, m)
<1> SUFFICES ASSUME NoticedInv, [Next]_vars PROVE NoticedInv'
  OBVIOUS
<1>1. ScanInv'
  BY StepScan DEF NoticedInv
<1>2. CASE stage' \in Source
  BY <1>1, <1>2 DEF NoticedInv
<1>3. CASE /\ stage' \notin Source /\ stage \notin Source
           /\ UNCHANGED <<text, raws>>
  BY <1>1, <1>3 DEF NoticedInv
<1>4. CASE Entropy
  <2>1. text' = text /\ text \in Text
    BY <1>4 DEF Entropy, NoticedInv, ScanInv, TypeOK
  <2>2. ASSUME NEW run \in Runs(text), Qualifies(text, run)
        PROVE  Claimed(run, raws')
    <3>1. CASE OverlapsAny(run, raws \cup text.dataUris)
      BY <1>4, <3>1 DEF OverlapsAny, Entropy
    <3>2. CASE ~OverlapsAny(run, raws \cup text.dataUris)
      <4>1. Match("entropy", run) \in raws'
        BY <1>4, <2>2, <3>2 DEF Entropy
      <4>2. Overlap(run, Match("entropy", run))
        BY <2>1, RunType DEF Match, Overlap
      <4> QED BY <4>1, <4>2
    <3> QED BY <3>1, <3>2
  <2> QED BY <1>1, <2>1, <2>2 DEF NoticedInv
<1>5. CASE (\E m \in todo : Merge(m)) \/ Merged \/ Convert \/ Finish \/ UNCHANGED vars
  <2>1. UNCHANGED <<text, raws>> /\ (stage' \notin Source => stage \notin Source)
    BY <1>5 DEF Merge, Merged, Convert, Finish, vars, Source
  <2> QED BY <1>2, <1>3, <2>1
<1>6. CASE \E span \in Spans(text) :
             Provider(span) \/ Gated(span) \/ Url(span) \/ KeyValue(span) \/ UserRule(span)
  <2>1. stage' \in Source
    BY <1>6 DEF Provider, Gated, Url, KeyValue, UserRule, PushGated, Push, Source
  <2> QED BY <1>2, <2>1
<1>7. CASE \/ Turn("provider", "gated") \/ Turn("gated", "url") \/ Turn("url", "kv")
           \/ Turn("kv", "user") \/ Turn("user", "entropy")
  <2>1. stage' \in Source
    BY <1>7 DEF Turn, Source
  <2> QED BY <1>2, <2>1
<1> QED BY <1>4, <1>5, <1>6, <1>7 DEF Next

(***************************************************************************)
(* A run as even as a random one is noticed whatever its length up to the  *)
(* largest a u32 holds, in every text and whatever the regular expressions *)
(* find.                                                                   *)
(***************************************************************************)
THEOREM RandomRunsAreNoticed == Spec => []RandomIsNoticed
<1>1. NoticedInv => RandomIsNoticed
  <2> SUFFICES ASSUME NoticedInv, stage = "done", NEW run \in Runs(text), IsUniform(run)
               PROVE  \/ OverlapsAny(run, text.dataUris)
                      \/ \E m \in raws : Overlap(run, m) /\ Reported(m)
    BY DEF RandomIsNoticed
  <2>1. stage \notin Source
    BY DEF Source
  <2>2. Qualifies(text, run)
    BY UniformQualifies DEF NoticedInv, ScanInv, TypeOK
  <2>3. \A m \in raws : Reported(m)
    BY <2>1 DEF NoticedInv, ScanInv, NothingUnreported, DoneIsDone
  <2> QED BY <2>1, <2>2, <2>3 DEF NoticedInv
<1>2. Spec => []NoticedInv
  BY InitNoticed, StepNoticed, PTL DEF Spec
<1> QED BY <1>1, <1>2, PTL

============================================================================
