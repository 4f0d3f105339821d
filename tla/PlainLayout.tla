---------------------------- MODULE PlainLayout ----------------------------
(***************************************************************************)
(* The length-prefixed layout of a record's plaintext body: the writer and *)
(* the reader of crates/clipy-si-core/src/record/canonical.rs.  A byte is a *)
(* number below Base, a length prefix is LenWidth bytes, least significant *)
(* first, and wraps as the cast to u32 does.  A string is bytes none of    *)
(* which is in BadBytes, which stands for the UTF-8 check.                 *)
(***************************************************************************)
EXTENDS Integers, SequencesExt

CONSTANTS
  Base,               \* values of a byte: 256 in the code
  LenWidth,           \* bytes of a length prefix: 4 in the code
  BadBytes,           \* bytes no string has
  MaxRepresentations  \* the reader's cap: 4096 in the code

(* Power[k] is Base ^ k, and a length prefix holds the numbers below Limit. *)
Power[k \in 0 .. LenWidth] == IF k = 0 THEN 1 ELSE Base * Power[k - 1]

Limit == Power[LenWidth]

(* A count one beyond the cap is still told from any other. *)
ASSUME LayoutAssumption ==
  /\ Base \in Nat /\ Base > 1
  /\ LenWidth \in Nat \ {0}
  /\ BadBytes \subseteq 0 .. Base - 1
  /\ MaxRepresentations \in Nat /\ MaxRepresentations + 1 < Limit

Byte == 0 .. Base - 1

IsUtf8(bytes) == \A i \in DOMAIN bytes : bytes[i] \notin BadBytes

(* The plaintexts whose lengths their prefixes hold.  `source_bundle`, an  *)
(* Option, is a sequence of at most one string.                            *)
ByteVec == {bytes \in Seq(Byte) : Len(bytes) < Limit}
Utf8String == {bytes \in ByteVec : IsUtf8(bytes)}
RecordRepresentation == [uttype : Utf8String, data : ByteVec]
RecordPlaintext ==
  [title : Utf8String, primaryType : Utf8String,
   sourceBundle : {bundle \in Seq(Utf8String) : Len(bundle) <= 1},
   isColorCode : BOOLEAN,
   representations : {reps \in Seq(RecordRepresentation) : Len(reps) < Limit}]

Plaintext(title, type, bundle, color, reps) ==
  [title |-> title, primaryType |-> type, sourceBundle |-> bundle,
   isColorCode |-> color, representations |-> reps]

PutU32(n) == [i \in 1 .. LenWidth |-> (n \div Power[i - 1]) % Base]

PutBytes(bytes) == PutU32(Len(bytes)) \o bytes

PutFlag(b) == IF b THEN <<1>> ELSE <<0>>

(* Mutant: the source bundle is left out. *)
PutBundle_Dropped(bundle) == PutFlag(FALSE)

(* Present or not, and the string if it is. *)
PutBundle(bundle) ==
  IF bundle = <<>> THEN PutFlag(FALSE) ELSE PutFlag(TRUE) \o PutBytes(bundle[1])

PutRep(rep) == PutBytes(rep.uttype) \o PutBytes(rep.data)

(* The representations, one after the other. *)
RepBytes(reps) ==
  LET upTo[i \in 0 .. Len(reps)] ==
        IF i = 0 THEN <<>> ELSE upTo[i - 1] \o PutRep(reps[i])
  IN  upTo[Len(reps)]

PutReps(reps) == PutU32(Len(reps)) \o RepBytes(reps)

EncodePlaintext(p) ==
  PutBytes(p.title) \o PutBytes(p.primaryType)
    \o PutBundle(p.sourceBundle)
    \o PutFlag(p.isColorCode)
    \o PutReps(p.representations)

(***************************************************************************)
(* The reader.  What is read at a position is the set of its outcomes: one *)
(* [pos, val], where the reader then stands and what it read, or none if   *)
(* it fails.                                                               *)
(***************************************************************************)

(* The next n bytes. *)
Take(buf, pos, n) ==
  IF pos + n <= Len(buf)
    THEN {[pos |-> pos + n, val |-> SubSeq(buf, pos + 1, pos + n)]}
    ELSE {}

(* The number a length prefix holds. *)
Number(bytes) ==
  LET ofLast[k \in 0 .. Len(bytes)] ==
        IF k = 0 THEN 0 ELSE bytes[Len(bytes) + 1 - k] + Base * ofLast[k - 1]
  IN  ofLast[Len(bytes)]

ReadU8(buf, pos) == Take(buf, pos, 1)

ReadU32(buf, pos) == {[n EXCEPT !.val = Number(@)] : n \in Take(buf, pos, LenWidth)}

ReadBytes(buf, pos) == UNION {Take(buf, n.pos, n.val) : n \in ReadU32(buf, pos)}

ReadString(buf, pos) == {s \in ReadBytes(buf, pos) : IsUtf8(s.val)}

(* Mutant: every byte but 0 is TRUE. *)
ReadFlag_Lenient(buf, pos) ==
  {[f EXCEPT !.val = (@ # <<0>>)] : f \in ReadU8(buf, pos)}

ReadFlag(buf, pos) ==
  {[f EXCEPT !.val = (@ = <<1>>)] : f \in {g \in ReadU8(buf, pos) : g.val \in {<<0>>, <<1>>}}}

ReadBundle(buf, pos) ==
  UNION {IF f.val THEN {[s EXCEPT !.val = <<@>>] : s \in ReadString(buf, f.pos)}
                  ELSE {[f EXCEPT !.val = <<>>]} : f \in ReadFlag(buf, pos)}

ReadRep(buf, pos) ==
  UNION {{[d EXCEPT !.val = [uttype |-> u.val, data |-> @]] : d \in ReadBytes(buf, u.pos)} :
           u \in ReadString(buf, pos)}

(* After the values of r, one more. *)
Then(buf, r, Read(_, _)) ==
  UNION {{[v EXCEPT !.val = Append(before.val, @)] : v \in Read(buf, before.pos)} :
           before \in r}

(* Mutant: a record may not have as many representations as the cap. *)
WithinCap_OffByOne(count) == count < MaxRepresentations

WithinCap(count) == count <= MaxRepresentations

(* So many representations, one after the other. *)
RepsFrom(buf, pos, count) ==
  LET reps[i \in 0 .. count] ==
        IF i = 0 THEN {[pos |-> pos, val |-> <<>>]} ELSE Then(buf, reps[i - 1], ReadRep)
  IN  reps[count]

(* As many as are announced. *)
ReadReps(buf, pos) ==
  UNION {RepsFrom(buf, n.pos, n.val) : n \in {m \in ReadU32(buf, pos) : WithinCap(m.val)}}

AtEnd(buf, r) == r.pos = Len(buf)

(* The plaintext, or none: the code's UnsupportedFormat. *)
DecodePlaintext(buf) ==
  LET strings == Then(buf, Then(buf, {[pos |-> 0, val |-> <<>>]}, ReadString), ReadString)
      flags   == Then(buf, Then(buf, strings, ReadBundle), ReadFlag)
      all     == Then(buf, flags, ReadReps)
  IN  {Plaintext(r.val[1], r.val[2], r.val[3], r.val[4], r.val[5]) :
         r \in {q \in all : AtEnd(buf, q)}}

----------------------------------------------------------------------------
(* What the writer makes of p, the reader takes for p and nothing else, as *)
(* long as p has no more representations than the cap.                     *)
ReadsBack(p) ==
  DecodePlaintext(EncodePlaintext(p)) =
    IF Len(p.representations) <= MaxRepresentations THEN {p} ELSE {}

============================================================================
