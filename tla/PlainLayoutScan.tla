-------------------------- MODULE PlainLayoutScan --------------------------
(***************************************************************************)
(* Every byte string the reader of PlainLayout may be handed, grown a byte *)
(* at a time: what it accepts, and what it makes of it.  And every byte    *)
(* string that vault.json holds as text.                                   *)
(***************************************************************************)
EXTENDS PlainLayout, HexText

CONSTANTS
  Strings,    \* strings of the plaintexts that are written
  MaxLen      \* bound: the longest byte string

ASSUME ByteAssumption == Base <= Radix * Radix

ASSUME StringsAssumption == Strings \subseteq Utf8String

VARIABLE buf  \* the bytes so far

Init == buf = <<>>

Grow(b) == Len(buf) < MaxLen /\ buf' = Append(buf, b)

Next == \E b \in Byte : Grow(b)

Spec == Init /\ [][Next]_buf

Representation == [uttype : Strings, data : Strings]

(* Plaintexts a host may hand to `seal_record`, up to one beyond the cap. *)
Plaintexts ==
  {Plaintext(t, p, b, c, r) : t \in Strings, p \in Strings,
     b \in {<<>>} \cup {<<s>> : s \in Strings}, c \in BOOLEAN,
     r \in BoundedSeq(Representation, MaxRepresentations + 1)}

Encodings == {EncodePlaintext(p) : p \in Plaintexts}

(***************************************************************************)
(* The layout is canonical, as the vectors that pin it byte for byte need: *)
(* whatever the reader accepts is exactly what the writer writes for the   *)
(* plaintext it returns.  So no two byte strings are the same record.      *)
(***************************************************************************)
Canonical ==
  \A p \in DecodePlaintext(buf) : EncodePlaintext(p) = buf

(***************************************************************************)
(* The reader gives back every record the writer wrote, field by field, at *)
(* the cap too, and none beyond it; and no two records are written alike.  *)
(***************************************************************************)
EncodingsReadBack ==
  buf \in Encodings =>
    LET authored == {p \in Plaintexts : EncodePlaintext(p) = buf}
    IN  Cardinality(authored) = 1 /\ \A p \in authored : ReadsBack(p)

(***************************************************************************)
(* The salt and the verifier of a vault are read from its text as they     *)
(* were written: a byte that is a small number takes two digits as any     *)
(* other does, so the next one is not misread.                             *)
(***************************************************************************)
HexReadsBack == HexDeserialize(HexSerialize(buf)) = {buf}

============================================================================
