------------------------- MODULE PlainLayoutProofs -------------------------
(***************************************************************************)
(* The layout and the text of binary fields, for every byte string, every  *)
(* base, prefix width and cap, and every radix.                            *)
(***************************************************************************)
EXTENDS PlainLayoutScan, LayoutProofs, FiniteSetTheorems

Bytes == buf \in Seq(Byte)

LEMMA BytesInvariant == Spec => []Bytes
<1>1. Init => Bytes
  BY DEF Init, Bytes
<1>2. Bytes /\ [Next]_buf => Bytes'
  <2> SUFFICES ASSUME Bytes, [Next]_buf PROVE Bytes'
    OBVIOUS
  <2>1. ASSUME NEW b \in Byte, Grow(b) PROVE Bytes'
    BY <2>1 DEF Grow, Bytes
  <2>2. CASE UNCHANGED buf
    BY <2>2 DEF Bytes
  <2> QED BY <2>1, <2>2 DEF Next
<1> QED BY <1>1, <1>2, PTL DEF Spec

(* The quotient of a byte is a digit, and with the remainder gives it back. *)
LEMMA TwoDigits ==
  ASSUME NEW b \in Byte
  PROVE  /\ b \div Radix \in 0 .. Radix - 1 /\ b % Radix \in 0 .. Radix - 1
         /\ ((b \div Radix) * Radix) + (b % Radix) = b
<1>1. b \in Nat /\ Base \in Nat /\ b < Base /\ Base <= Radix * Radix /\ Radix \in Nat /\ Radix > 0
  BY LayoutAssumption, ByteAssumption, HexAssumption DEF Byte
<1> DEFINE q == b \div Radix
           r == b % Radix
<1>2. q \in Nat /\ r \in Nat /\ r < Radix /\ b = (Radix * q) + r
  BY <1>1
<1> HIDE DEF q, r
<1>3. q < Radix
  <2> SUFFICES ASSUME q >= Radix PROVE FALSE
    BY <1>1, <1>2
  <2>1. Radix * q >= Radix * Radix
    BY <1>1, <1>2
  <2>2. Radix * q \in Nat /\ Radix * Radix \in Nat
    BY <1>1, <1>2
  <2> QED BY <1>1, <1>2, <2>1, <2>2
<1>4. q * Radix = Radix * q
  BY <1>1, <1>2
<1> QED BY <1>1, <1>2, <1>3, <1>4 DEF q, r

LEMMA ReadBack ==
  ASSUME NEW bytes \in Seq(Byte)
  PROVE  HexDeserialize(HexSerialize(bytes)) = {bytes}
<1> DEFINE n == Len(bytes)
           s == HexSerialize(bytes)
           Value(i) == FromStrRadix(s[2 * i - 1], s[2 * i])
<1>1. /\ n \in Nat /\ DOMAIN s = 1 .. 2 * n /\ Len(s) = 2 * n
      /\ bytes = [i \in 1 .. n |-> bytes[i]] /\ \A i \in 1 .. n : bytes[i] \in Byte
  BY DEF HexSerialize
<1>2. ASSUME NEW i \in 1 .. n PROVE Value(i) = {bytes[i]}
  <2> DEFINE b == bytes[i]
  <2>1. /\ 2 * i - 1 \in 1 .. 2 * n /\ 2 * i \in 1 .. 2 * n
        /\ ((2 * i - 1) + 1) \div 2 = i /\ (2 * i - 1) % 2 = 1
        /\ (2 * i + 1) \div 2 = i /\ (2 * i) % 2 # 1
    <3>1. i \in Nat /\ 1 <= i /\ i <= n
      BY <1>1
    <3>2. (2 * i - 1) + 1 = 2 * i /\ (2 * i) \div 2 = i /\ (2 * i) % 2 = 0
      BY <3>1
    <3>3. (2 * i + 1) \div 2 = i /\ (2 * i - 1) % 2 = 1
      BY <3>1
    <3> QED BY <1>1, <3>1, <3>2, <3>3
  <2>2. s[2 * i - 1] = HexDigit[b \div Radix] /\ s[2 * i] = HexDigit[b % Radix]
    BY <2>1 DEF HexSerialize
  <2>3. /\ b \div Radix \in 0 .. Radix - 1 /\ b % Radix \in 0 .. Radix - 1
        /\ ((b \div Radix) * Radix) + (b % Radix) = b
    BY <1>1, TwoDigits
  <2> DEFINE q == b \div Radix
             r == b % Radix
  <2> HIDE DEF b, s, q, r
  <2>4. /\ s[2 * i - 1] \in DOMAIN HexValue /\ HexValue[s[2 * i - 1]] = q
        /\ s[2 * i] \in DOMAIN HexValue /\ HexValue[s[2 * i]] = r
    BY <2>2, <2>3, HexAssumption DEF q, r
  <2>5. s[2 * i - 1] # "+"
    BY <2>4, HexAssumption
  <2>6. Value(i) = {(q * Radix) + r}
    BY <2>4, <2>5 DEF FromStrRadix
  <2>7. (q * Radix) + r = b
    BY <2>3 DEF q, r
  <2> QED BY <2>6, <2>7 DEF b
<1> HIDE DEF n, s
<1>3. (2 * n) \div 2 = n /\ (2 * n) % 2 = 0
  BY <1>1
<1>4. \A i \in 1 .. n : (CHOOSE v \in Value(i) : TRUE) = bytes[i]
  BY <1>2
<1>5. HexDeserialize(s) = {[i \in 1 .. n |-> CHOOSE v \in Value(i) : TRUE]}
  <2>1. \A i \in 1 .. n : Value(i) # {}
    BY <1>2
  <2> QED BY <1>1, <1>3, <2>1 DEF HexDeserialize
<1>6. [i \in 1 .. n |-> CHOOSE v \in Value(i) : TRUE] = [i \in 1 .. n |-> bytes[i]]
  BY <1>4
<1> QED BY <1>1, <1>5, <1>6 DEF s

(***************************************************************************)
(* Whatever bytes a salt or a verifier has, it is read from the text of    *)
(* vault.json as it was written.                                           *)
(***************************************************************************)
THEOREM HexIsReadBack == Spec => []HexReadsBack
<1>1. Bytes => HexReadsBack
  BY ReadBack DEF Bytes, HexReadsBack
<1> QED BY <1>1, BytesInvariant, PTL

(***************************************************************************)
(* Whatever the reader accepts is what the writer writes for it, byte for  *)
(* byte.                                                                   *)
(***************************************************************************)
THEOREM LayoutIsCanonical == Spec => []Canonical
<1>1. Bytes => Canonical
  BY Decoded DEF Bytes, Canonical
<1> QED BY <1>1, BytesInvariant, PTL

(* What the runs write is what the layout is for. *)
LEMMA PlaintextsFit == Plaintexts \subseteq RecordPlaintext
<1>1. ASSUME NEW b \in {<<>>} \cup {<<s>> : s \in Strings}
      PROVE  b \in Bundle
  BY StringsAssumption, BundleCases
<1>2. Representation \subseteq RecordRepresentation
  BY StringsAssumption DEF Representation, RecordRepresentation, Utf8String
<1>3. ASSUME NEW reps \in BoundedSeq(Representation, MaxRepresentations + 1)
      PROVE  reps \in Seq(RecordRepresentation) /\ Len(reps) < Limit
  <2>1. PICK m \in 0 .. MaxRepresentations + 1 : reps \in [1 .. m -> Representation]
    BY DEF BoundedSeq, SeqOf
  <2>2. MaxRepresentations \in Nat /\ Limit \in Nat /\ MaxRepresentations + 1 < Limit
    BY LayoutAssumption, Powers DEF Limit
  <2>3. m \in Nat /\ m < Limit
    BY <2>2
  <2>4. reps \in [1 .. m -> RecordRepresentation]
    BY <1>2, <2>1
  <2> QED BY <2>3, <2>4
<1> SUFFICES ASSUME NEW q \in Plaintexts PROVE q \in RecordPlaintext
  OBVIOUS
<1>4. PICK t \in Strings, p \in Strings, b \in {<<>>} \cup {<<s>> : s \in Strings},
           c \in BOOLEAN, r \in BoundedSeq(Representation, MaxRepresentations + 1) :
        q = Plaintext(t, p, b, c, r)
  BY DEF Plaintexts
<1> QED BY <1>1, <1>3, <1>4, StringsAssumption DEF Plaintext, RecordPlaintext, Bundle

(***************************************************************************)
(* Every record written is read back, field by field, up to the cap, and   *)
(* no two are written alike.                                               *)
(***************************************************************************)
THEOREM EncodingsAreReadBack == Spec => []EncodingsReadBack
<1>1. EncodingsReadBack
  <2> DEFINE authored == {p \in Plaintexts : EncodePlaintext(p) = buf}
  <2> SUFFICES ASSUME buf \in Encodings
               PROVE  Cardinality(authored) = 1 /\ \A p \in authored : ReadsBack(p)
    BY DEF EncodingsReadBack
  <2>1. PICK q \in Plaintexts : EncodePlaintext(q) = buf
    BY DEF Encodings
  <2>2. \A p \in authored : p = q
    BY <2>1, PlaintextsFit, WrittenApart
  <2>3. authored = {q}
    BY <2>1, <2>2
  <2>4. Cardinality({q}) = 1
    BY FS_Singleton
  <2> HIDE DEF authored
  <2> QED BY <2>1, <2>3, <2>4, PlaintextsFit, WrittenReadsBack
<1> QED BY <1>1, PTL

============================================================================
