------------------------------ MODULE HexText ------------------------------
(***************************************************************************)
(* The text of the binary fields of vault.json: src/hexutil.rs.  A text is *)
(* its characters, one byte each.  The writer gives two lowercase digits   *)
(* for a byte; the reader also takes uppercase ones, and what              *)
(* u8::from_str_radix takes for a number with a sign: "+" and one digit.   *)
(***************************************************************************)
EXTENDS Integers, Sequences

CONSTANTS
  Radix,      \* values of a digit: 16 in the code
  HexDigit,   \* HexDigit[n]: the digit the writer gives for n
  HexValue    \* HexValue[c]: what the reader takes c for, in either case

ASSUME HexAssumption ==
  /\ Radix \in Nat \ {0}
  /\ HexValue \in [DOMAIN HexValue -> 0 .. Radix - 1] /\ "+" \notin DOMAIN HexValue
  /\ DOMAIN HexDigit = 0 .. Radix - 1
  /\ \A n \in 0 .. Radix - 1 :
       HexDigit[n] \in DOMAIN HexValue /\ HexValue[HexDigit[n]] = n

(* Mutant: a byte below the radix is one digit. *)
HexSerialize_Unpadded(bytes) ==
  LET Digits(b) == IF b < Radix THEN <<HexDigit[b]>>
                   ELSE <<HexDigit[b \div Radix], HexDigit[b % Radix]>>
      upTo[n \in 0 .. Len(bytes)] == IF n = 0 THEN <<>> ELSE upTo[n - 1] \o Digits(bytes[n])
  IN  upTo[Len(bytes)]

HexSerialize(bytes) ==
  [k \in 1 .. 2 * Len(bytes) |->
     LET b == bytes[(k + 1) \div 2]
     IN  IF k % 2 = 1 THEN HexDigit[b \div Radix] ELSE HexDigit[b % Radix]]

(* What u8::from_str_radix makes of two characters: a number, or none. *)
FromStrRadix(c, d) ==
  IF d \notin DOMAIN HexValue THEN {}
  ELSE IF c = "+" THEN {HexValue[d]}
  ELSE IF c \in DOMAIN HexValue THEN {HexValue[c] * Radix + HexValue[d]} ELSE {}

(* The bytes, or none if the length is odd or two characters are no number. *)
HexDeserialize(s) ==
  LET bytes == 1 .. Len(s) \div 2
      Value(i) == FromStrRadix(s[2 * i - 1], s[2 * i])
  IN  IF Len(s) % 2 # 0 \/ \E i \in bytes : Value(i) = {} THEN {}
      ELSE {[i \in bytes |-> CHOOSE v \in Value(i) : TRUE]}

============================================================================
