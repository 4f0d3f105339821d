------------------------- MODULE MCPlainLayoutScan -------------------------
(* Three byte values, so that a flag can be neither 0 nor 1 and a string   *)
(* can be malformed, and one-byte length prefixes.                         *)
EXTENDS PlainLayoutScan

(* Two digits, and an uppercase one. *)
MCHexDigit == [n \in 0 .. 1 |-> <<"0", "a">>[n + 1]]

MCHexValue == [c \in {"0", "a", "A"} |-> IF c = "0" THEN 0 ELSE 1]

MCStrings == {<<>>, <<0>>, <<1, 0>>}

============================================================================
