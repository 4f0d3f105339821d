---------------------------- MODULE MCSecretScan ----------------------------
(***************************************************************************)
(* Texts of two to twelve characters of one to three bytes, in which any   *)
(* span between a few cuts may match; and every mix of four token          *)
(* characters in runs of three, four and eight, and an even one of nine    *)
(* and of twelve, in which order does not matter.  A u32 ends at eight:    *)
(* the offsets of the longest text are clamped, and of the runs of nine    *)
(* and twelve nought and three characters are counted.                     *)
(***************************************************************************)
EXTENDS SecretScan

MCClass == [x |-> "lower", f |-> "lower", X |-> "upper", F |-> "upper",
            n |-> "digit", p |-> "special", w |-> "other"]

MCLog2 == <<0, 1000, 1585, 2000, 2322, 2585, 2807, 3000,
            3170, 3322, 3459, 3585>>

TextOf(cs, at, bytes, cuts, benign, dataUris) ==
  [chars |-> cs, at |-> at, bytes |-> bytes, cuts |-> cuts, benign |-> benign,
   dataUris |-> dataUris]

Span(a, b) == [start |-> a, end |-> b]

Mixed ==
  {TextOf(<<"x", "n">>, <<0, 1>>, 2, 1 .. 3, {}, {}),
   TextOf(<<"w", "x", "X", "n">>, <<0, 3, 4, 5>>, 6, {1, 2, 3, 5}, {Span(3, 4)}, {}),
   TextOf(<<"X", "n", "w", "p", "x">>, <<0, 1, 2, 5, 6>>, 7, {1, 2, 4, 6}, {}, {}),
   TextOf(<<"w", "p", "x", "X", "n">>, <<0, 2, 3, 4, 5>>, 6, {1, 2, 4, 6}, {}, {}),
   TextOf(<<"w", "p", "x", "X", "n">>, <<0, 2, 3, 4, 5>>, 6, {2, 6}, {}, {Span(2, 4)}),
   TextOf(<<"w", "w", "p", "x", "X", "n">>, <<0, 1, 2, 3, 4, 5>>, 6, 1 .. 4, {}, {}),
   TextOf(<<"x", "f", "w", "x">>, <<0, 1, 2, 3>>, 4, {1, 3, 4, 5}, {}, {}),
   TextOf(<<"f", "F", "n", "n", "w", "n">>, <<0, 1, 2, 3, 4, 7>>, 8, {1, 3, 5, 7}, {}, {}),
   TextOf(<<"w", "w", "x", "w", "p", "x", "X", "n", "x", "w", "X", "n">>,
          <<0, 2, 4, 5, 6, 7, 8, 9, 10, 11, 12, 13>>, 14, {5, 10, 12, 13}, {}, {})}

(* Runs of n characters, in the order x, X, n, p. *)
Mix(n, i, j, k) ==
  TextOf([m \in 1 .. n |->
            IF m <= i THEN "x" ELSE IF m <= j THEN "X" ELSE IF m <= k THEN "n" ELSE "p"],
         [m \in 1 .. n |-> m - 1], n, {1, n + 1}, {}, {})

MixesOf(n) ==
  {Mix(n, c[1], c[2], c[3]) :
     c \in {d \in (0 .. n) \X (0 .. n) \X (0 .. n) : d[1] <= d[2] /\ d[2] <= d[3]}}

MCText ==
  Mixed \cup MixesOf(3) \cup MixesOf(4) \cup MixesOf(8)
    \cup {Mix(9, 2, 4, 6), Mix(12, 3, 6, 9)}

============================================================================
