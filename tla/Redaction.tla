----------------------------- MODULE Redaction -----------------------------
(***************************************************************************)
(* The rules by which spans of a clip are taken for secrets and hidden:    *)
(* src/redaction/{detector,entropy,patterns,mask}.rs.  A text is its       *)
(* characters and the byte offset of each.  What a regular expression      *)
(* matches is left to SecretScan; of the tables of placeholder words and   *)
(* the shapes of paths, only which values they reject is kept.             *)
(***************************************************************************)
EXTENDS Integers, FiniteSets, SequencesExt

CONSTANTS
  MaxU32,          \* u32::MAX: the largest offset, length or count
  Class,           \* Class[c]: what kind of character c is
  Hex,             \* the characters that are hexadecimal digits
  MinValueLen,     \* the shortest captured value that may be a secret
  MinEntropyLen,   \* the shortest run of token characters that may qualify
  EntropyBits,     \* the entropy floor, in bits for each character
  RefCap,          \* ENTROPY_REF_CAP: the bits the token alphabet can give
  Log2             \* Log2[n]: in thousandths

CharClass == {"lower", "upper", "digit", "special", "other"}

ASSUME RedactionAssumption ==
  /\ MaxU32 \in Nat /\ MinValueLen \in Nat /\ MinEntropyLen \in Nat
  /\ EntropyBits \in Nat /\ RefCap \in Nat
  /\ Class \in [DOMAIN Class -> CharClass] /\ Hex \subseteq DOMAIN Class
  /\ Log2 \in Seq(Nat)

(* What the table has of a logarithm: 2 ^ b times as many, b bits more. *)
ASSUME LogAssumption ==
  /\ 1 \in DOMAIN Log2 => Log2[1] = 0
  /\ \A b \in {EntropyBits, RefCap} : \A m, n \in DOMAIN Log2 :
       n >= m * 2 ^ b => Log2[n] >= Log2[m] + 1000 * b

(* A text: `at[i]` is where character i begins, `bytes` where the text     *)
(* ends; `cuts` is where a match may begin or end, before which character; *)
(* `benign` is the spans that is_pathlike and the placeholder tables       *)
(* reject as values, `dataUris` those of inline base64 blobs.              *)
IsText(t) ==
  /\ t.at \in Seq(Nat) /\ t.bytes \in Nat
  /\ t.at # <<>> => t.at[1] = 0
  /\ \A i, j \in DOMAIN t.at : i < j => t.at[i] < t.at[j]
  /\ \A i \in DOMAIN t.at : t.at[i] < t.bytes
  /\ t.chars \in [DOMAIN t.at -> DOMAIN Class]
  /\ t.cuts \subseteq 1 .. Len(t.at) + 1
  /\ \A span \in t.dataUris : span.start \in Nat /\ span.end \in Nat

(* Where character i begins, or the text ends. *)
Boundary(t, i) == IF i \in DOMAIN t.at THEN t.at[i] ELSE t.bytes

(* What a regular expression may match: from one character to another. *)
Spans(t) ==
  {[start |-> Boundary(t, p[1]), end |-> Boundary(t, p[2])] :
     p \in {q \in t.cuts \X t.cuts : q[1] <= q[2]}}

(* The characters of a span, and which different ones there are. *)
Inside(t, span) == {i \in DOMAIN t.at : span.start <= t.at[i] /\ t.at[i] < span.end}

Symbols(t, span) == {t.chars[i] : i \in Inside(t, span)}

(* Mutant: only a span inside another overlaps it. *)
Overlap_Inside(a, b) == b.start <= a.start /\ a.end <= b.end

Overlap(a, b) == a.start < b.end /\ b.start < a.end

OverlapsAny(m, spans) == \E s \in spans : Overlap(m, s)

(***************************************************************************)
(* The gate on captured values: long enough, not the value of a path or a  *)
(* placeholder, and with a sign that it is no dictionary word.             *)
(***************************************************************************)
Signal == {"upper", "digit", "special"}

(* Mutant: any word that is long enough and no placeholder will do. *)
LooksLikeSecretValue_AnyWord(t, value) ==
  /\ Cardinality(Inside(t, value)) >= MinValueLen
  /\ value \notin t.benign

LooksLikeSecretValue(t, value) ==
  /\ Cardinality(Inside(t, value)) >= MinValueLen
  /\ value \notin t.benign
  /\ \E c \in Symbols(t, value) : Class[c] \in Signal

(***************************************************************************)
(* The entropy heuristic.  Tokens are of the base64 alphabet without the   *)
(* separators of identifiers and paths.  The length is cast to u32 where   *)
(* it is compared with MinEntropyLen, and characters are counted in u32,   *)
(* which wraps in a release build.  Entropies are in thousandths of a bit  *)
(* and times the characters counted.                                       *)
(***************************************************************************)
TokenChars(t) == {i \in DOMAIN t.at : Class[t.chars[i]] # "other"}

(* The maximal runs of token characters. *)
Runs(t) ==
  {[start |-> t.at[p[1]], end |-> Boundary(t, p[2] + 1)] :
     p \in {q \in TokenChars(t) \X TokenChars(t) :
              /\ q[1] .. q[2] # {} /\ q[1] .. q[2] \subseteq TokenChars(t)
              /\ q[1] - 1 \notin TokenChars(t) /\ q[2] + 1 \notin TokenChars(t)}}

Count(t, run, c) == Cardinality({i \in Inside(t, run) : t.chars[i] = c})

AsU32(n) == n % (MaxU32 + 1)

(* Characters counted in a run, all together and of one symbol. *)
Total(t, run) == AsU32(Cardinality(Inside(t, run)))
Occurrences(t, run, c) == AsU32(Count(t, run, c))

(* What the occurrences of symbol c are worth. *)
Worth(t, run, c) ==
  Occurrences(t, run, c) * (Log2[Total(t, run)] - Log2[Occurrences(t, run, c)])

ShannonEntropy(t, run) ==
  MapThenSumSet(LAMBDA c : Worth(t, run, c),
                {c \in Symbols(t, run) : Occurrences(t, run, c) > 0})

(* Mutant: a long run is measured against log2 of its length alone. *)
Reference_Uncapped(n) == Log2[n]

(* The entropy a random run of n characters can have. *)
Reference(n) == IF Log2[n] < 1000 * RefCap THEN Log2[n] ELSE 1000 * RefCap

(* Above the floor, and at least ENTROPY_RATIO of the reference, which the *)
(* nought that is the entropy where no character was counted never is.     *)
Random(h, total, n) ==
  total > 0 /\ h >= 1000 * total * EntropyBits /\ 100 * h >= 85 * total * Reference(n)

Qualifies(t, run) ==
  LET n == Cardinality(Inside(t, run))
  IN  /\ AsU32(n) >= MinEntropyLen
      /\ ~(Symbols(t, run) \subseteq Hex)
      /\ Cardinality({Class[c] : c \in Symbols(t, run)}) >= 3
      /\ Random(ShannonEntropy(t, run), Total(t, run), n)

(***************************************************************************)
(* The order in which overlaps are resolved: by start, then confidence,    *)
(* then length; the sort is stable, so then by the source pushed first.    *)
(***************************************************************************)
Source == {"provider", "gated", "url", "kv", "user", "entropy"}

PushRank == [provider |-> 1, gated |-> 2, url |-> 3, kv |-> 4, user |-> 5, entropy |-> 6]

ConfRank(m) == IF m.source = "entropy" THEN 0 ELSE 1

LexLess(x, y) == \E i \in 1 .. 4 : x[i] < y[i] /\ \A j \in 1 .. i - 1 : x[j] = y[j]

SortKey(m) == <<m.start, -ConfRank(m), m.start - m.end, PushRank[m.source]>>

Before(a, b) == LexLess(SortKey(a), SortKey(b))

(* Mutant: a match may begin on the last byte of the one before. *)
Fits_Touching(m, kept, lastEnd) == kept = <<>> \/ m.start + 1 >= lastEnd

(* Mutant: a match must leave a gap, at the start of the text too. *)
Fits_Gap(m, kept, lastEnd) == m.start > lastEnd

(* A match is kept if it begins at or after the end of the last one kept. *)
Fits(m, kept, lastEnd) == kept = <<>> \/ m.start >= lastEnd

(***************************************************************************)
(* Byte offsets to character offsets, in one walk over the text: from one  *)
(* target to the next, the count only moves forward, and what does not fit *)
(* a u32 is clamped.                                                       *)
(***************************************************************************)
(* Mutant: the character at the target is counted. *)
Walk_Inclusive(t, from, target) ==
  CHOOSE n \in from .. Len(t.at) :
    /\ n = Len(t.at) \/ t.at[n + 1] > target
    /\ \A k \in from .. n - 1 : t.at[k + 1] <= target

(* How many characters were passed when the one at the target is met. *)
Walk(t, from, target) ==
  CHOOSE n \in from .. Len(t.at) :
    /\ n = Len(t.at) \/ t.at[n + 1] >= target
    /\ \A k \in from .. n - 1 : t.at[k + 1] < target

Clamp(n) == IF n <= MaxU32 THEN n ELSE MaxU32

(***************************************************************************)
(* What is displayed of a text: the characters that are not bullets.       *)
(***************************************************************************)
MaskStyle == {"Full", "Prefix2", "Suffix4"}

Keep == [Full |-> 0, Prefix2 |-> 2, Suffix4 |-> 4]

(* Mutant: a text as long as the kept edge is taken for longer. *)
Bare_OffByOne(style, len) == len >= Keep[style]

(* Is the text longer than the edge its style leaves bare? *)
Bare(style, len) == len > Keep[style]

Shown(style, len) ==
  IF ~Bare(style, len) THEN {}
  ELSE IF style = "Suffix4" THEN len - Keep[style] + 1 .. len
  ELSE 1 .. Keep[style]

Displayed(t, isSecret, enabled, style) ==
  IF enabled /\ isSecret THEN Shown(style, Len(t.at)) ELSE DOMAIN t.at

============================================================================
