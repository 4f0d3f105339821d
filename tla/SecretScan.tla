----------------------------- MODULE SecretScan -----------------------------
(***************************************************************************)
(* One run of the detector over one text, src/redaction/detector.rs: the   *)
(* sources push their matches one after the other, the later ones under    *)
(* what the earlier found, then the overlaps are resolved a match at a     *)
(* time and the byte offsets of what is left are made character offsets.   *)
(* A regular expression may match any spans of the text, and capture any   *)
(* value within them; the gate on values and the entropy of runs decide.   *)
(***************************************************************************)
EXTENDS Redaction

CONSTANTS
  Text,            \* texts
  MaxMatches       \* bound: how many spans the regular expressions push

ASSUME TextAssumption == \A t \in Text : IsText(t) /\ Len(t.at) <= Len(Log2)

VARIABLES
  text,
  stage,     \* the source whose turn it is, "merge", "convert" or "done"
  raws,      \* the matches that were pushed
  todo,      \* those the merge has still to look at
  kept,      \* those it kept, in order
  lastEnd,   \* where the last one kept ends
  passed,    \* how many characters the conversion has walked past
  chars      \* the character offsets it has pushed

merged == <<todo, kept, lastEnd>>
walked == <<passed, chars>>
vars == <<text, stage, raws, merged, walked>>

Match(source, span) == [start |-> span.start, end |-> span.end, source |-> source]

Init ==
  /\ text \in Text
  /\ stage = "provider"
  /\ raws = {} /\ todo = {} /\ kept = <<>> /\ lastEnd = 0
  /\ passed = 0 /\ chars = <<>>

(* Empty matches, which only a user's rule can have, are skipped. *)
NonEmpty(span) == span.end > span.start

Pushed(source) == {m \in raws : m.source = source}

Push(source, span) ==
  /\ stage = source /\ NonEmpty(span)
  /\ Cardinality(raws) < MaxMatches
  /\ raws' = raws \cup {Match(source, span)}
  /\ UNCHANGED <<text, stage, merged, walked>>

(* A match is pushed if the value it captures passes the gate. *)
PushGated(source, span) ==
  /\ Push(source, span)
  /\ \E value \in Spans(text) :
       /\ span.start <= value.start /\ value.end <= span.end
       /\ LooksLikeSecretValue(text, value)

Provider(span) == Push("provider", span)

(* Connection strings and Authorization headers. *)
Gated(span) == PushGated("gated", span)

Url(span) == PushGated("url", span)

(* A key=value inside a URL was reported as the URL's. *)
KeyValue(span) == PushGated("kv", span) /\ ~OverlapsAny(span, Pushed("url"))

(* The rules of the user that compile; the others are skipped. *)
UserRule(span) == Push("user", span)

(* A source has no more matches: it is the next one's turn. *)
Turn(source, next) ==
  /\ stage = source /\ stage' = next
  /\ UNCHANGED <<text, raws, merged, walked>>

(* Runs that qualify as random and that neither a match nor a data: URI    *)
(* claims.  The collection ends, and the merge begins.                     *)
Entropy ==
  /\ stage = "entropy"
  /\ raws' = raws \cup {Match("entropy", r) :
                          r \in {q \in Runs(text) :
                                   Qualifies(text, q) /\ ~OverlapsAny(q, raws \cup text.dataUris)}}
  /\ todo' = raws'
  /\ stage' = "merge"
  /\ UNCHANGED <<text, kept, lastEnd, walked>>

(* The next match in the order is kept if it fits after the last. *)
Merge(m) ==
  /\ stage = "merge"
  /\ \A other \in todo \ {m} : Before(m, other)
  /\ todo' = todo \ {m}
  /\ IF Fits(m, kept, lastEnd)
       THEN kept' = Append(kept, m) /\ lastEnd' = m.end
       ELSE UNCHANGED <<kept, lastEnd>>
  /\ UNCHANGED <<text, stage, raws, walked>>

Merged ==
  /\ stage = "merge" /\ todo = {}
  /\ stage' = "convert"
  /\ UNCHANGED <<text, raws, merged, walked>>

(* The boundaries of what was kept: start, end, start, end, ... *)
Target(k) == LET m == kept[(k + 1) \div 2] IN IF k % 2 = 1 THEN m.start ELSE m.end

(* Walk on to the next boundary; what does not fit a u32 is clamped. *)
Convert ==
  /\ stage = "convert" /\ Len(chars) < 2 * Len(kept)
  /\ passed' = Walk(text, passed, Target(Len(chars) + 1))
  /\ chars' = Append(chars, Clamp(passed'))
  /\ UNCHANGED <<text, stage, raws, merged>>

Finish ==
  /\ stage = "convert" /\ Len(chars) = 2 * Len(kept)
  /\ stage' = "done"
  /\ UNCHANGED <<text, raws, merged, walked>>

Next ==
  \/ \E span \in Spans(text) :
       Provider(span) \/ Gated(span) \/ Url(span) \/ KeyValue(span) \/ UserRule(span)
  \/ Turn("provider", "gated") \/ Turn("gated", "url") \/ Turn("url", "kv")
  \/ Turn("kv", "user") \/ Turn("user", "entropy") \/ Entropy
  \/ \E m \in todo : Merge(m)
  \/ Merged \/ Convert \/ Finish

Spec == Init /\ [][Next]_vars

(* The verdict of `is_secret`, which looks at what was pushed only. *)
IsSecret == raws # {}

(***************************************************************************)
(* Properties                                                              *)
(***************************************************************************)

(* The shape of the state; no match is empty or leaves the text. *)
TypeOK ==
  /\ text \in Text
  /\ stage \in Source \cup {"merge", "convert", "done"}
  /\ \A m \in raws : m.source \in Source /\ m.start \in Nat /\ m.end \in Nat
  /\ \A m \in raws : m.start < m.end /\ m.end <= text.bytes
  /\ todo \subseteq raws
  /\ kept \in Seq(raws)
  /\ lastEnd = IF kept = <<>> THEN 0 ELSE kept[Len(kept)].end
  /\ passed \in 0 .. Len(text.at) /\ chars \in Seq(0 .. MaxU32)

(***************************************************************************)
(* The matches kept are in the order of the text and do not overlap, as    *)
(* the single walk of byte_to_char_offsets needs.                          *)
(***************************************************************************)
KeptDisjoint == \A i, j \in DOMAIN kept : i < j => kept[i].end <= kept[j].start

(* The match was kept, or gave way to one that was. *)
Reported(m) == \E i \in DOMAIN kept : kept[i] = m \/ Overlap(kept[i], m)

(***************************************************************************)
(* No match is lost: one that was not kept overlaps one that was, so what  *)
(* detect_secrets reports touches every secret that was found.             *)
(***************************************************************************)
NothingUnreported ==
  \A m \in raws \ todo :
    stage \notin Source => Reported(m)

(***************************************************************************)
(* The verdict and the spans agree: is_secret, which does not resolve      *)
(* overlaps, says yes exactly when detect_secrets returns a span.          *)
(***************************************************************************)
VerdictMatchesSpans == stage = "done" => (IsSecret <=> kept # <<>>)

(***************************************************************************)
(* A heuristic guess never competes with a definite match: every run of    *)
(* random characters that is reported was kept whole, and hid nothing.     *)
(***************************************************************************)
GuessesHideNothing ==
  \A m \in raws : m.source = "entropy" =>
    /\ \A other \in raws \ {m} : ~Overlap(m, other)
    /\ stage = "done" => \E i \in DOMAIN kept : kept[i] = m

(***************************************************************************)
(* The character spans are those of the bytes that matched, whatever the   *)
(* widths of the characters before them, up to the clamp at MaxU32; and    *)
(* the offsets do not go backwards.                                        *)
(***************************************************************************)
CharsBefore(b) == Cardinality({i \in DOMAIN text.at : text.at[i] < b})

CharSpansFaithful ==
  stage = "done" =>
    \A i \in DOMAIN kept :
      /\ chars[2 * i - 1] = Clamp(CharsBefore(kept[i].start))
      /\ chars[2 * i] = Clamp(CharsBefore(kept[i].end))
      /\ chars[2 * i - 1] < chars[2 * i] \/ chars[2 * i] = MaxU32

(***************************************************************************)
(* A text with a secret is never displayed whole: at most the edge of its  *)
(* style is shown, and nothing of a text no longer than that edge.         *)
(***************************************************************************)
MaskHides ==
  stage = "done" /\ kept # <<>> =>
    \A style \in MaskStyle :
      LET shown == Displayed(text, IsSecret, TRUE, style)
      IN  /\ shown \subseteq DOMAIN text.at /\ Cardinality(shown) <= Keep[style]
          /\ Len(text.at) <= Keep[style] => shown = {}

(***************************************************************************)
(* Ordinary text stays readable: nothing but a provider's token or a rule  *)
(* of the user's own hides a text without a capital, a digit or a base64   *)
(* sign; and no guess hides digests and UUIDs, which are hexadecimal       *)
(* digits and separators.                                                  *)
(***************************************************************************)
PlainStaysReadable ==
  LET symbols == {text.chars[i] : i \in DOMAIN text.at}
  IN  \A m \in raws :
        /\ (\A c \in symbols : Class[c] \notin Signal) => m.source \in {"provider", "user"}
        /\ (\A c \in symbols : c \in Hex \/ Class[c] = "other") => m.source # "entropy"

(***************************************************************************)
(* A run of random characters does not go unnoticed, of any length that a  *)
(* u32 holds (a longer one may: its length is cast before it is compared): *)
(* one of mixed classes in which every symbol is as frequent as any other, *)
(* if the symbols are all different or as many as the alphabet's, is part  *)
(* of a data: URI or touched by a match; and that match, if it gave way to *)
(* another, gave way to one it overlaps.  Only the latter is reported.     *)
(***************************************************************************)
IsUniform(run) ==
  LET symbols == Symbols(text, run)
      n       == Cardinality(Inside(text, run))
  IN  /\ MinEntropyLen <= n /\ n <= MaxU32
      /\ Cardinality(symbols) >= 2 ^ EntropyBits
      /\ ~(symbols \subseteq Hex) /\ Cardinality({Class[c] : c \in symbols}) >= 3
      /\ \A c, other \in symbols : Count(text, run, c) = Count(text, run, other)
      /\ Cardinality(symbols) = n \/ Cardinality(symbols) >= 2 ^ RefCap

RandomIsNoticed ==
  stage = "done" =>
    \A run \in Runs(text) :
      IsUniform(run) =>
        OverlapsAny(run, text.dataUris) \/ \E m \in raws : Overlap(run, m) /\ Reported(m)

============================================================================
