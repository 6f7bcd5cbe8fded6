---------------------------- MODULE Substitution ----------------------------
(***************************************************************************)
(* Replacing the spans of a text by placeholders, text after text with one *)
(* vault (substitute.ts), and turning placeholders back (vault.rehydrate). *)
(*                                                                         *)
(* The service, in Python, counts the characters of a text; the extension  *)
(* slices JavaScript strings, whose elements are UTF-16 units.  A wide     *)
(* character is one of the former and two of the latter.  A placeholder is *)
(* one element here, whatever its length.                                  *)
(***************************************************************************)
EXTENDS Vault, SequencesExt

CONSTANTS
  Wide,    \* the characters outside the basic plane
  Text,    \* the texts: sequences of characters
  MaxTexts \* bound: texts scrubbed, one after the other

ASSUME MaxTextsAssumption == MaxTexts \in Nat
ASSUME TextAssumption == \A t \in Text : t \in Seq(Range(t))

VARIABLES
  vault, \* the session's table
  text,  \* the text being scrubbed, as the service saw it
  spans, \* the service's answer, complete
  todo,  \* the spans still to be replaced
  out,   \* the text as replaced so far
  texts  \* texts begun, up to MaxTexts

vars == <<vault, text, spans, todo, out, texts>>

\* A text as JavaScript holds it; each element is marked as a unit.
Units(chars) ==
  FlattenSeq([i \in DOMAIN chars |->
    IF chars[i] \in Wide THEN <<<<"unit", chars[i], 1>>, <<"unit", chars[i], 2>>>>
                         ELSE <<<<"unit", chars[i], 1>>>>])

\* JavaScript's slice, which stops at the end of the string.
Slice(seq, from, to) == SubSeq(seq, from + 1, IF to < Len(seq) THEN to ELSE Len(seq))

\* What a span of a text holds may be a value of the vault.
ASSUME ValueAssumption ==
  \A t \in Text : \A i, j \in 0 .. Len(Units(t)) : i < j => Slice(Units(t), i, j) \in Value

\* The service's answer is a set of spans of which no two overlap.
Answers(chars) ==
  LET all == {sp \in [start : 0 .. Len(chars), end : 0 .. Len(chars), type : Type] : sp.start < sp.end}
  IN  {a \in SUBSET all : \A x, y \in a : x = y \/ x.end <= y.start \/ y.end <= x.start}

Init ==
  /\ vault = EmptyVault
  /\ text = <<>> /\ spans = {} /\ todo = {} /\ out = <<>>
  /\ texts = 0

\* The answer for a text arrives.
Begin(chars, answer) ==
  /\ todo = {}
  /\ texts < MaxTexts /\ texts' = texts + 1
  /\ text' = chars /\ out' = Units(chars)
  /\ spans' = answer /\ todo' = answer
  /\ UNCHANGED vault

\* Bug: spans are replaced from first to last.
NextSpanFirst(sp) == \A other \in todo : sp.start <= other.start

NextSpan(sp) == \A other \in todo : sp.start >= other.start

\* One turn of the loop; a span beyond the text is passed over.
Replace(sp) ==
  /\ sp \in todo /\ NextSpan(sp)
  /\ LET value == Slice(out, sp.start, sp.end)
     IN  IF value = <<>> THEN UNCHANGED <<vault, out>>
         ELSE /\ vault' = GetPlaceholder(vault, value, sp.type)
              /\ out' = Slice(out, 0, sp.start) \o <<vault'.reverse[value]>>
                          \o Slice(out, sp.end, Len(out))
  /\ todo' = todo \ {sp}
  /\ UNCHANGED <<text, spans, texts>>

Next ==
  \/ \E chars \in Text : \E answer \in Answers(chars) : Begin(chars, answer)
  \/ \E sp \in todo : Replace(sp)

Spec == Init /\ [][Next]_vars

-----------------------------------------------------------------------------
(* Properties.                                                             *)

\* A name whose type the pattern of rehydrate does not match.
Unmatched(name) == name \in DOMAIN vault.forward /\ name[1] \notin Rehydratable

\* What the agent's tools, or the user, get to see of a scrubbed text.
Rehydrated(seq) ==
  FlattenSeq([i \in DOMAIN seq |->
    IF seq[i] \in DOMAIN vault.forward /\ ~Unmatched(seq[i]) THEN Rehydrate(vault, seq[i]) ELSE <<seq[i]>>])

\* The variables have their types.
TypeOK ==
  /\ NamesOK(vault)
  /\ todo \subseteq spans /\ spans \in Answers(text)
  /\ texts \in 0 .. MaxTexts

\* However many texts the vault has served and whatever was replaced, a
\* scrubbed text rehydrates to the text it was made from (ADR-5), unless it
\* has a name of a type that the pattern of rehydrate does not match.
RoundTrip ==
  todo = {} /\ (\A i \in DOMAIN out : ~Unmatched(out[i])) => Rehydrated(out) = Units(text)

\* The value of a span, as the service saw it.
Reported(sp) == Units(SubSeq(text, sp.start + 1, sp.end))

NarrowUpTo(sp) == \A i \in 1 .. sp.end : text[i] \notin Wide

\* Where only narrow characters precede, replacing from last to first takes
\* each span at its place although the text changes meanwhile (ADR-3): every
\* value reported is in the vault, and so in the check of what is sent.
ExactIfNarrow ==
  todo = {} => \A sp \in spans : NarrowUpTo(sp) => Reported(sp) \in DOMAIN vault.reverse

\* ADR-3:59, "Offsets must be exact": so for every text.
OffsetsExact ==
  todo = {} => \A sp \in spans : Reported(sp) \in DOMAIN vault.reverse
=============================================================================
