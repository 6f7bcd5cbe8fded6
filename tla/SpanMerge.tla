----------------------------- MODULE SpanMerge ------------------------------
(***************************************************************************)
(* How the detection service makes one answer of what its layers report    *)
(* (engine.py, detect and merge_spans): the spans of the pattern and model *)
(* layers are merged in a loop, and those of the optional language model   *)
(* fill the gaps that are left.                                            *)
(*                                                                         *)
(* The merged list is kept here as its last span, the only one the loop    *)
(* still changes, and the set of those before it.                          *)
(***************************************************************************)
EXTENDS Spans

CONSTANTS
  Span,         \* what a detector may report
  LayerReports, \* the sets of spans the layers may find in a text
  LlmReports,   \* those the language model may
  NoSpan        \* the merged list is empty

ASSUME SpanAssumption ==
  \A x \in Span : /\ x.start \in Nat /\ x.end \in Nat /\ x.score \in Nat
                  /\ x.start < x.end
                  /\ x = [start |-> x.start, end |-> x.end, score |-> x.score]
ASSUME LayerReportsAssumption ==
  LayerReports \subseteq SUBSET Span /\ LlmReports \subseteq SUBSET Span
ASSUME NoSpanAssumption == NoSpan \notin Candidates(Span)

VARIABLES
  phase,  \* where detect is
  found,  \* what the layers reported
  input,  \* the spans given to merge_spans: found, or the additive ones
  todo,   \* those the loop has not come to
  closed, \* the merged list but for its last span
  last,   \* the last span of the merged list
  firm    \* the merged spans of the layers

mergingVars == <<phase, found, input, todo, closed, last, firm>>

Merged == closed \cup ({last} \ {NoSpan})

MergingInit ==
  /\ phase = "analyze"
  /\ found = {} /\ input = {} /\ todo = {} /\ closed = {} /\ firm = {}
  /\ last = NoSpan

-----------------------------------------------------------------------------
MergeStart(spans) ==
  /\ input' = spans /\ todo' = spans
  /\ closed' = {} /\ last' = NoSpan

\* The layers have run; one that failed has reported nothing.
Analyze(spans) ==
  /\ phase = "analyze" /\ phase' = "merge"
  /\ found' = spans
  /\ MergeStart(spans)
  /\ UNCHANGED firm

\* Bug: a span may begin on the last character of the one before.
FollowsEarly(span) == span.start >= last.end - 1

Follows(span) == span.start >= last.end

\* Bug: the last span grows by the length of the other, not up to its end.
AbsorbedTooLong(span) ==
  IF Preferred(span, last) THEN span
  ELSE IF span.end > last.end THEN [last EXCEPT !.end = @ + span.end - span.start]
  ELSE last

\* What the last span becomes when another overlaps it.
Absorbed(span) ==
  IF Preferred(span, last) THEN span
  ELSE IF span.end > last.end THEN [last EXCEPT !.end = span.end]
  ELSE last

\* One turn of the loop.  The sort is by start alone, so spans that start
\* together may come in any order.
MergeNext(span) ==
  /\ span \in todo /\ \A other \in todo : span.start <= other.start
  /\ todo' = todo \ {span}
  /\ IF last = NoSpan \/ Follows(span)
     THEN /\ closed' = closed \cup ({last} \ {NoSpan})
          /\ last' = span
     ELSE /\ last' = Absorbed(span)
          /\ UNCHANGED closed
  /\ UNCHANGED <<phase, found, input, firm>>

\* The layers' spans are merged.  A long text, or a policy without the
\* language model, is answered with them.
MergeDone ==
  /\ phase = "merge" /\ todo = {}
  /\ firm' = Merged
  /\ phase' \in {"done", "llm"}
  /\ UNCHANGED <<found, input, todo, closed, last>>

\* Bug: what the language model reports is not compared with the layers.
AdditiveAll(spans) == spans

\* Of the model's spans those that overlap no merged span are taken.
Additive(spans) == {r \in spans : \A m \in firm : ~Overlapping(r, m)}

AddLlm(spans) ==
  /\ phase = "llm" /\ phase' = "llm merge"
  /\ MergeStart(Additive(spans))
  /\ UNCHANGED <<found, firm>>

LlmDone ==
  /\ phase = "llm merge" /\ todo = {}
  /\ phase' = "llm done"
  /\ UNCHANGED <<found, input, todo, closed, last, firm>>

MergingNext ==
  \/ \E spans \in LayerReports : Analyze(spans)
  \/ \E span \in todo : MergeNext(span)
  \/ MergeDone
  \/ \E spans \in LlmReports : AddLlm(spans)
  \/ LlmDone

MergingSpec == MergingInit /\ [][MergingNext]_mergingVars

\* The answer, once there is one.
Answered == phase \in {"done", "llm done"}
Answer == IF phase = "done" THEN firm ELSE firm \cup Merged

-----------------------------------------------------------------------------
(* Properties.                                                             *)

\* The variables have their types; a merged span starts where one of the
\* input starts and ends where one ends.
MergingTypeOK ==
  /\ phase \in {"analyze", "merge", "done", "llm", "llm merge", "llm done"}
  /\ found \subseteq Span /\ input \subseteq Span /\ todo \subseteq input
  /\ Merged \subseteq Candidates(input)
  /\ firm \subseteq Candidates(found)

\* Before the language model is asked: whatever the layers report, the merged
\* spans do not overlap, and a report preferred to all that a chain of
\* overlaps connects it with is covered, under its own score.  This is what
\* the extension's own merge of several answers builds on.
FirmIsMerge == phase \notin {"analyze", "merge"} => IsMerge(firm, found)

\* The spans of an answer do not overlap, the language model's included:
\* what the layers found is never cut or masked by them (ADR-7).
AnswerDisjoint == Answered => PairwiseDisjoint(Answer)

\* An answer never covers a character that nothing reported: what was read
\* as plain text stays as it is.
OnlyReported ==
  Answered => \A s \in Answer : \A k \in s.start .. s.end - 1 :
    \E x \in found \cup input : x.start <= k /\ k < x.end
=============================================================================
