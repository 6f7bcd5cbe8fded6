------------------------------ MODULE Chunker -------------------------------
(***************************************************************************)
(* How the extension cuts a long text for the detection service and puts   *)
(* the answers together again (chunker.ts): overlapping chunks of a fixed  *)
(* size, and a merge of the spans found in them.                           *)
(*                                                                         *)
(* A text is a sequence of characters.  As in the code offsets count from  *)
(* 0 and the end of a span is exclusive.                                   *)
(***************************************************************************)
EXTENDS Spans, SequencesExt

CONSTANTS ChunkSize, Overlap

ASSUME ChunkAssumption == ChunkSize \in Nat /\ Overlap \in Nat /\ Overlap < ChunkSize

Stride == ChunkSize - Overlap

\* A text no longer than a chunk is scanned as it is.
Whole(len) == len <= ChunkSize

\* Chunks begin at 0, Stride, 2 * Stride, ... up to the end of the text.
Chunks(len) == 0 .. (IF Whole(len) THEN 0 ELSE (len - 1) \div Stride)

Chunk(text, i) ==
  SubSeq(text, i * Stride + 1, Min({Len(text), i * Stride + ChunkSize}))

\* Bug: chunks are placed as if they did not overlap.
OffsetDisjoint(i) == i * ChunkSize

\* Where detectChunked puts the spans of chunk i.
Offset(i) == i * Stride

-----------------------------------------------------------------------------
(* mergeSpans: sorted by start and end, each span either follows the last  *)
(* kept one, replaces it or is dropped.  Unlike the service's merge it does*)
(* not lengthen the last one.  Of spans with the same start and end, which *)
(* the sort leaves in any order, the one with the higher score remains.    *)

Before(a, b) ==
  \/ a.start < b.start
  \/ a.start = b.start /\ a.end < b.end
  \/ a.start = b.start /\ a.end = b.end /\ a.score < b.score

\* Bug: the first of two overlapping spans is kept.
KeepFirst(merged, span) ==
  IF merged = <<>> \/ span.start >= Last(merged).end THEN Append(merged, span)
  ELSE merged

Keep(merged, span) ==
  IF merged = <<>> \/ span.start >= Last(merged).end THEN Append(merged, span)
  ELSE IF Preferred(span, Last(merged)) THEN Append(Front(merged), span)
  ELSE merged

\* Which of the spans is the next in order.
Foremost(spans) == CHOOSE x \in spans : \A y \in spans \ {x} : Before(x, y)

\* The list that n turns of the loop have made, and the spans still to come.
MergeSpans(spans) ==
  LET turn[n \in 0 .. Cardinality(spans)] ==
        IF n = 0 THEN [todo |-> spans, merged |-> <<>>]
        ELSE LET last == turn[n - 1]
                 span == Foremost(last.todo)
             IN  [todo |-> last.todo \ {span}, merged |-> Keep(last.merged, span)]
  IN  ToSet(turn[Cardinality(spans)].merged)
=============================================================================
