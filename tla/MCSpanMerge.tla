---------------------------- MODULE MCSpanMerge -----------------------------
(* A small instance of SpanMerge for TLC: a text of Length characters.     *)
EXTENDS SpanMerge

CONSTANTS Length, Score, LlmScore

MCSpan(scores) ==
  {x \in [start : 0 .. Length, end : 0 .. Length, score : scores] : x.start < x.end}

\* Up to three spans of the layers, up to two of the model.
MCReports ==
  {{x, y, z} : x, y, z \in MCSpan(Score)} \cup {{}}
MCLlmReports == {{x, y} : x, y \in MCSpan({LlmScore})} \cup {{}}
MCAllSpan == MCSpan(Score \cup {LlmScore})
=============================================================================
