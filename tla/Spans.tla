------------------------------- MODULE Spans --------------------------------
(***************************************************************************)
(* Spans of a text, as the detectors report them and both merges (engine.py*)
(* and chunker.ts) compare them.  Offsets count from 0 and the end of a    *)
(* span is exclusive.  Of a span's type and detector nothing depends.      *)
(***************************************************************************)
EXTENDS Integers, FiniteSets

Overlapping(a, b) == a.start < b.end /\ b.start < a.end

\* The higher score, then the longer span.
Preferred(new, last) ==
  \/ new.score > last.score
  \/ new.score = last.score /\ new.end - new.start > last.end - last.start

Covers(a, b) == a.start <= b.start /\ b.end <= a.end

PairwiseDisjoint(spans) == \A a, b \in spans : a = b \/ ~Overlapping(a, b)

-----------------------------------------------------------------------------
(* What a merge of spans promises.                                         *)

\* No span has characters on both sides of the end of c.
Cut(c, all) == \A x \in all : x.end <= c.end \/ c.end <= x.start

\* s does not go on behind the end of a chain of overlaps.
Uncrossed(s, all) == \A c \in all : Cut(c, all) => s.end <= c.end \/ c.end <= s.start

\* No chain of overlapping spans leads from a to b.
Apart(a, b, all) == \E c \in all : Cut(c, all) /\ (a.end <= c.end <=> c.end < b.end)

\* o is preferred to every span that a chain of overlaps leads to.
Dominant(o, all) == \A x \in all \ {o} : Preferred(o, x) \/ Apart(o, x, all)

\* Start and score are those of one span, the end that of one as well.
Candidates(all) ==
  {s \in [start : {x.start : x \in all}, end : {x.end : x \in all}, score : {x.score : x \in all}] :
     s.start < s.end /\ \E x \in all : x.start = s.start /\ x.score = s.score}

IsMerge(spans, all) ==
  /\ spans \subseteq Candidates(all)
  /\ PairwiseDisjoint(spans)
  /\ \A s \in spans : Uncrossed(s, all)
  /\ spans = {} => all = {}
  /\ \A o \in all : Dominant(o, all) => \E s \in spans : Covers(s, o) /\ s.score = o.score

=============================================================================
