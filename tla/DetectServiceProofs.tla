------------------------ MODULE DetectServiceProofs -------------------------
(***************************************************************************)
(* For any words, texts, policies and bounds: what DetectService reports   *)
(* is real, what it promises to find is found, placeholders are left       *)
(* alone, and no layer is left out for another policy's failure.  For any  *)
(* set of reports: what SpanMerge, the loop that merges them, returns.     *)
(***************************************************************************)
EXTENDS DetectService, SpanMerge, FiniteSetTheorems, SequenceTheorems, TLAPS

\* A bounded set of integers that is not empty has a largest element.
LEMMA MaxOK ==
  ASSUME NEW T, T \subseteq Int, T # {}, NEW n \in Int, \A t \in T : t <= n
  PROVE  Max(T) \in T /\ \A t \in T : t <= Max(T)
<1> DEFINE D == {n - t : t \in T}
<1>1. D \subseteq Nat /\ D # {}
  <2>1. \A t \in T : n - t \in Nat
    OBVIOUS
  <2>2. PICK t \in T : TRUE
    OBVIOUS
  <2>3. n - t \in D
    OBVIOUS
  <2> QED BY <2>1, <2>3
<1>2. PICK d \in D : \A c \in D : ~(<<c, d>> \in OpToRel(<, Nat))
  BY <1>1, NatLessThanWellFounded, WFMin
<1>3. \A c \in D : ~(c < d)
  BY <1>1, <1>2 DEF OpToRel
<1>4. PICK x \in T : d = n - x
  OBVIOUS
<1>5. \A t \in T : x >= t
  <2> SUFFICES ASSUME NEW t \in T, ~(x >= t) PROVE FALSE
    OBVIOUS
  <2>1. n - t \in D
    OBVIOUS
  <2>2. ~(n - t < n - x)
    BY <1>3, <1>4, <2>1
  <2> QED BY <2>2
<1> QED BY <1>5 DEF Max

-----------------------------------------------------------------------------
(* Places in a text and in its chunks.                                     *)

\* A place of a word is a span of the text, and not an empty one.
LEMMA PlacesOK ==
  ASSUME NEW text \in Seq(Int), NEW w \in Seq(Int) \ {<<>>}, NEW p \in Places(text, w)
  PROVE  /\ p \in Nat \X Nat
         /\ p[1] < p[2] /\ p[2] <= Len(text) /\ p[2] = p[1] + Len(w)
         /\ SubSeq(text, p[1] + 1, p[2]) = w
<1>1. PICK k \in 0 .. Len(text) - Len(w) :
        p = <<k, k + Len(w)>> /\ SubSeq(text, k + 1, k + Len(w)) = w
  BY DEF Places
<1>2. Len(w) \in Nat /\ Len(w) # 0 /\ Len(text) \in Nat
  BY EmptySeq
<1>3. p[1] = k /\ p[2] = k + Len(w)
  BY <1>1
<1> QED BY <1>1, <1>2, <1>3

\* A span at which the word stands is a place of it.
LEMMA IsPlace ==
  ASSUME NEW text \in Seq(Int), NEW w \in Seq(Int), NEW a \in Nat, NEW b \in Nat,
         b = a + Len(w), b <= Len(text), SubSeq(text, a + 1, b) = w
  PROVE  <<a, b>> \in Places(text, w)
<1>1. a \in 0 .. Len(text) - Len(w)
  OBVIOUS
<1> QED BY <1>1 DEF Places

\* What lies in a chunk is a part of the chunk as it is a part of the text.
LEMMA PartOfChunk ==
  ASSUME NEW text \in Seq(Int), NEW pos \in Nat, NEW end \in Nat, pos < end, end <= Len(text),
         NEW a \in Nat, NEW b \in Nat, a < b, b <= end - pos
  PROVE  /\ SubSeq(SubSeq(text, pos + 1, end), a + 1, b) = SubSeq(text, pos + a + 1, pos + b)
         /\ SubSeq(text, pos + 1, end) \in Seq(Int)
         /\ Len(SubSeq(text, pos + 1, end)) = end - pos
<1>1. SubSeq(SubSeq(text, pos + 1, end), a + 1, b) = SubSeq(text, (pos + 1) + (a + 1) - 1, (pos + 1) + b - 1)
  <2>1. pos + 1 \in 1 .. Len(text) /\ end \in 1 .. Len(text)
    OBVIOUS
  <2>2. a + 1 \in 1 .. end - (pos + 1) + 1 /\ b \in 1 .. end - (pos + 1) + 1
    OBVIOUS
  <2> QED BY <2>1, <2>2, SubSeqOfSubSeq
<1>2. (pos + 1) + (a + 1) - 1 = pos + a + 1 /\ (pos + 1) + b - 1 = pos + b
  OBVIOUS
<1> QED BY <1>1, <1>2

\* The places of a word in a chunk are those in the text that lie in it.
LEMMA PlacesOfChunk ==
  ASSUME NEW text \in Seq(Int), NEW pos \in Nat, NEW end \in Nat, pos < end, end <= Len(text),
         NEW w \in Seq(Int) \ {<<>>}
  PROVE  LET chunk == SubSeq(text, pos + 1, end)
         IN  /\ \A p \in Places(chunk, w) : <<p[1] + pos, p[2] + pos>> \in Places(text, w)
             /\ \A p \in Places(text, w) :
                  pos <= p[1] /\ p[2] <= end => <<p[1] - pos, p[2] - pos>> \in Places(chunk, w)
<1> DEFINE chunk == SubSeq(text, pos + 1, end)
<1>1. chunk \in Seq(Int) /\ Len(chunk) = end - pos
  OBVIOUS
<1> HIDE DEF chunk
<1>2. ASSUME NEW p \in Places(chunk, w) PROVE <<p[1] + pos, p[2] + pos>> \in Places(text, w)
  <2>1. p \in Nat \X Nat /\ p[1] < p[2] /\ p[2] <= Len(chunk) /\ p[2] = p[1] + Len(w)
    BY <1>1, <1>2, PlacesOK
  <2>2. SubSeq(chunk, p[1] + 1, p[2]) = w
    BY <1>1, <1>2, PlacesOK
  <2>3. PICK a \in Nat, b \in Nat : a = p[1] /\ b = p[2]
    BY <2>1
  <2>4. a < b /\ b <= end - pos /\ b = a + Len(w)
    BY <1>1, <2>1, <2>3
  <2>5. SubSeq(text, pos + a + 1, pos + b) = w
    <3>1. SubSeq(chunk, a + 1, b) = SubSeq(text, pos + a + 1, pos + b)
      BY <2>4, PartOfChunk DEF chunk
    <3> QED BY <2>2, <2>3, <3>1
  <2>6. /\ a + pos \in Nat /\ b + pos \in Nat /\ b + pos = (a + pos) + Len(w) /\ b + pos <= Len(text)
        /\ pos + a + 1 = (a + pos) + 1 /\ pos + b = b + pos
    BY <2>4
  <2>7. <<a + pos, b + pos>> \in Places(text, w)
    BY <2>5, <2>6, IsPlace
  <2> QED BY <2>3, <2>7
<1>3. ASSUME NEW p \in Places(text, w), pos <= p[1], p[2] <= end
      PROVE  <<p[1] - pos, p[2] - pos>> \in Places(chunk, w)
  <2> DEFINE a == p[1] - pos
             b == p[2] - pos
  <2>1. p \in Nat \X Nat /\ p[1] < p[2] /\ p[2] = p[1] + Len(w)
    BY PlacesOK
  <2>2. SubSeq(text, p[1] + 1, p[2]) = w
    BY PlacesOK
  <2>3. a \in Nat /\ b \in Nat /\ a < b /\ b <= end - pos /\ b = a + Len(w) /\ pos + a = p[1] /\ pos + b = p[2]
    <3>1. p[1] \in Nat /\ p[2] \in Nat /\ Len(w) \in Nat
      BY <2>1
    <3> QED BY ONLY <1>3, <2>1, <3>1, pos \in Nat, end \in Nat DEF a, b
  <2> HIDE DEF a, b
  <2>4. SubSeq(chunk, a + 1, b) = w
    <3>1. SubSeq(chunk, a + 1, b) = SubSeq(text, pos + a + 1, pos + b)
      BY <2>3, PartOfChunk DEF chunk
    <3> QED BY <2>2, <2>3, <3>1
  <2>5. <<a, b>> \in Places(chunk, w)
    BY <1>1, <2>3, <2>4, IsPlace
  <2> QED BY <2>5 DEF a, b
<1> QED BY <1>2, <1>3 DEF chunk

\* Nothing of a chunk touches more, or is allowed, than of the text.
LEMMA KeptOfChunk ==
  ASSUME NEW text \in Seq(Int), NEW pos \in Nat, NEW end \in Nat, pos < end, end <= Len(text),
         NEW words \in SUBSET Word, NEW policy,
         NEW p \in Kept(text, Reports(text, words), policy), pos <= p[1], p[2] <= end
  PROVE  LET chunk == SubSeq(text, pos + 1, end)
         IN  <<p[1] - pos, p[2] - pos>> \in Kept(chunk, Reports(chunk, words), policy)
<1> DEFINE chunk == SubSeq(text, pos + 1, end)
           r == <<p[1] - pos, p[2] - pos>>
<1>1. PICK w \in words : p \in Places(text, w)
  BY DEF Kept, Reports
<1>2. w \in Seq(Int) \ {<<>>}
  BY WordAssumption
<1>3. p[1] \in Nat /\ p[2] \in Nat /\ p[1] < p[2] /\ SubSeq(text, p[1] + 1, p[2]) = w
  BY <1>1, <1>2, PlacesOK
<1>4. r \in Places(chunk, w)
  BY <1>1, <1>2, PlacesOfChunk
<1>5. r \in Reports(chunk, words)
  BY <1>1, <1>4 DEF Reports
<1>6. ~Touches(chunk, r)
  <2> SUFFICES ASSUME NEW v \in Lookalike, NEW q \in Places(chunk, v), Overlap(r, q) PROVE FALSE
    BY DEF Touches, Reports
  <2>1. v \in Seq(Int) \ {<<>>}
    BY WordAssumption
  <2>2. <<q[1] + pos, q[2] + pos>> \in Places(text, v)
    BY <2>1, PlacesOfChunk
  <2>3. q[1] \in Nat /\ q[2] \in Nat
    <3>1. chunk \in Seq(Int)
      OBVIOUS
    <3> HIDE DEF chunk
    <3> QED BY <2>1, <3>1, PlacesOK
  <2>4. Overlap(p, <<q[1] + pos, q[2] + pos>>)
    <3>1. p[1] - pos < q[2] /\ q[1] < p[2] - pos
      BY DEF Overlap
    <3>2. p[1] \in Nat /\ p[2] \in Nat /\ p[1] < q[2] + pos /\ q[1] + pos < p[2]
      <4>1. \A a, b, c, d, n \in Nat : a - n < d /\ c < b - n => a < d + n /\ c + n < b
        OBVIOUS
      <4>2. p[1] \in Nat /\ p[2] \in Nat
        BY <1>3
      <4> QED BY ONLY <2>3, <3>1, <4>1, <4>2, pos \in Nat
    <3> QED BY <3>2 DEF Overlap
  <2> QED BY <2>2, <2>4 DEF Kept, Touches, Reports
<1>7. ~Allowed(chunk, r, policy)
  <2>1. chunk \in Seq(Int)
    OBVIOUS
  <2>2. SubSeq(chunk, r[1] + 1, r[2]) = w
    <3> HIDE DEF chunk, r
    <3> QED BY <1>2, <1>4, <2>1, PlacesOK
  <2> QED BY <1>3, <2>2 DEF Kept, Allowed
<1> QED BY <1>5, <1>6, <1>7 DEF Kept

-----------------------------------------------------------------------------
(* Where a long text is cut.                                               *)

\* A chunk ends behind its beginning, and not behind the text.
LEMMA ChunkEndOK ==
  ASSUME NEW text \in Seq(Int), NEW pos \in Nat, pos < Len(text)
  PROVE  ChunkEnd(text, pos) \in pos + 1 .. Len(text)
<1> DEFINE breaks == {k \in pos + 1 .. pos + Target : text[k + 1] = Newline}
<1>1. CASE breaks = {} \/ pos + Target >= Len(text)
  BY <1>1, BoundsAssumption DEF ChunkEnd
<1>2. CASE breaks # {} /\ ~(pos + Target >= Len(text))
  <2>1. breaks \subseteq Int /\ \A k \in breaks : k <= pos + Target
    BY BoundsAssumption
  <2> HIDE DEF breaks
  <2>2. Max(breaks) \in breaks
    <3>1. pos + Target \in Int
      BY BoundsAssumption
    <3> QED BY <1>2, <2>1, <3>1, MaxOK
  <2>3. Max(breaks) \in pos + 1 .. pos + Target
    BY <2>2 DEF breaks
  <2>4. ChunkEnd(text, pos) = Max(breaks) + 1
    BY <1>2 DEF ChunkEnd, breaks
  <2> QED BY <1>2, <2>3, <2>4, BoundsAssumption
<1> QED BY <1>1, <1>2

\* The line ends of a text, and where it begins and ends.
Ends(text) == {0, Len(text) + 1} \cup {k \in 1 .. Len(text) : text[k] = Newline}

\* A line that, with its line end, is no longer than a chunk is meant to be.
ShortLine(text, a, b) ==
  /\ a \in Ends(text) /\ b \in Ends(text) /\ b - a <= Target
  /\ \A k \in Ends(text) : k <= a \/ b <= k

\* A border that no short line has inside.
Aligned(text, border) ==
  border = Len(text) \/ \A a, b \in Ends(text) : ShortLine(text, a, b) => ~(a < border /\ border < b)

\* The place lies in a short line.
LEMMA ShortLineOf ==
  ASSUME NEW text, NEW place, InShortLine(text, place)
  PROVE  \E a, b \in Ends(text) : ShortLine(text, a, b) /\ a <= place[1] /\ place[2] < b
BY DEF InShortLine, ShortLine, Ends

\* From a border that no short line has inside the text is cut at such a one.
LEMMA AlignedStep ==
  ASSUME NEW text \in Seq(Int), NEW pos \in Nat, pos < Len(text), Aligned(text, pos)
  PROVE  Aligned(text, ChunkEnd(text, pos))
<1> DEFINE breaks == {k \in pos + 1 .. pos + Target : text[k + 1] = Newline}
           end == ChunkEnd(text, pos)
<1> SUFFICES ASSUME end # Len(text),
                    NEW a \in Ends(text), NEW b \in Ends(text), ShortLine(text, a, b), a < end, end < b
             PROVE  FALSE
  BY DEF Aligned
<1>1. end \in pos + 1 .. Len(text)
  BY ChunkEndOK
<1>2. a \in 0 .. Len(text) + 1 /\ b \in 0 .. Len(text) + 1
  BY DEF Ends
<1>3. ~(pos + Target >= Len(text))
  BY DEF ChunkEnd
<1>4. CASE breaks # {}
  <2>1. breaks \subseteq Int /\ \A k \in breaks : k <= pos + Target
    BY BoundsAssumption
  <2> HIDE DEF breaks
  <2>2. Max(breaks) \in breaks
    <3>1. pos + Target \in Int
      BY BoundsAssumption
    <3> QED BY <1>4, <2>1, <3>1, MaxOK
  <2>3. end = Max(breaks) + 1
    BY <1>3, <1>4 DEF ChunkEnd, breaks
  <2>4. text[end] = Newline
    BY <2>2, <2>3 DEF breaks
  <2>5. end \in Ends(text)
    BY <1>1, <2>4 DEF Ends
  <2> QED BY <1>1, <1>2, <2>5 DEF ShortLine
<1>5. CASE breaks = {}
  <2>1. end = pos + Target
    BY <1>3, <1>5 DEF ChunkEnd
  <2>2. pos <= a
    BY <1>1, <1>2 DEF Aligned
  <2>3. b <= a + Target
    BY <1>2, BoundsAssumption DEF ShortLine
  <2>4. \A k \in Ends(text) : k \in 1 .. Len(text) => ~(k - 1 \in pos + 1 .. pos + Target)
    BY <1>5 DEF Ends
  <2>5. ~(a - 1 \in pos + 1 .. pos + Target) /\ ~(b <= Len(text) /\ b - 1 \in pos + 1 .. pos + Target)
    BY <1>1, <1>2, <2>1, <2>4
  <2> HIDE DEF end
  <2> QED BY <1>1, <1>2, <1>3, <2>1, <2>2, <2>3, <2>5, BoundsAssumption
<1> QED BY <1>4, <1>5

\* A place in a short line that a chunk between such borders touches lies in it.
LEMMA WholeInChunk ==
  ASSUME NEW text \in Seq(Int), NEW pos \in Nat, NEW end \in Nat, pos < end, end <= Len(text),
         Aligned(text, pos), Aligned(text, end),
         NEW p \in Nat \X Nat, p[1] < p[2], InShortLine(text, p), p[1] < end, pos < p[2]
  PROVE  pos <= p[1] /\ p[2] <= end
<1>1. PICK a \in Ends(text), b \in Ends(text) : ShortLine(text, a, b) /\ a <= p[1] /\ p[2] < b
  BY ShortLineOf
<1>2. a \in 0 .. Len(text) + 1 /\ b \in 0 .. Len(text) + 1
  BY DEF Ends
<1>3. ~(a < pos /\ pos < b)
  BY <1>1 DEF Aligned
<1>4. end = Len(text) \/ ~(a < end /\ end < b)
  BY <1>1 DEF Aligned
<1> QED BY <1>1, <1>2, <1>3, <1>4

\* A chunk with a word that matches the prefilter matches it.
LEMMA PrefilteredChunk ==
  ASSUME NEW chunk \in Seq(Int), NEW w \in Seq(Int) \ {<<>>}, NEW p \in Places(chunk, w), Prefiltered(w)
  PROVE  Prefiltered(chunk)
<1>1. PICK h \in Hint : \E q \in Reports(w, Hint) : q \in Places(w, h)
  BY DEF Prefiltered, Reports
<1> PICK q \in Places(w, h) : TRUE
  BY <1>1
<1>2. h \in Seq(Int) \ {<<>>}
  BY TextAssumption
<1>3. p[1] \in Nat /\ p[2] \in Nat /\ p[1] < p[2] /\ p[2] <= Len(chunk) /\ SubSeq(chunk, p[1] + 1, p[2]) = w
  BY PlacesOK
<1>4. <<q[1] + p[1], q[2] + p[1]>> \in Places(chunk, h)
  BY <1>1, <1>2, <1>3, PlacesOfChunk
<1> QED BY <1>4 DEF Prefiltered, Reports

-----------------------------------------------------------------------------
(* What the recognizers find.                                              *)

\* What is reported of a text are spans of it.
LEMMA ReportsOK ==
  ASSUME NEW text \in Seq(Int), NEW words \in SUBSET Word, NEW p \in Reports(text, words)
  PROVE  p \in Nat \X Nat /\ p[1] < p[2] /\ p[2] <= Len(text)
<1>1. PICK w \in words : p \in Places(text, w)
  BY DEF Reports
<1>2. w \in Seq(Int) \ {<<>>}
  BY WordAssumption
<1> QED BY <1>1, <1>2, PlacesOK

\* Whatever layers are asked, and whichever package GLiNER runs on, what they
\* find is sought.
LEMMA FoundSought ==
  ASSUME NEW policy \in Policy, NEW backend, NEW layers \in SUBSET Layer
  PROVE  /\ AllFind(layers, policy, backend) \subseteq Sought(policy, backend)
         /\ AllFind(layers, policy, backend) \subseteq Word
<1> SUFFICES ASSUME NEW layer \in layers, NEW w \in Finds(layer, policy, backend)
             PROVE  w \in Word /\ w \in Sought(policy, backend)
  BY DEF AllFind
<1>1. CASE layer = "gitleaks"
  BY <1>1 DEF Finds, GitleaksFinds, Sought
<1>2. CASE layer = "entropy"
  BY <1>2 DEF Finds, EntropyFinds, Sought
<1>3. CASE layer = "presidio"
  BY <1>3 DEF Finds, PresidioFinds, Sought
<1>4. CASE layer = "custom"
  BY <1>4 DEF Finds, CustomFinds, Sought
<1>5. CASE layer = "gliner"
  <2>1. /\ w \in Word /\ By[w] = "gliner" /\ backend \in {"gliner2", "gliner"}
        /\ Label[w] \in Labels(policy, backend)
        /\ Sureness(w, policy, backend) >= Threshold(policy, backend)
    BY <1>5 DEF Finds, GlinerFinds
  <2>2. ASSUME FallsBack(policy, backend) PROVE Label[w] \notin V2Only /\ ScoreV1[w] >= 85
    <3>1. Configured(policy) \in Nat
      BY PolicyAssumption DEF Configured
    <3>2. Threshold(policy, backend) \in Nat /\ Threshold(policy, backend) >= 85
      BY <2>2, <3>1 DEF Threshold
    <3>3. ScoreV1[w] \in Nat /\ ScoreV1[w] >= Threshold(policy, backend)
      BY <2>1, <2>2, ScoreAssumption DEF Sureness
    <3>4. ScoreV1[w] >= 85
      BY <3>2, <3>3
    <3> QED BY <2>1, <2>2, <3>4 DEF Labels
  <2> QED BY <2>1, <2>2 DEF Sought, FallsBack
<1> QED BY <1>1, <1>2, <1>3, <1>4, <1>5 DEF Layer

\* Until GLiNER is loaded nothing is sought that is not sought afterwards.
LEMMA SoughtGrows ==
  ASSUME NEW policy, NEW backend
  PROVE  Sought(policy, "unknown") \subseteq Sought(policy, backend)
BY DEF Sought

\* What the engine keeps of the findings in a text is sought.
LEMMA KeptSought ==
  ASSUME NEW policy \in Policy, NEW backend, NEW layers \in SUBSET Layer, NEW text,
         NEW words, words \subseteq AllFind(layers, policy, backend)
  PROVE  Kept(text, Reports(text, words), policy) \subseteq Reports(text, Sought(policy, backend))
BY FoundSought DEF Kept, Reports

-----------------------------------------------------------------------------
(* The invariant.                                                          *)

\* A model that is off could not be loaded or reached; the language model is
\* asked for under the policies that enable it.
EnginesOK ==
  \A policy \in Policy :
    /\ engines[policy].gliner = "off" => <<policy, "gliner">> \in lacking
    /\ engines[policy].llm = "off" => <<policy, "llm">> \in lacking
    /\ engines[policy].llm = "none" => ~policy.llm

\* The fast recognizers find nothing in a chunk.
Clean(policy, chunk) ==
  Kept(chunk, Reports(chunk, FastFind(Layer, policy, engines[policy].gliner)), policy) = {}

\* A chunk is recorded after GLiNER was loaded, and clean if none failed.
CacheOK ==
  \A e \in cache :
    /\ engines[e[1]].gliner # "unknown"
    /\ e \notin tainted => Clean(e[1], e[2])

\* Where a call is, by its state.
CallOK ==
  /\ call.st = "idle" => call = Idle
  /\ call.st # "idle" => call.text \in Text /\ call.policy \in Policy
  /\ call.st = "asking" => Len(call.text) <= ShortMax
  /\ call.st = "searching" =>
       Len(call.text) > ShortMax /\ call.pos < Len(call.text) /\ Aligned(call.text, call.pos)
  /\ call.st = "done" /\ Len(call.text) > ShortMax => call.pos = Len(call.text)

\* The package of the call's GLiNER.
Backend == engines[call.policy].gliner

\* A short text was given to all layers, unless one failed.
ShortFound ==
  call.st \in {"asking", "done"} /\ Len(call.text) <= ShortMax /\ ~call.failed =>
    Kept(call.text, Reports(call.text, AllFind(Layer, call.policy, Backend)), call.policy) \subseteq call.spans

\* A place up to which the search has come and the prefilter does not skip:
\* GLiNER is loaded by then, and the place reported if it is to be kept.
Searched(w, p) ==
  /\ Backend # "unknown"
  /\ /\ ~call.failed /\ ~call.stale
     /\ w \in FastFind(Layer, call.policy, Backend)
     /\ p \in Kept(call.text, Places(call.text, w), call.policy)
     => p \in call.spans

LongFound ==
  call.st \in {"searching", "done"} /\ Len(call.text) > ShortMax =>
    \A w \in Word : \A p \in Places(call.text, w) :
      Prefiltered(w) /\ InShortLine(call.text, p) /\ p[2] <= call.pos => Searched(w, p)

(***************************************************************************)
(* The inductive invariant.  NothingMissed rests on the borders of chunks  *)
(* keeping out of short lines, on GLiNER staying what it was when a chunk  *)
(* was searched or recorded, and on recorded chunks being clean.           *)
(***************************************************************************)
IndInv ==
  /\ TypeOK
  /\ EnginesOK
  /\ CacheOK
  /\ CallOK
  /\ SpansReal
  /\ PlaceholdersLeft
  /\ ShortFound
  /\ LongFound
  /\ LayersTried

EngineType == [gliner : {"unknown", "gliner2", "gliner", "off"}, llm : {"none", "unknown", "on", "off"}]

\* The states without a request in which nothing is known of the models.
Fresh ==
  /\ engines = [policy \in Policy |-> NewEngine(policy)]
  /\ cache = {} /\ call = Idle /\ tainted = {} /\ lacking = {}

\* They satisfy the invariant, at the beginning and after a restart.
LEMMA FreshInv == Fresh => IndInv
<1> SUFFICES ASSUME Fresh PROVE IndInv
  OBVIOUS
<1> USE DEF Fresh
<1>1. \A policy \in Policy :
        /\ engines[policy] \in EngineType
        /\ engines[policy].gliner = "unknown" /\ engines[policy].llm \in {"none", "unknown"}
        /\ engines[policy].llm = "none" => ~policy.llm
  BY PolicyAssumption DEF NewEngine, EngineType
<1>2. TypeOK
  <2>1. engines \in [Policy -> EngineType]
    BY <1>1
  <2>2. IsFiniteSet(cache) /\ Cardinality(cache) <= CacheMax
    BY FS_EmptySet, BoundsAssumption
  <2>3. call \in CallType /\ call.pos <= Len(call.text)
    BY DEF CallType, Idle
  <2> QED BY <2>1, <2>2, <2>3 DEF TypeOK, EngineType
<1>3. EnginesOK /\ CacheOK
  BY <1>1 DEF EnginesOK, CacheOK
<1>4. CallOK /\ SpansReal /\ PlaceholdersLeft /\ ShortFound /\ LongFound
  BY DEF CallOK, SpansReal, PlaceholdersLeft, ShortFound, LongFound, Idle
<1>5. LayersTried
  BY <1>1 DEF LayersTried, Idle
<1> QED BY <1>2, <1>3, <1>4, <1>5 DEF IndInv

\* The initial states.
LEMMA InitInv == Init => IndInv
BY FreshInv DEF Init, Fresh

-----------------------------------------------------------------------------
(* Steps of the models.                                                    *)

\* Models change but for what GLiNER is once it is known.
GlinerStays ==
  \A policy \in Policy :
    engines[policy].gliner # "unknown" => engines'[policy].gliner = engines[policy].gliner

\* GLiNER is loaded, if it was not known, and its failure noted.
LEMMA LoadOK ==
  ASSUME TypeOK, EnginesOK, NEW policy \in Policy,
         NEW gliner \in Loads(policy) \cup {engines[policy].gliner}, Load(policy, gliner)
  PROVE  /\ engines' \in [Policy -> EngineType]
         /\ engines'[policy].gliner = gliner /\ engines'[policy].llm = engines[policy].llm
         /\ GlinerStays
         /\ EnginesOK'
         /\ lacking' \subseteq Policy \X {"gliner", "llm"}
         /\ engines[policy].gliner # "unknown" => gliner = engines[policy].gliner
<1>1. engines \in [Policy -> EngineType]
  BY DEF TypeOK, EngineType
<1>2. gliner \in {"unknown", "gliner2", "gliner", "off"} /\ (engines[policy].gliner # "unknown" => gliner = engines[policy].gliner)
  BY <1>1 DEF Loads, EngineType
<1>3. engines' = [engines EXCEPT ![policy] = [@ EXCEPT !.gliner = gliner]]
  BY DEF Load
<1>4. /\ engines' \in [Policy -> EngineType]
      /\ engines'[policy].gliner = gliner /\ engines'[policy].llm = engines[policy].llm
      /\ \A q \in Policy : q # policy => engines'[q] = engines[q]
  BY <1>1, <1>2, <1>3 DEF EngineType
<1>5. lacking' \subseteq Policy \X {"gliner", "llm"} /\ lacking \subseteq lacking' /\ (gliner = "off" => <<policy, "gliner">> \in lacking')
  BY DEF Load, TypeOK
<1>6. EnginesOK'
  BY <1>4, <1>5 DEF EnginesOK
<1> QED BY <1>2, <1>4, <1>5, <1>6 DEF GlinerStays

\* What was recorded stays true of models that stay.
LEMMA CacheStays ==
  ASSUME TypeOK, CacheOK, GlinerStays
  PROVE  \A e \in cache :
           /\ engines'[e[1]].gliner # "unknown"
           /\ e \notin tainted => Clean(e[1], e[2])'
BY DEF TypeOK, CacheOK, GlinerStays, Clean

\* A short text's findings are kept but for what the engine drops.
LEMMA DetectShortInv ==
  ASSUME IndInv, NEW text \in Text, NEW policy \in Policy, DetectShort(text, policy)
  PROVE  IndInv'
<1> DEFINE Raised(failing) == ~(failing \subseteq {"gliner"})
           Findings(failing, gliner) ==
             IF Raised(failing) THEN {}
             ELSE Kept(text, Reports(text, AllFind(Layer \ failing, policy, gliner)), policy)
<1>1. PICK failing \in SUBSET Layer, gliner \in Loads(policy) \cup {engines[policy].gliner} :
        /\ Load(policy, gliner)
        /\ call' = [Idle EXCEPT !.st = AfterLayers(policy), !.text = text, !.policy = policy,
                               !.failed = failing # {}, !.spans = Findings(failing, gliner)]
  BY DEF DetectShort
<1> DEFINE spans == Findings(failing, gliner)
<1>2. /\ Len(text) <= ShortMax /\ ~(Len(text) > ShortMax)
      /\ text \in Seq(Int) /\ UNCHANGED <<cache, tainted>>
  BY TextAssumption, BoundsAssumption DEF DetectShort
<1>3. /\ engines' \in [Policy -> EngineType] /\ engines'[policy].gliner = gliner
      /\ engines'[policy].llm = engines[policy].llm
      /\ GlinerStays /\ EnginesOK' /\ lacking' \subseteq Policy \X {"gliner", "llm"}
  BY <1>1, LoadOK DEF IndInv
<1>4. /\ spans \subseteq Reports(text, Sought(policy, gliner))
      /\ \A p \in spans : ~Touches(text, p)
      /\ failing = {} => Kept(text, Reports(text, AllFind(Layer, policy, gliner)), policy) \subseteq spans
  <2>1. Kept(text, Reports(text, AllFind(Layer \ failing, policy, gliner)), policy)
          \subseteq Reports(text, Sought(policy, gliner))
    BY KeptSought
  <2>2. Layer \ {} = Layer
    OBVIOUS
  <2> QED BY <2>1, <2>2 DEF Kept
<1>5. spans \in SUBSET (Nat \X Nat)
  <2>1. Sought(policy, gliner) \in SUBSET Word
    BY DEF Sought
  <2> QED BY <1>2, <1>4, <2>1, ReportsOK
<1>6. AfterLayers(policy) \in {"done", "asking"}
  BY DEF AfterLayers
<1> HIDE DEF spans
<1>7. /\ call'.st = AfterLayers(policy) /\ call'.text = text /\ call'.policy = policy /\ call'.pos = 0
      /\ call'.spans = spans /\ call'.llm = {} /\ call'.asked = FALSE
      /\ call'.failed = (failing # {}) /\ call'.stale = FALSE
      /\ call' \in CallType
  BY <1>1, <1>5, <1>6 DEF Idle, CallType, spans
<1>8. TypeOK'
  BY <1>2, <1>3, <1>7 DEF IndInv, TypeOK, EngineType
<1>9. CacheOK'
  BY <1>2, <1>3, CacheStays DEF IndInv, CacheOK
<1>10. CallOK'
  BY <1>2, <1>6, <1>7 DEF CallOK
<1>11. SpansReal'
  BY <1>3, <1>4, <1>7 DEF SpansReal
<1>12. PlaceholdersLeft'
  BY <1>4, <1>7 DEF PlaceholdersLeft, Touches
<1>13. ShortFound' /\ LongFound'
  BY <1>2, <1>3, <1>4, <1>7 DEF ShortFound, LongFound, Backend
<1>14. LayersTried'
  <2>1. ASSUME AfterLayers(policy) = "done", policy.llm PROVE <<policy, "llm">> \in lacking'
    <3>1. engines'[policy].llm \in {"none", "off"}
      BY <1>3, <2>1 DEF AfterLayers
    <3> QED BY <1>3, <2>1, <3>1 DEF EnginesOK
  <2> QED BY <1>3, <1>7, <2>1 DEF LayersTried, EnginesOK
<1> QED BY <1>3, <1>8, <1>9, <1>10, <1>11, <1>12, <1>13, <1>14 DEF IndInv

\* The language model's part of a call leaves the layers' findings alone.
LEMMA AskingStep ==
  ASSUME IndInv, call.st = "asking",
         engines' \in [Policy -> EngineType],
         \A policy \in Policy : engines'[policy].gliner = engines[policy].gliner,
         EnginesOK', lacking' \subseteq Policy \X {"gliner", "llm"},
         UNCHANGED <<cache, tainted>>,
         call' \in CallType, call'.st \in {"asking", "done", "error"},
         call'.text = call.text, call'.policy = call.policy, call'.pos = call.pos,
         call'.spans = call.spans, call'.failed = call.failed, call'.stale = call.stale,
         \A s \in call'.llm : 0 <= s[1] /\ s[1] < s[2] /\ s[2] <= Len(call.text),
         call'.st = "done" => call'.asked \/ <<call.policy, "llm">> \in lacking'
  PROVE  IndInv'
<1>1. call.policy \in Policy /\ call.text \in Text /\ Len(call.text) <= ShortMax
  BY DEF IndInv, CallOK
<1>2. TypeOK'
  BY DEF IndInv, TypeOK, EngineType
<1>3. CacheOK'
  <2>1. GlinerStays
    BY DEF GlinerStays
  <2> QED BY <2>1, CacheStays DEF IndInv, CacheOK
<1>4. CallOK'
  <2>1. call'.st # "idle" /\ call'.st # "searching" /\ ~(Len(call.text) > ShortMax)
    <3>1. Len(call.text) \in Nat
      BY <1>1, TextAssumption
    <3> QED BY <1>1, <3>1, BoundsAssumption
  <2> QED BY <1>1, <2>1 DEF CallOK
<1>5. SpansReal'
  BY <1>1 DEF IndInv, SpansReal
<1>6. PlaceholdersLeft'
  BY DEF IndInv, PlaceholdersLeft
<1>7. ShortFound'
  BY <1>1 DEF IndInv, ShortFound, Backend
<1>8. LongFound'
  <2>1. Len(call.text) \in Nat
    BY <1>1, TextAssumption
  <2> QED BY <1>1, <2>1, BoundsAssumption DEF LongFound
<1>9. LayersTried'
  BY <1>1 DEF LayersTried, EnginesOK
<1> QED BY <1>2, <1>3, <1>4, <1>5, <1>6, <1>7, <1>8, <1>9 DEF IndInv

\* The state of the language model under one policy changes.
LEMMA LlmChange ==
  ASSUME TypeOK, EnginesOK, NEW policy \in Policy, engines[policy].llm \in {"unknown", "on"},
         NEW state \in {"unknown", "on", "off"},
         engines' = [engines EXCEPT ![policy].llm = state],
         lacking \subseteq lacking', state = "off" => <<policy, "llm">> \in lacking'
  PROVE  /\ engines' \in [Policy -> EngineType]
         /\ \A q \in Policy : engines'[q].gliner = engines[q].gliner
         /\ EnginesOK'
<1>1. engines \in [Policy -> EngineType]
  BY DEF TypeOK, EngineType
<1>2. engines' = [engines EXCEPT ![policy] = [@ EXCEPT !.llm = state]]
  OBVIOUS
<1>3. /\ engines' \in [Policy -> EngineType]
      /\ engines'[policy].gliner = engines[policy].gliner /\ engines'[policy].llm = state
      /\ \A q \in Policy : q # policy => engines'[q] = engines[q]
  BY <1>1, <1>2 DEF EngineType
<1> QED BY <1>3 DEF EnginesOK

\* The language model is there, or noted as lacking.
LEMMA ProbeLlmInv ==
  ASSUME IndInv, ProbeLlm
  PROVE  IndInv'
<1>1. call.st = "asking" /\ engines[call.policy].llm = "unknown" /\ UNCHANGED <<cache, tainted>>
  BY DEF ProbeLlm
<1>2. call.policy \in Policy /\ call \in CallType /\ lacking \subseteq Policy \X {"gliner", "llm"}
  BY <1>1 DEF IndInv, CallOK, TypeOK
<1>3. \A s \in call.llm : 0 <= s[1] /\ s[1] < s[2] /\ s[2] <= Len(call.text)
  BY <1>1 DEF IndInv, SpansReal
<1>4. CASE engines' = [engines EXCEPT ![call.policy].llm = "on"] /\ UNCHANGED <<call, lacking>>
  <2>1. /\ engines' \in [Policy -> EngineType] /\ EnginesOK'
        /\ \A q \in Policy : engines'[q].gliner = engines[q].gliner
    BY <1>1, <1>2, <1>4, LlmChange DEF IndInv
  <2> QED BY <1>1, <1>2, <1>3, <1>4, <2>1, AskingStep
<1>5. CASE /\ engines' = [engines EXCEPT ![call.policy].llm = "off"]
           /\ lacking' = lacking \cup {<<call.policy, "llm">>}
           /\ call' = [call EXCEPT !.st = "done"]
  <2>1. /\ engines' \in [Policy -> EngineType] /\ EnginesOK'
        /\ \A q \in Policy : engines'[q].gliner = engines[q].gliner
    BY <1>1, <1>2, <1>5, LlmChange DEF IndInv
  <2>2. /\ call' \in CallType /\ call'.st = "done"
        /\ call'.text = call.text /\ call'.policy = call.policy /\ call'.pos = call.pos
        /\ call'.spans = call.spans /\ call'.failed = call.failed /\ call'.stale = call.stale
        /\ call'.llm = call.llm
    BY <1>2, <1>5 DEF CallType
  <2>3. lacking' \subseteq Policy \X {"gliner", "llm"} /\ <<call.policy, "llm">> \in lacking'
    BY <1>2, <1>5
  <2> QED BY <1>1, <1>3, <2>1, <2>2, <2>3, AskingStep
<1> QED BY <1>4, <1>5 DEF ProbeLlm

\* The language model was asked, whatever came of it.
LEMMA AskLlmInv ==
  ASSUME IndInv, AskLlm
  PROVE  IndInv'
<1>1. call.st = "asking" /\ engines[call.policy].llm = "on" /\ UNCHANGED <<cache, tainted, lacking>>
  BY DEF AskLlm
<1>2. /\ call.policy \in Policy /\ call \in CallType /\ lacking \subseteq Policy \X {"gliner", "llm"}
      /\ engines \in [Policy -> EngineType] /\ EnginesOK
  BY <1>1 DEF IndInv, CallOK, TypeOK, EngineType
<1>3. \A s \in call.llm : 0 <= s[1] /\ s[1] < s[2] /\ s[2] <= Len(call.text)
  BY <1>1 DEF IndInv, SpansReal
<1>4. /\ engines' \in [Policy -> EngineType] /\ EnginesOK'
      /\ \A q \in Policy : engines'[q].gliner = engines[q].gliner
  <2>1. CASE UNCHANGED engines
    BY <1>1, <1>2, <2>1 DEF EnginesOK
  <2>2. CASE engines' = LlmLost(call.policy)
    BY <1>1, <1>2, <2>2, LlmChange DEF IndInv, LlmLost
  <2> QED BY <2>1, <2>2 DEF AskLlm
<1>5. PICK st \in {"done", "error"}, llm \in SUBSET (Int \X Int) :
        /\ call' = [call EXCEPT !.st = st, !.asked = TRUE, !.llm = llm]
        /\ \A s \in llm : 0 <= s[1] /\ s[1] < s[2] /\ s[2] <= Len(call.text)
  <2> DEFINE Sent(st, llm) == [call EXCEPT !.st = st, !.asked = TRUE, !.llm = llm]
  <2>1. ASSUME NEW answer \in LlmAnswer, call' = Sent("done", InRange(call.text, answer))
        PROVE  \E llm \in SUBSET (Int \X Int) :
                 call' = Sent("done", llm) /\ \A s \in llm : 0 <= s[1] /\ s[1] < s[2] /\ s[2] <= Len(call.text)
    <3>1. /\ InRange(call.text, answer) \in SUBSET (Int \X Int)
          /\ \A s \in InRange(call.text, answer) : 0 <= s[1] /\ s[1] < s[2] /\ s[2] <= Len(call.text)
      BY LlmAssumption DEF InRange
    <3> HIDE DEF Sent
    <3> QED BY <2>1, <3>1
  <2>2. call.llm \in SUBSET (Int \X Int)
    BY <1>2 DEF CallType
  <2>3. [call EXCEPT !.st = "done", !.asked = TRUE] = Sent("done", call.llm)
    BY <1>2 DEF CallType
  <2>4. [[call EXCEPT !.st = "done", !.asked = TRUE] EXCEPT !.st = "error"] = Sent("error", call.llm)
    BY <1>2 DEF CallType
  <2>5. \A llm : [[call EXCEPT !.st = "done", !.asked = TRUE] EXCEPT !.llm = llm] = Sent("done", llm)
    BY <1>2 DEF CallType
  <2> HIDE DEF Sent
  <2>6. \/ \E answer \in LlmAnswer : call' = Sent("done", InRange(call.text, answer))
        \/ call' = Sent("done", call.llm)
        \/ call' = Sent("error", call.llm)
    <3> DEFINE asked == [call EXCEPT !.st = "done", !.asked = TRUE]
    <3>1. \/ \E answer \in LlmAnswer : call' = [asked EXCEPT !.llm = InRange(call.text, answer)]
          \/ call' = asked
          \/ call' = [asked EXCEPT !.st = "error"]
      BY Zenon DEF AskLlm
    <3> HIDE DEF asked
    <3> QED BY <2>3, <2>4, <2>5, <3>1, Zenon DEF asked
  <2>7. \E st \in {"done", "error"}, llm \in SUBSET (Int \X Int) :
          call' = Sent(st, llm) /\ \A s \in llm : 0 <= s[1] /\ s[1] < s[2] /\ s[2] <= Len(call.text)
    BY <1>3, <2>1, <2>2, <2>6
  <2> QED BY <2>7 DEF Sent
<1>6. /\ call' \in CallType /\ call'.st = st /\ call'.asked = TRUE /\ call'.llm = llm
      /\ call'.text = call.text /\ call'.policy = call.policy /\ call'.pos = call.pos
      /\ call'.spans = call.spans /\ call'.failed = call.failed /\ call'.stale = call.stale
  BY <1>2, <1>5 DEF CallType
<1> QED BY <1>1, <1>2, <1>4, <1>5, <1>6, AskingStep

-----------------------------------------------------------------------------
(* Steps of a search.                                                      *)

\* The search begins with the blocks found in the whole text.
LEMMA DetectLongInv ==
  ASSUME IndInv, NEW text \in Text, NEW policy \in Policy, DetectLong(text, policy)
  PROVE  IndInv'
<1>1. /\ call.st = "idle" /\ Len(text) > ShortMax /\ text \in Seq(Int) /\ ~(Len(text) <= ShortMax)
      /\ UNCHANGED <<engines, cache, tainted, lacking>>
  BY TextAssumption, BoundsAssumption DEF DetectLong
<1>2. Reports(text, Block) \in SUBSET (Nat \X Nat)
  BY <1>1, WordAssumption, ReportsOK
<1>3. /\ call'.st = "searching" /\ call'.text = text /\ call'.policy = policy /\ call'.pos = 0
      /\ call'.spans = Reports(text, Block) /\ call'.llm = {}
      /\ call' \in CallType
  BY <1>2 DEF DetectLong, Idle, CallType
<1>4. TypeOK' /\ EnginesOK' /\ CacheOK'
  <2>1. TypeOK'
    <3>1. call'.pos <= Len(call'.text)
      BY <1>1, <1>3
    <3> QED BY <1>1, <1>3, <3>1 DEF IndInv, TypeOK
  <2>2. EnginesOK'
    BY <1>1 DEF IndInv, EnginesOK
  <2>3. CacheOK'
    BY <1>1 DEF IndInv, CacheOK, Clean
  <2> QED BY <2>1, <2>2, <2>3
<1>5. CallOK'
  <2>1. Aligned(text, 0)
    BY <1>1 DEF Aligned, Ends
  <2>2. 0 < Len(text)
    BY <1>1, BoundsAssumption
  <2> QED BY <1>1, <1>3, <2>1, <2>2 DEF CallOK
<1>6. SpansReal'
  <2>1. Block \subseteq Sought(policy, engines'[policy].gliner)
    BY WordAssumption DEF Sought
  <2> QED BY <1>3, <2>1 DEF SpansReal, Reports
<1>7. PlaceholdersLeft'
  BY <1>1, <1>3 DEF PlaceholdersLeft
<1>8. ShortFound' /\ LayersTried'
  BY <1>1, <1>3 DEF ShortFound, LayersTried, IndInv
<1>9. LongFound'
  <2> SUFFICES ASSUME NEW w \in Word, NEW p \in Places(text, w), p[2] <= 0 PROVE FALSE
    BY <1>3 DEF LongFound
  <2>1. w \in Seq(Int) \ {<<>>}
    BY WordAssumption
  <2>2. p[1] \in Nat /\ p[2] \in Nat /\ p[1] < p[2]
    BY <1>1, <2>1, PlacesOK
  <2> QED BY <2>2
<1> QED BY <1>4, <1>5, <1>6, <1>7, <1>8, <1>9 DEF IndInv

\* A span of a chunk, moved to its place in the text, and another there.
LEMMA Shifted ==
  ASSUME NEW pos \in Nat, NEW end \in Nat, NEW q \in Nat \X Nat,
         NEW a \in Nat, NEW b \in Nat, a < b, b <= end - pos,
         q[1] < b + pos, a + pos < q[2]
  PROVE  q[1] < end /\ pos < q[2] /\ a < q[2] - pos /\ q[1] - pos < b
OBVIOUS

\* What is kept of a chunk, moved to its place in the text, is sought there
\* and touches no placeholder in a short line.
LEMMA ChunkReal ==
  ASSUME NEW text \in Seq(Int), NEW pos \in Nat, NEW end \in Nat, pos < end, end <= Len(text),
         NEW policy \in Policy, NEW backend, NEW layers \in SUBSET Layer,
         Aligned(text, pos), Aligned(text, end),
         NEW f \in Kept(SubSeq(text, pos + 1, end),
                        Reports(SubSeq(text, pos + 1, end), FastFind(layers, policy, backend)), policy)
  PROVE  LET p == <<f[1] + pos, f[2] + pos>>
         IN  /\ p \in Reports(text, Sought(policy, backend))
             /\ \A q \in Reports(text, Lookalike) : InShortLine(text, q) => ~Overlap(p, q)
<1> DEFINE chunk == SubSeq(text, pos + 1, end)
           p == <<f[1] + pos, f[2] + pos>>
<1>1. PICK w \in FastFind(layers, policy, backend) : f \in Places(chunk, w)
  BY DEF Kept, Reports
<1>2. w \in Sought(policy, backend) /\ w \in Seq(Int) \ {<<>>}
  BY FoundSought, WordAssumption DEF FastFind
<1>3. p \in Places(text, w)
  BY <1>1, <1>2, PlacesOfChunk
<1>4. p \in Reports(text, Sought(policy, backend))
  BY <1>2, <1>3 DEF Reports
<1>5. chunk \in Seq(Int) /\ Len(chunk) = end - pos
  OBVIOUS
<1>6. f[1] \in Nat /\ f[2] \in Nat /\ f[1] < f[2] /\ f[2] <= end - pos
  <2> HIDE DEF chunk
  <2>1. /\ f \in Nat \X Nat
        /\ f[1] < f[2] /\ f[2] <= Len(chunk) /\ f[2] = f[1] + Len(w)
    BY ONLY <1>1, <1>2, <1>5, PlacesOK
  <2>2. f[1] \in Nat /\ f[2] \in Nat
    BY ONLY <2>1
  <2> QED BY <1>5, <2>1, <2>2
<1>7. ASSUME NEW v \in Lookalike, NEW q \in Places(text, v), InShortLine(text, q), Overlap(p, q)
      PROVE  FALSE
  <2>1. v \in Seq(Int) \ {<<>>}
    BY WordAssumption
  <2>2. q \in Nat \X Nat /\ q[1] < q[2]
    BY <2>1, PlacesOK
  <2>3. q[1] < f[2] + pos /\ f[1] + pos < q[2]
    BY <1>7 DEF Overlap
  <2>4. q[1] < end /\ pos < q[2] /\ f[1] < q[2] - pos /\ q[1] - pos < f[2]
    BY <1>6, <2>2, <2>3, Shifted
  <2>5. pos <= q[1] /\ q[2] <= end
    BY <1>7, <2>2, <2>4, WholeInChunk
  <2>6. <<q[1] - pos, q[2] - pos>> \in Places(chunk, v)
    BY <2>1, <2>5, PlacesOfChunk
  <2>7. Overlap(f, <<q[1] - pos, q[2] - pos>>)
    BY <2>4 DEF Overlap
  <2> QED BY <2>6, <2>7 DEF Kept, Touches, Reports
<1>8. \A q \in Reports(text, Lookalike) : InShortLine(text, q) => ~Overlap(p, q)
  BY <1>7 DEF Reports
<1> QED BY <1>4, <1>8

\* The search goes on behind a chunk, with what was kept of the chunk if it
\* was searched and with nothing if it was passed over.
LEMMA SearchStep ==
  ASSUME IndInv, call.st = "searching", NEW end, end = ChunkEnd(call.text, call.pos),
         NEW layers \in SUBSET Layer,
         GlinerStays, TypeOK', EnginesOK', CacheOK',
         call'.st = IF end = Len(call.text) THEN "done" ELSE "searching",
         call'.text = call.text, call'.policy = call.policy, call'.pos = end, call'.llm = call.llm,
         NEW hits, call'.spans = call.spans \cup Placed(hits, call.pos),
         hits \subseteq Kept(Chunk, Reports(Chunk, FastFind(layers, call.policy, Backend')), call.policy),
         ~call'.failed => ~call.failed, ~call'.stale => ~call.stale,
         Prefiltered(Chunk) =>
           /\ Backend' # "unknown"
           /\ ~call'.failed /\ ~call'.stale =>
                Kept(Chunk, Reports(Chunk, FastFind(Layer, call.policy, Backend')), call.policy) \subseteq hits
  PROVE  IndInv'
<1> DEFINE text == call.text
           pos == call.pos
           policy == call.policy
<1>1. /\ text \in Text /\ text \in Seq(Int) /\ policy \in Policy /\ pos \in Nat
      /\ Len(text) > ShortMax /\ ~(Len(text) <= ShortMax) /\ pos < Len(text) /\ Aligned(text, pos)
  BY TextAssumption, BoundsAssumption DEF IndInv, CallOK, TypeOK, CallType
<1>2. end \in Nat /\ pos < end /\ end <= Len(text) /\ Aligned(text, end)
  BY <1>1, ChunkEndOK, AlignedStep
<1>3. Chunk = SubSeq(text, pos + 1, end)
  BY DEF Chunk
<1>4. \A f \in hits :
        /\ <<f[1] + pos, f[2] + pos>> \in Reports(text, Sought(policy, Backend'))
        /\ \A q \in Reports(text, Lookalike) : InShortLine(text, q) => ~Overlap(<<f[1] + pos, f[2] + pos>>, q)
  BY <1>1, <1>2, <1>3, ChunkReal
<1>5. Backend # "unknown" => Backend' = Backend
  BY <1>1 DEF GlinerStays, Backend
<1>6. CallOK'
  BY <1>1, <1>2 DEF CallOK
<1>7. SpansReal'
  <2>1. Reports(text, Sought(policy, Backend)) \subseteq Reports(text, Sought(policy, Backend'))
    BY <1>5, SoughtGrows DEF Reports
  <2>2. call.spans \subseteq Reports(text, Sought(policy, Backend))
    BY DEF IndInv, SpansReal, Backend
  <2>3. call'.spans \subseteq Reports(text, Sought(policy, Backend'))
    BY <1>4, <2>1, <2>2 DEF Placed
  <2> QED BY <2>3 DEF IndInv, SpansReal, Backend
<1>8. PlaceholdersLeft'
  <2> SUFFICES ASSUME NEW q \in Reports(text, Lookalike), Uncut(text, q),
                      NEW p \in call'.spans, Overlap(p, q)
               PROVE  Len(text) > ShortMax /\ p \in Reports(text, Block)
    BY DEF PlaceholdersLeft
  <2>1. InShortLine(text, q)
    BY <1>1 DEF Uncut
  <2>2. p \in call.spans
    BY <1>4, <2>1 DEF Placed
  <2> QED BY <2>2 DEF IndInv, PlaceholdersLeft
<1>9. ShortFound'
  BY <1>1 DEF ShortFound
<1>10. LongFound'
  <2> SUFFICES ASSUME NEW w \in Word, NEW p \in Places(text, w),
                      Prefiltered(w), InShortLine(text, p), p[2] <= end
               PROVE  Searched(w, p)'
    BY DEF LongFound
  <2>1. w \in Seq(Int) \ {<<>>}
    BY WordAssumption
  <2>2. p \in Nat \X Nat /\ p[1] < p[2]
    BY <1>1, <2>1, PlacesOK
  <2>3. CASE p[2] <= pos
    <3>1. Searched(w, p)
      BY <1>1, <2>3 DEF IndInv, LongFound
    <3> QED BY <1>5, <3>1 DEF Searched
  <2>4. CASE ~(p[2] <= pos)
    <3> DEFINE r == <<p[1] - pos, p[2] - pos>>
    <3>1. p[1] \in Nat /\ p[2] \in Nat /\ p[1] < end /\ pos < p[2]
      BY <1>1, <1>2, <2>2, <2>4
    <3>2. pos <= p[1] /\ p[2] <= end
      <4>1. text \in Seq(Int) /\ pos \in Nat /\ end \in Nat /\ pos < end /\ end <= Len(text)
            /\ Aligned(text, pos) /\ Aligned(text, end) /\ InShortLine(text, p)
        BY <1>1, <1>2
      <4> QED BY ONLY <2>2, <3>1, <4>1, WholeInChunk
    <3>3. r \in Places(Chunk, w)
      BY <1>1, <1>2, <1>3, <2>1, <3>2, PlacesOfChunk
    <3>4. Chunk \in Seq(Int)
      <4>1. text \in Seq(Int) /\ pos \in Nat /\ end \in Nat /\ end <= Len(text)
        BY <1>1, <1>2
      <4>2. \A i \in pos + 1 .. end : text[i] \in Int
        BY ONLY <4>1
      <4>3. SubSeq(text, pos + 1, end) \in Seq(Int)
        BY ONLY <4>1, <4>2, SubSeqProperties
      <4> QED BY ONLY <1>3, <4>3
    <3>5. Prefiltered(Chunk)
      BY <2>1, <3>3, <3>4, PrefilteredChunk
    <3>6. ASSUME ~call'.failed, ~call'.stale, w \in FastFind(Layer, policy, Backend'),
                 p \in Kept(text, Places(text, w), policy)
          PROVE  p \in call'.spans
      <4> DEFINE words == FastFind(Layer, policy, Backend')
      <4>1. words \in SUBSET Word
        BY <1>1, FoundSought DEF FastFind
      <4>2. p \in Kept(text, Reports(text, words), policy)
        BY <3>6 DEF Kept, Reports
      <4>3. r \in Kept(Chunk, Reports(Chunk, words), policy)
        BY <1>1, <1>2, <1>3, <3>2, <4>1, <4>2, KeptOfChunk
      <4>4. r \in hits
        BY <3>5, <3>6, <4>3
      <4>5. p = <<r[1] + pos, r[2] + pos>>
        BY <1>1, <2>2, <3>1
      <4> QED BY <4>4, <4>5 DEF Placed
    <3> QED BY <3>5, <3>6 DEF Searched
  <2> QED BY <2>3, <2>4
<1>11. LayersTried'
  BY <1>1 DEF LayersTried, EnginesOK
<1> QED BY <1>6, <1>7, <1>8, <1>9, <1>10, <1>11 DEF IndInv

\* Where a search is, and where it goes on.
LEMMA Searching ==
  ASSUME IndInv, call.st = "searching"
  PROVE  LET end == ChunkEnd(call.text, call.pos)
         IN  /\ call \in CallType /\ call.policy \in Policy
             /\ call.text \in Seq(Int) /\ call.pos \in Nat
             /\ end \in Nat /\ call.pos < end /\ end <= Len(call.text)
             /\ Chunk = SubSeq(call.text, call.pos + 1, end)
<1>1. /\ call \in CallType /\ call.policy \in Policy /\ call.text \in Seq(Int)
      /\ call.pos \in Nat /\ call.pos < Len(call.text)
  BY TextAssumption DEF IndInv, CallOK, TypeOK, CallType
<1>2. ChunkEnd(call.text, call.pos) \in call.pos + 1 .. Len(call.text)
  BY <1>1, ChunkEndOK
<1> QED BY <1>1, <1>2 DEF Chunk

\* A chunk that is passed over is of no interest, or was found clean under
\* the same policy, with the models as they are.
LEMMA SkipChunkInv ==
  ASSUME IndInv, SkipChunk
  PROVE  IndInv'
<1> DEFINE end == ChunkEnd(call.text, call.pos)
           key == Key(call.policy, Chunk)
<1>1. /\ call.st = "searching" /\ (~Prefiltered(Chunk) \/ key \in cache)
      /\ call' = [Behind(end) EXCEPT !.stale = @ \/ (Prefiltered(Chunk) /\ key \in tainted)]
      /\ UNCHANGED <<engines, cache, tainted, lacking>>
  BY DEF SkipChunk
<1>2. /\ call \in CallType /\ call.policy \in Policy /\ call.pos \in Nat
      /\ end \in Nat /\ call.pos < end /\ end <= Len(call.text)
  BY <1>1, Searching
<1> HIDE DEF end
<1>3. /\ call'.st = (IF end = Len(call.text) THEN "done" ELSE "searching") /\ call'.pos = end
      /\ call'.text = call.text /\ call'.policy = call.policy /\ call'.llm = call.llm
      /\ call'.spans = call.spans /\ call'.failed = call.failed
      /\ call'.stale = (call.stale \/ (Prefiltered(Chunk) /\ key \in tainted))
      /\ call' \in CallType
  <2> DEFINE stale == call.stale \/ (Prefiltered(Chunk) /\ key \in tainted)
             st == IF end = Len(call.text) THEN "done" ELSE "searching"
  <2>1. stale \in BOOLEAN /\ st \in {"done", "searching"}
    BY <1>2 DEF CallType
  <2>2. call' = [[call EXCEPT !.st = st, !.pos = end] EXCEPT !.stale = stale]
    BY <1>1, <1>2 DEF Behind, CallType
  <2> HIDE DEF stale, st
  <2>3. /\ call'.st = st /\ call'.pos = end
        /\ call'.text = call.text /\ call'.policy = call.policy /\ call'.llm = call.llm
        /\ call'.spans = call.spans /\ call'.failed = call.failed
        /\ call'.stale = stale
        /\ call' \in CallType
    BY <1>2, <2>1, <2>2 DEF CallType
  <2> QED BY <2>3 DEF stale, st
<1>4. TypeOK' /\ EnginesOK' /\ CacheOK' /\ GlinerStays
  <2>1. TypeOK'
    BY <1>1, <1>2, <1>3 DEF IndInv, TypeOK
  <2>2. EnginesOK' /\ GlinerStays
    BY <1>1 DEF IndInv, EnginesOK, GlinerStays
  <2>3. CacheOK'
    BY <1>1 DEF IndInv, CacheOK, Clean
  <2> QED BY <2>1, <2>2, <2>3
<1>5. ASSUME Prefiltered(Chunk)
      PROVE  /\ Backend' # "unknown"
             /\ ~call'.stale => Kept(Chunk, Reports(Chunk, FastFind(Layer, call.policy, Backend')), call.policy) = {}
  <2>1. Backend' = Backend
    BY <1>1, <1>3 DEF Backend
  <2>2. key \in cache /\ key[1] = call.policy /\ key[2] = Chunk
    BY <1>1, <1>5 DEF Key
  <2>3. Backend # "unknown" /\ (key \notin tainted => Clean(call.policy, Chunk))
    BY <2>2 DEF IndInv, CacheOK, Backend
  <2>4. ~call'.stale => key \notin tainted
    BY <1>3, <1>5
  <2> QED BY <2>1, <2>3, <2>4 DEF Clean, Backend
<1>6. call'.spans = call.spans \cup Placed({}, call.pos)
  BY <1>3 DEF Placed
<1>7. {} \subseteq Kept(Chunk, Reports(Chunk, FastFind({}, call.policy, Backend')), call.policy) /\ {} \in SUBSET Layer
  OBVIOUS
<1>8. ~call'.stale => ~call.stale
  BY <1>2, <1>3 DEF CallType
<1> QED BY <1>1, <1>3, <1>4, <1>5, <1>6, <1>7, <1>8, SearchStep DEF end

\* A chunk is recorded only with GLiNER loaded, and as clean only if nothing
\* failed and nothing was kept.
LEMMA SearchChunkInv ==
  ASSUME IndInv, SearchChunk
  PROVE  IndInv'
<1> DEFINE end == ChunkEnd(call.text, call.pos)
           policy == call.policy
           key == Key(policy, Chunk)
           Found(layers, gliner) == Kept(Chunk, Reports(Chunk, FastFind(layers, policy, gliner)), policy)
           Entry(hits) == IF hits = {} /\ Room THEN {key} ELSE {}
<1>1. call.st = "searching" /\ Prefiltered(Chunk) /\ key \notin cache
  BY DEF SearchChunk
<1>2. PICK gliner \in Loads(policy), failing \in SUBSET Layer :
        /\ Load(policy, gliner)
        /\ call' = [Behind(end) EXCEPT
             !.spans = @ \cup Placed(Found(Layer \ failing, gliner), call.pos),
             !.failed = @ \/ failing # {}]
        /\ cache' = cache \cup Entry(Found(Layer \ failing, gliner))
        /\ tainted' = IF failing # {} THEN tainted \cup Entry(Found(Layer \ failing, gliner)) ELSE tainted
  BY DEF SearchChunk
<1> DEFINE hits == Found(Layer \ failing, gliner)
           entry == Entry(hits)
<1>3. /\ call \in CallType /\ policy \in Policy /\ call.pos \in Nat /\ call.text \in Seq(Int)
      /\ end \in Nat /\ call.pos < end /\ end <= Len(call.text)
      /\ Chunk = SubSeq(call.text, call.pos + 1, end) /\ Chunk \in Seq(Int)
  <2>1. /\ call \in CallType /\ policy \in Policy /\ call.pos \in Nat /\ call.text \in Seq(Int)
        /\ end \in Nat /\ call.pos < end /\ end <= Len(call.text)
        /\ Chunk = SubSeq(call.text, call.pos + 1, end)
    BY <1>1, Searching
  <2> HIDE DEF end
  <2> QED BY <2>1
<1>4. /\ engines' \in [Policy -> EngineType] /\ engines'[policy].gliner = gliner /\ gliner # "unknown"
      /\ GlinerStays /\ EnginesOK' /\ lacking' \subseteq Policy \X {"gliner", "llm"}
  <2>1. gliner # "unknown"
    BY DEF Loads
  <2> QED BY <1>2, <1>3, <2>1, LoadOK DEF IndInv
<1>5. hits \in SUBSET (Nat \X Nat)
  <2>1. FastFind(Layer \ failing, policy, gliner) \in SUBSET Word
    BY <1>3, FoundSought DEF FastFind
  <2>2. \A f \in Reports(Chunk, FastFind(Layer \ failing, policy, gliner)) : f \in Nat \X Nat
    BY <1>3, <2>1, ReportsOK
  <2> QED BY <2>2 DEF Kept
<1>6. Placed(hits, call.pos) \in SUBSET (Nat \X Nat)
  <2> HIDE DEF hits
  <2>1. \A f \in hits : f[1] + call.pos \in Nat /\ f[2] + call.pos \in Nat
    <3>1. call.pos \in Nat
      BY <1>3
    <3>2. \A f \in Nat \X Nat : f[1] + call.pos \in Nat /\ f[2] + call.pos \in Nat
      BY ONLY <3>1
    <3> QED BY ONLY <1>5, <3>2
  <2> QED BY <2>1 DEF Placed
<1>7. /\ entry = {} \/ (entry = {key} /\ hits = {} /\ Room)
      /\ key[1] = policy /\ key[2] = Chunk
  BY DEF Key
<1>8. Backend' = gliner /\ call'.policy = policy
  <2>1. call'.policy = policy
    BY <1>2, <1>3 DEF Behind, CallType
  <2> QED BY <1>4, <2>1 DEF Backend
<1>9. failing = {} => hits = Found(Layer, gliner)
  <2>1. Layer \ {} = Layer
    OBVIOUS
  <2> QED BY <2>1
<1>10. hits \subseteq Kept(Chunk, Reports(Chunk, FastFind(Layer \ failing, policy, Backend')), policy)
  BY <1>8
<1>11. failing = {} => Kept(Chunk, Reports(Chunk, FastFind(Layer, policy, Backend')), policy) \subseteq hits
  BY <1>8, <1>9
<1>12. failing = {} /\ hits = {} =>
         Kept(Chunk, Reports(Chunk, FastFind(Layer, policy, engines'[policy].gliner)), policy) = {}
  BY <1>4, <1>9
<1> HIDE DEF end, hits, key, Found, Entry, entry
<1>13. /\ cache' = cache \cup entry
       /\ tainted' = IF failing # {} THEN tainted \cup entry ELSE tainted
  BY <1>2 DEF hits, entry
<1>14. /\ call'.st = (IF end = Len(call.text) THEN "done" ELSE "searching") /\ call'.pos = end
       /\ call'.text = call.text /\ call'.policy = call.policy /\ call'.llm = call.llm
       /\ call'.spans = call.spans \cup Placed(hits, call.pos)
       /\ call'.failed = (call.failed \/ failing # {}) /\ call'.stale = call.stale
       /\ call' \in CallType
  <2> DEFINE spans == call.spans \cup Placed(hits, call.pos)
             failed == call.failed \/ failing # {}
             st == IF end = Len(call.text) THEN "done" ELSE "searching"
  <2>1. spans \in SUBSET (Nat \X Nat) /\ failed \in BOOLEAN /\ st \in {"done", "searching"}
    BY <1>3, <1>6 DEF CallType
  <2>2. call' = [[call EXCEPT !.st = st, !.pos = end] EXCEPT !.spans = spans, !.failed = failed]
    BY <1>2, <1>3 DEF Behind, CallType, hits
  <2> HIDE DEF spans, failed, st
  <2>3. /\ call'.st = st /\ call'.pos = end
        /\ call'.text = call.text /\ call'.policy = call.policy /\ call'.llm = call.llm
        /\ call'.spans = spans /\ call'.failed = failed /\ call'.stale = call.stale
        /\ call' \in CallType
    BY <1>3, <2>1, <2>2 DEF CallType
  <2> QED BY <2>3 DEF spans, failed, st
<1>15. TypeOK'
  <2>1. IsFiniteSet(cache') /\ Cardinality(cache') <= CacheMax
    <3>1. CASE entry = {}
      BY <1>13, <3>1 DEF IndInv, TypeOK
    <3>2. CASE entry = {key} /\ Room
      <4>1. /\ IsFiniteSet(cache) /\ Cardinality(cache) \in Nat /\ Cardinality(cache) < CacheMax
            /\ cache' = cache \cup {key} /\ key \notin cache
        BY <1>1, <1>13, <3>2, FS_CardinalityType DEF IndInv, TypeOK, Room
      <4>2. IsFiniteSet(cache') /\ Cardinality(cache') = Cardinality(cache) + 1
        BY <4>1, FS_AddElement
      <4> QED BY <4>1, <4>2, BoundsAssumption
    <3> QED BY <1>7, <3>1, <3>2
  <2>2. (\A e \in cache' : e[1] \in Policy) /\ tainted' \subseteq cache'
    BY <1>3, <1>7, <1>13 DEF IndInv, TypeOK
  <2> QED BY <1>3, <1>4, <1>14, <2>1, <2>2 DEF TypeOK, EngineType
<1>16. CacheOK'
  <2>1. ASSUME NEW e \in cache', e \in cache
        PROVE  engines'[e[1]].gliner # "unknown" /\ (e \notin tainted' => Clean(e[1], e[2])')
    BY <1>4, <1>13, <2>1, CacheStays DEF IndInv
  <2>2. ASSUME NEW e \in cache', e \notin cache
        PROVE  engines'[e[1]].gliner # "unknown" /\ (e \notin tainted' => Clean(e[1], e[2])')
    <3>1. e = key /\ hits = {} /\ e \in entry
      BY <1>7, <1>13, <2>2
    <3>2. e[1] = policy /\ e[2] = Chunk
      BY <1>7, <3>1
    <3>3. e \notin tainted' => failing = {}
      BY <1>13, <3>1
    <3> QED BY <1>4, <1>12, <3>1, <3>2, <3>3 DEF Clean
  <2> QED BY <2>1, <2>2 DEF CacheOK
<1>17. (~call'.failed => ~call.failed /\ failing = {}) /\ (~call'.stale => ~call.stale)
  BY <1>3, <1>14 DEF CallType
<1>18. Layer \ failing \in SUBSET Layer
  OBVIOUS
<1> QED BY <1>1, <1>4, <1>8, <1>10, <1>11, <1>14, <1>15, <1>16, <1>17, <1>18, SearchStep DEF end

-----------------------------------------------------------------------------
\* An answer that is sent leaves nothing of the call.
LEMMA ReturnInv ==
  ASSUME IndInv, Return
  PROVE  IndInv'
<1>1. call' = Idle /\ UNCHANGED <<engines, cache, tainted, lacking>>
  BY DEF Return
<1>2. TypeOK'
  <2>1. Idle \in CallType /\ Idle.pos <= Len(Idle.text)
    BY DEF Idle, CallType
  <2> QED BY <1>1, <2>1 DEF IndInv, TypeOK
<1>3. EnginesOK'
  BY <1>1 DEF IndInv, EnginesOK
<1>4. CacheOK'
  BY <1>1 DEF IndInv, CacheOK, Clean
<1>5. CallOK' /\ SpansReal' /\ PlaceholdersLeft' /\ ShortFound' /\ LongFound'
  BY <1>1 DEF CallOK, SpansReal, PlaceholdersLeft, ShortFound, LongFound, Idle
<1>6. LayersTried'
  BY <1>1 DEF IndInv, LayersTried, Idle
<1> QED BY <1>2, <1>3, <1>4, <1>5, <1>6 DEF IndInv

\* A restart leaves what an initial state has.
LEMMA RestartInv == Restart => IndInv'
<1>1. Fresh => IndInv
  BY FreshInv
<1>2. Restart => Fresh'
  BY DEF Restart, Fresh
<1> QED BY <1>1, <1>2, PTL

\* Every step preserves the inductive invariant.
LEMMA NextInv == IndInv /\ [Next]_vars => IndInv'
<1> SUFFICES ASSUME IndInv, [Next]_vars PROVE IndInv'
  OBVIOUS
<1>1. CASE UNCHANGED vars
  <2>1. TypeOK' /\ EnginesOK' /\ CallOK' /\ LayersTried'
    BY <1>1 DEF vars, IndInv, TypeOK, EnginesOK, CallOK, LayersTried
  <2>2. CacheOK'
    BY <1>1 DEF vars, IndInv, CacheOK, Clean
  <2>3. SpansReal' /\ PlaceholdersLeft'
    BY <1>1 DEF vars, IndInv, SpansReal, PlaceholdersLeft
  <2>4. ShortFound' /\ LongFound'
    BY <1>1 DEF vars, IndInv, ShortFound, LongFound, Searched, Backend
  <2> QED BY <2>1, <2>2, <2>3, <2>4 DEF IndInv
<1>2. ASSUME NEW text \in Text, NEW policy \in Policy, DetectShort(text, policy) \/ DetectLong(text, policy)
      PROVE  IndInv'
  BY <1>2, DetectShortInv, DetectLongInv
<1> QED BY <1>1, <1>2, RestartInv, ProbeLlmInv, AskLlmInv, SkipChunkInv, SearchChunkInv, ReturnInv DEF Next

\* The inductive invariant holds throughout.
THEOREM Invariance == Spec => []IndInv
BY InitInv, NextInv, PTL DEF Spec

\* Every variable keeps its type, and the cache its size.
THEOREM TypeCorrect == Spec => []TypeOK
<1>1. IndInv => TypeOK
  BY DEF IndInv
<1> QED BY <1>1, Invariance, PTL

\* Only what is sought under the request's policy, and stands in the text, is
\* reported, whatever earlier requests loaded and recorded.
THEOREM Real == Spec => []SpansReal
<1>1. IndInv => SpansReal
  BY DEF IndInv
<1> QED BY <1>1, Invariance, PTL

\* No recognizer but the search for blocks touches a placeholder that lies in a
\* short line, however the text is cut.
THEOREM PlaceholdersKept == Spec => []PlaceholdersLeft
<1>1. IndInv => PlaceholdersLeft
  BY DEF IndInv
<1> QED BY <1>1, Invariance, PTL

\* A request in which nothing failed reports all it must find.
THEOREM Completeness == Spec => []NothingMissed
<1>1. IndInv => NothingMissed
  <2> SUFFICES ASSUME IndInv, call.st = "done", ~call.failed, ~call.stale, NEW p \in Due
               PROVE  p \in call.spans
    BY DEF NothingMissed
  <2>1. call.text \in Text /\ Len(call.text) \in Nat
    BY TextAssumption DEF IndInv, CallOK
  <2>2. CASE Len(call.text) <= ShortMax
    BY <2>2 DEF Due, IndInv, ShortFound, Backend
  <2>3. CASE ~(Len(call.text) <= ShortMax)
    <3>1. Len(call.text) > ShortMax /\ call.pos = Len(call.text)
      BY <2>1, <2>3, BoundsAssumption DEF IndInv, CallOK
    <3>2. PICK w \in FastFind(Layer, call.policy, Backend) :
            /\ Prefiltered(w) /\ p \in Places(call.text, w)
            /\ p \in Kept(call.text, Places(call.text, w), call.policy)
      BY <2>3 DEF Due, Kept, Reports, Backend
    <3>3. InShortLine(call.text, p)
      BY <2>3 DEF Due, Uncut
    <3>4. w \in Word
      BY FoundSought DEF IndInv, CallOK, FastFind
    <3>5. p[2] <= call.pos
      <4>1. w \in Seq(Int) \ {<<>>} /\ call.text \in Seq(Int)
        BY <2>1, <3>4, TextAssumption, WordAssumption
      <4> QED BY <3>1, <3>2, <4>1, PlacesOK
    <3>6. Searched(w, p)
      BY <3>1, <3>2, <3>3, <3>4, <3>5 DEF IndInv, LongFound
    <3> QED BY <3>2, <3>6 DEF Searched
  <2> QED BY <2>2, <2>3
<1> QED BY <1>1, Invariance, PTL

\* A layer is left out only if, under the request's own policy, its model failed
\* to load or a probe of it failed.
THEOREM Tried == Spec => []LayersTried
<1>1. IndInv => LayersTried
  BY DEF IndInv
<1> QED BY <1>1, Invariance, PTL

-----------------------------------------------------------------------------
(* The answer made of the layers' reports: SpanMerge.                      *)

\* A merged span: start and score of a span already taken, end of another.
BuiltFrom(m, a, b) ==
  m = [start |-> a.start, end |-> b.end, score |-> a.score] /\ a.end <= b.end

Built(m) == \E a, b \in input \ todo : BuiltFrom(m, a, b)

\* Every character of m is one of a span in from.
Reported(m, from) == \A k \in m.start .. m.end - 1 : \E x \in from : x.start <= k /\ k < x.end

\* The merged list is sorted, and the loop goes on from its last span.
Sorted ==
  /\ last = NoSpan => closed = {} /\ todo = input
  /\ last # NoSpan =>
       /\ \A m \in closed : m.end <= last.start
       /\ \A x \in todo : last.start <= x.start
  /\ PairwiseDisjoint(closed)

DominantKept ==
  \A o \in input \ todo : Dominant(o, input) =>
    \E m \in Merged : Covers(m, o) /\ m.score = o.score

(***************************************************************************)
(* The inductive invariant.  That a dominant span stays covered when the   *)
(* span that covers it is replaced needs to know that no merged span       *)
(* reaches across a place where nothing overlaps: Uncrossed.               *)
(***************************************************************************)
LoopInv ==
  /\ input \subseteq Span /\ todo \subseteq input
  /\ \A m \in Merged : Built(m) /\ Uncrossed(m, input) /\ Reported(m, input)
  /\ Sorted
  /\ DominantKept

PhaseInv ==
  /\ phase \in {"analyze", "merge", "done", "llm", "llm merge", "llm done"}
  /\ found \subseteq Span
  /\ phase \in {"merge", "done", "llm"} => input = found
  /\ phase \in {"analyze", "merge"} => firm = {}
  /\ phase \notin {"analyze", "merge"} => IsMerge(firm, found)
  /\ \A m \in firm : Reported(m, found)
  /\ phase \in {"llm merge", "llm done"} => \A x \in input, m \in firm : ~Overlapping(x, m)
  /\ phase \in {"done", "llm", "llm done"} => todo = {}

MergingInv == LoopInv /\ PhaseInv

-----------------------------------------------------------------------------
LEMMA SpanFacts ==
  ASSUME NEW x \in Span
  PROVE  x.start \in Nat /\ x.end \in Nat /\ x.score \in Nat /\ x.start < x.end
BY SpanAssumption

\* What a merged span is, field by field.
LEMMA BuiltFields ==
  ASSUME NEW m, NEW a \in Span, NEW b \in Span, BuiltFrom(m, a, b)
  PROVE  /\ m.start = a.start /\ m.end = b.end /\ m.score = a.score
         /\ m.start \in Nat /\ m.end \in Nat /\ m.score \in Nat
         /\ m.start < m.end /\ Covers(m, a)
         /\ m # NoSpan
<1>1. m.start = a.start /\ m.end = b.end /\ m.score = a.score
  BY DEF BuiltFrom
<1>2. a.end <= b.end /\ m.start < m.end
  BY <1>1, SpanFacts DEF BuiltFrom
<1>3. m \in Candidates(Span)
  <2>1. m \in [start : {x.start : x \in Span}, end : {x.end : x \in Span}, score : {x.score : x \in Span}]
    BY DEF BuiltFrom
  <2> QED BY <1>1, <1>2, <2>1 DEF Candidates
<1> QED BY <1>1, <1>2, <1>3, SpanFacts, NoSpanAssumption DEF Covers

\* A new loop starts with nothing merged.
LEMMA MergeStartInv ==
  ASSUME NEW spans \in SUBSET Span, MergeStart(spans)
  PROVE  LoopInv'
<1>1. input' = spans /\ todo' = spans /\ closed' = {} /\ last' = NoSpan
  BY DEF MergeStart
<1>2. Merged' = {}
  BY <1>1 DEF Merged
<1> QED BY <1>1, <1>2 DEF LoopInv, Sorted, DominantKept, PairwiseDisjoint

\* Spans a chain of overlaps connects lie on one side of any cut: if the last
\* merged span overlaps the next one, what it covers is not apart from it.
LEMMA NotApart ==
  ASSUME LoopInv, NEW span \in todo, last # NoSpan, ~Follows(span),
         NEW o \in input, Covers(last, o)
  PROVE  ~Apart(o, span, input) /\ ~Apart(span, o, input)
<1>1. PICK a, b \in input \ todo : BuiltFrom(last, a, b)
  BY DEF LoopInv, Merged, Built
<1>2. last.start \in Nat /\ last.end \in Nat /\ last.start < last.end
  BY <1>1, BuiltFields DEF LoopInv
<1>3. /\ o \in Span /\ span \in Span /\ last.start <= span.start /\ span.start < last.end
  BY <1>2, SpanFacts DEF LoopInv, Sorted, Follows
<1>4. ASSUME NEW c \in input, Cut(c, input)
      PROVE  /\ c.end \in Nat
             /\ last.end <= c.end \/ c.end <= last.start
             /\ span.end <= c.end \/ c.end <= span.start
             /\ o.end <= c.end \/ c.end <= o.start
  BY <1>4, SpanFacts DEF LoopInv, Merged, Uncrossed, Cut
<1>5. ASSUME NEW c \in input, Cut(c, input)
      PROVE  o.end <= c.end <=> span.end <= c.end
  <2>1. CASE last.end <= c.end
    BY <1>2, <1>3, <1>4, <1>5, <2>1, SpanFacts DEF Covers
  <2>2. CASE c.end <= last.start
    BY <1>2, <1>3, <1>4, <1>5, <2>2, SpanFacts DEF Covers
  <2> QED BY <1>4, <1>5, <2>1, <2>2
<1>6. \A c \in input : c.end \in Nat /\ o.end \in Nat /\ span.end \in Nat
  BY <1>3, SpanFacts DEF LoopInv
<1> QED BY <1>5, <1>6 DEF Apart

\* The fields of every merged span, and that the list is sorted.
LEMMA MergedFacts ==
  ASSUME LoopInv, NEW m \in Merged
  PROVE  /\ m.start \in Nat /\ m.end \in Nat /\ m.start < m.end
         /\ last # NoSpan /\ last \in Merged
         /\ (m = last \/ (m \in closed /\ m.end <= last.start))
<1>1. PICK a, b \in input \ todo : BuiltFrom(m, a, b)
  BY DEF LoopInv, Built
<1>2. m.start \in Nat /\ m.end \in Nat /\ m.start < m.end /\ m # NoSpan
  BY <1>1, BuiltFields DEF LoopInv
<1> QED BY <1>2 DEF LoopInv, Sorted, Merged

LEMMA MergedDisjoint ==
  ASSUME LoopInv
  PROVE  PairwiseDisjoint(Merged)
<1> SUFFICES ASSUME NEW m \in Merged, NEW n \in Merged, m # n
             PROVE  ~Overlapping(m, n)
  BY DEF PairwiseDisjoint
<1>1. CASE m \in closed /\ n \in closed
  BY <1>1 DEF LoopInv, Sorted, PairwiseDisjoint
<1>2. CASE m = last \/ n = last
  BY <1>2, MergedFacts DEF Overlapping
<1> QED BY <1>1, <1>2, MergedFacts

-----------------------------------------------------------------------------
\* The next span becomes the last one: it follows, or nothing was merged yet.
LEMMA FollowInv ==
  ASSUME LoopInv, NEW span \in todo, MergeNext(span), last = NoSpan \/ Follows(span)
  PROVE  LoopInv'
<1>1. /\ todo' = todo \ {span} /\ input' = input /\ last' = span
      /\ closed' = closed \cup ({last} \ {NoSpan})
      /\ \A other \in todo : span.start <= other.start
  BY DEF MergeNext
<1>2. span \in Span /\ span \in input /\ BuiltFrom(span, span, span)
  BY SpanAssumption DEF LoopInv, BuiltFrom
<1>3. /\ span.start \in Nat /\ span.end \in Nat /\ span.start < span.end /\ span # NoSpan
  BY <1>2, BuiltFields
<1>4. Merged' = Merged \cup {span} /\ closed' = Merged
  BY <1>1, <1>3 DEF Merged
<1>5. \A m \in Merged : Built(m)'
  BY <1>1 DEF LoopInv, Built
<1>6. Built(span)' /\ Uncrossed(span, input)' /\ Reported(span, input)'
  BY <1>1, <1>2, <1>3 DEF Built, Uncrossed, Reported, Cut
<1>7. \A m \in Merged : m.end <= span.start
  <2> SUFFICES ASSUME NEW m \in Merged PROVE m.end <= span.start
    OBVIOUS
  <2>1. last # NoSpan /\ last \in Merged
    BY MergedFacts
  <2>2. last.end \in Nat /\ last.start \in Nat /\ last.start < last.end /\ last.end <= span.start
    BY <1>3, <2>1, MergedFacts DEF Follows
  <2> QED BY <1>3, <2>2, MergedFacts
<1>8. Sorted'
  <2>1. \A x \in todo' : last'.start <= x.start
    BY <1>1
  <2>2. PairwiseDisjoint(Merged)
    BY MergedDisjoint
  <2> QED BY <1>1, <1>3, <1>4, <1>7, <2>1, <2>2 DEF Sorted
<1>9. DominantKept'
  <2> SUFFICES ASSUME NEW o \in input \ todo', Dominant(o, input)
               PROVE  \E m \in Merged' : Covers(m, o) /\ m.score = o.score
    BY <1>1 DEF DominantKept
  <2>1. CASE o = span
    BY <1>3, <1>4, <2>1 DEF Covers
  <2>2. CASE o # span
    BY <1>1, <1>4, <2>2 DEF LoopInv, DominantKept
  <2> QED BY <2>1, <2>2
<1>10. \A m \in Merged : Uncrossed(m, input)' /\ Reported(m, input)'
  BY <1>1 DEF LoopInv, Uncrossed, Reported
<1> QED BY <1>1, <1>2, <1>4, <1>5, <1>6, <1>8, <1>9, <1>10 DEF LoopInv

\* A span that overlaps the last one replaces it, lengthens it or is dropped.
LEMMA AbsorbInv ==
  ASSUME LoopInv, NEW span \in todo, MergeNext(span), last # NoSpan, ~Follows(span)
  PROVE  LoopInv'
<1>1. /\ todo' = todo \ {span} /\ input' = input /\ closed' = closed
      /\ last' = Absorbed(span)
      /\ \A other \in todo : span.start <= other.start
  BY DEF MergeNext
<1>2. PICK a, b \in input \ todo : BuiltFrom(last, a, b)
  BY DEF LoopInv, Merged, Built
<1>3. /\ last.start = a.start /\ last.end = b.end /\ last.score = a.score
      /\ last.start \in Nat /\ last.end \in Nat /\ last.score \in Nat
      /\ last.start < last.end /\ Covers(last, a)
  BY <1>2, BuiltFields DEF LoopInv
<1>4. /\ span \in Span /\ span \in input
      /\ span.start \in Nat /\ span.end \in Nat /\ span.score \in Nat /\ span.start < span.end
      /\ last.start <= span.start /\ span.start < last.end
  BY <1>3, SpanFacts DEF LoopInv, Sorted, Follows
<1>5. /\ \E c, d \in input \ todo' : BuiltFrom(last', c, d)
      /\ last'.start >= last.start
      /\ last'.start <= span.start
      /\ (last'.end <= last.end \/ last'.end = span.end)
      /\ (last'.start = last.start \/ last' = span)
  <2>1. CASE Preferred(span, last)
    <3>1. last' = span /\ BuiltFrom(span, span, span)
      BY <1>1, <1>4, <2>1, SpanAssumption DEF Absorbed, BuiltFrom
    <3> QED BY <1>1, <1>4, <3>1
  <2>2. CASE ~Preferred(span, last) /\ span.end > last.end
    <3>1. last' = [last EXCEPT !.end = span.end]
      BY <1>1, <2>2 DEF Absorbed
    <3>2. last' = [start |-> a.start, end |-> span.end, score |-> a.score]
      BY <1>2, <3>1 DEF BuiltFrom
    <3>3. a.end <= span.end
      BY <1>3, <1>4, <2>2, SpanFacts DEF Covers, LoopInv
    <3>4. BuiltFrom(last', a, span) /\ last'.start = last.start /\ last'.end = span.end
      BY <1>3, <3>2, <3>3 DEF BuiltFrom
    <3> QED BY <1>1, <1>3, <1>4, <3>4
  <2>3. CASE ~Preferred(span, last) /\ ~(span.end > last.end)
    <3>1. last' = last
      BY <1>1, <2>3 DEF Absorbed
    <3> QED BY <1>1, <1>2, <1>3, <1>4, <3>1
  <2> QED BY <2>1, <2>2, <2>3
<1>6. /\ last'.start \in Nat /\ last'.end \in Nat /\ last'.start < last'.end /\ last' # NoSpan
  <2>1. PICK c, d \in Span : BuiltFrom(last', c, d)
    BY <1>5 DEF LoopInv
  <2> QED BY <2>1, BuiltFields
<1>7. Merged = closed \cup {last} /\ Merged' = closed \cup {last'}
  BY <1>1, <1>6 DEF Merged
<1>8. \A m \in closed : Built(m)' /\ Uncrossed(m, input)' /\ Reported(m, input)'
  BY <1>1, <1>7 DEF LoopInv, Built, Uncrossed, Reported
<1>9. Built(last)'
  BY <1>1, <1>5 DEF Built
<1>10. Uncrossed(last, input)'
  <2> SUFFICES ASSUME NEW k \in input, Cut(k, input)
               PROVE  last'.end <= k.end \/ k.end <= last'.start
    BY <1>1 DEF Uncrossed
  <2>1. k.end \in Nat
    BY SpanFacts DEF LoopInv
  <2>2. /\ last.end <= k.end \/ k.end <= last.start
        /\ span.end <= k.end \/ k.end <= span.start
    BY <1>4, <1>7 DEF LoopInv, Uncrossed, Cut
  <2> QED BY <1>3, <1>4, <1>5, <1>6, <2>1, <2>2
<1>11. Reported(last, input)'
  <2> SUFFICES ASSUME NEW k \in last'.start .. last'.end - 1
               PROVE  \E x \in input : x.start <= k /\ k < x.end
    BY <1>1 DEF Reported
  <2>1. CASE k \in last.start .. last.end - 1
    BY <1>7, <2>1 DEF LoopInv, Reported
  <2>2. CASE k \notin last.start .. last.end - 1
    BY <1>3, <1>4, <1>5, <1>6, <2>2
  <2> QED BY <2>1, <2>2
<1>12. Sorted'
  <2>1. \A m \in closed : m.end <= last.start
    BY DEF LoopInv, Sorted
  <2>2. \A m \in closed : m.end \in Nat
    <3> SUFFICES ASSUME NEW m \in closed PROVE m.end \in Nat
      OBVIOUS
    <3>1. PICK x, y \in input \ todo : BuiltFrom(m, x, y)
      BY <1>7 DEF LoopInv, Built
    <3> QED BY <3>1, BuiltFields DEF LoopInv
  <2>3. ASSUME NEW m \in closed PROVE m.end <= last'.start
    <3>1. m.end \in Nat /\ m.end <= last.start
      BY <2>1, <2>2
    <3>2. last'.start >= last.start /\ last'.start \in Nat /\ last.start \in Nat
      BY <1>3, <1>5, <1>6
    <3> QED BY <3>1, <3>2
  <2>4. \A x \in todo' : last'.start <= x.start
    <3> SUFFICES ASSUME NEW x \in todo' PROVE last'.start <= x.start
      OBVIOUS
    <3>1. x.start \in Nat /\ span.start <= x.start
      BY <1>1, SpanFacts DEF LoopInv
    <3> QED BY <1>4, <1>5, <1>6, <3>1
  <2> QED BY <1>1, <1>6, <2>3, <2>4 DEF LoopInv, Sorted
<1>13. DominantKept'
  <2> SUFFICES ASSUME NEW o \in input \ todo', Dominant(o, input)
               PROVE  \E m \in Merged' : Covers(m, o) /\ m.score = o.score
    BY <1>1 DEF DominantKept
  <2>1. CASE o = span
    <3>1. Covers(last, a) => ~Apart(span, a, input)
      BY NotApart
    <3>2. a # span /\ a \in Span
      BY DEF LoopInv
    <3>3. Preferred(span, a)
      BY <1>3, <2>1, <3>1, <3>2 DEF Dominant
    <3>4. Covers(last', span) /\ last'.score = span.score
      <4>1. CASE Preferred(span, last)
        BY <1>1, <1>4, <4>1 DEF Absorbed, Covers
      <4>2. CASE ~Preferred(span, last)
        <5>1. span.score = last.score
          BY <1>3, <1>4, <3>3, <4>2 DEF Preferred
        <5>2. CASE span.end > last.end
          <6>1. last' = [last EXCEPT !.end = span.end]
            BY <1>1, <4>2, <5>2 DEF Absorbed
          <6>2. last' = [start |-> a.start, end |-> span.end, score |-> a.score]
            BY <1>2, <6>1 DEF BuiltFrom
          <6> QED BY <1>3, <1>4, <5>1, <6>2 DEF Covers
        <5>3. CASE ~(span.end > last.end)
          <6>1. last' = last
            BY <1>1, <4>2, <5>3 DEF Absorbed
          <6> QED BY <1>3, <1>4, <5>1, <5>3, <6>1 DEF Covers
        <5> QED BY <5>2, <5>3
      <4> QED BY <4>1, <4>2
    <3> QED BY <1>7, <2>1, <3>4
  <2>2. CASE o # span
    <3>1. PICK m \in Merged : Covers(m, o) /\ m.score = o.score
      BY <1>1, <2>2 DEF LoopInv, DominantKept
    <3>2. CASE m \in closed
      BY <1>7, <3>1, <3>2
    <3>3. CASE m = last
      <4>1. o \in Span /\ o.start \in Nat /\ o.end \in Nat /\ o.score \in Nat
        BY SpanFacts DEF LoopInv
      <4>2. ~Apart(o, span, input)
        BY <3>1, <3>3, NotApart
      <4>3. Preferred(o, span)
        BY <1>4, <2>2, <4>2 DEF Dominant
      <4>4. ~Preferred(span, last)
        BY <1>3, <1>4, <3>1, <3>3, <4>1, <4>3 DEF Preferred, Covers
      <4>5. Covers(last', o) /\ last'.score = o.score
        <5>1. CASE span.end > last.end
          <6>1. last' = [last EXCEPT !.end = span.end]
            BY <1>1, <4>4, <5>1 DEF Absorbed
          <6>2. last' = [start |-> a.start, end |-> span.end, score |-> a.score]
            BY <1>2, <6>1 DEF BuiltFrom
          <6> QED BY <1>3, <1>4, <3>1, <3>3, <4>1, <5>1, <6>2 DEF Covers
        <5>2. CASE ~(span.end > last.end)
          <6>1. last' = last
            BY <1>1, <4>4, <5>2 DEF Absorbed
          <6> QED BY <3>1, <3>3, <6>1
        <5> QED BY <5>1, <5>2
      <4> QED BY <1>7, <4>5
    <3> QED BY <1>7, <3>2, <3>3
  <2> QED BY <2>1, <2>2
<1> QED BY <1>1, <1>7, <1>8, <1>9, <1>10, <1>11, <1>12, <1>13 DEF LoopInv

LEMMA MergeNextInv ==
  ASSUME MergingInv, NEW span \in todo, MergeNext(span)
  PROVE  MergingInv'
<1>1. LoopInv'
  BY FollowInv, AbsorbInv DEF MergingInv
<1>2. /\ UNCHANGED <<phase, found, input, firm>>
      /\ todo # {}
  BY DEF MergeNext
<1>3. phase \notin {"done", "llm", "llm done"}
  BY <1>2 DEF MergingInv, PhaseInv
<1> QED BY <1>1, <1>2, <1>3 DEF MergingInv, PhaseInv, Reported

-----------------------------------------------------------------------------
LEMMA MergingInitInv == MergingInit => MergingInv
<1> SUFFICES ASSUME MergingInit PROVE MergingInv
  OBVIOUS
<1>1. Merged = {}
  BY DEF MergingInit, Merged
<1> QED BY <1>1 DEF MergingInit, MergingInv, LoopInv, PhaseInv, Sorted, DominantKept, PairwiseDisjoint

LEMMA AnalyzeInv ==
  ASSUME MergingInv, NEW spans \in LayerReports, Analyze(spans)
  PROVE  MergingInv'
<1>1. spans \in SUBSET Span
  BY LayerReportsAssumption
<1>2. LoopInv'
  BY <1>1, MergeStartInv DEF Analyze
<1>3. phase' = "merge" /\ found' = spans /\ input' = spans /\ firm' = {}
  BY DEF Analyze, MergeStart, MergingInv, PhaseInv
<1> QED BY <1>1, <1>2, <1>3 DEF MergingInv, PhaseInv

\* When the loop has ended, the list is a merge of the input.
LEMMA LoopResult ==
  ASSUME LoopInv, todo = {}
  PROVE  IsMerge(Merged, input)
<1>1. Merged \subseteq Candidates(input)
  <2> SUFFICES ASSUME NEW m \in Merged PROVE m \in Candidates(input)
    OBVIOUS
  <2>1. PICK a, b \in input \ todo : BuiltFrom(m, a, b)
    BY DEF LoopInv, Built
  <2>2. m.start = a.start /\ m.end = b.end /\ m.score = a.score /\ m.start < m.end
    BY <2>1, BuiltFields DEF LoopInv
  <2>3. m \in [start : {x.start : x \in input}, end : {x.end : x \in input}, score : {x.score : x \in input}]
    BY <2>1 DEF BuiltFrom
  <2> QED BY <2>2, <2>3 DEF Candidates
<1>2. Merged = {} => input = {}
  BY DEF LoopInv, Sorted, Merged
<1>3. \A o \in input : Dominant(o, input) => \E m \in Merged : Covers(m, o) /\ m.score = o.score
  BY DEF LoopInv, DominantKept
<1>4. \A m \in Merged : Uncrossed(m, input)
  BY DEF LoopInv
<1> QED BY <1>1, <1>2, <1>3, <1>4, MergedDisjoint DEF IsMerge

LEMMA MergeDoneInv ==
  ASSUME MergingInv, MergeDone
  PROVE  MergingInv'
<1>1. /\ phase = "merge" /\ todo = {} /\ firm' = Merged /\ phase' \in {"done", "llm"}
      /\ UNCHANGED <<found, input, todo, closed, last>>
  BY DEF MergeDone
<1>2. input = found /\ IsMerge(Merged, input)
  BY <1>1, LoopResult DEF MergingInv, PhaseInv
<1>3. LoopInv'
  BY <1>1 DEF MergingInv, LoopInv, Merged, Built, Uncrossed, Reported, Sorted, DominantKept
<1>4. IsMerge(firm, found)'
  BY <1>1, <1>2 DEF IsMerge
<1>5. \A m \in firm' : Reported(m, found)'
  BY <1>1, <1>2 DEF MergingInv, LoopInv, Reported
<1> QED BY <1>1, <1>2, <1>3, <1>4, <1>5 DEF MergingInv, PhaseInv

LEMMA AddLlmInv ==
  ASSUME MergingInv, NEW spans \in LlmReports, AddLlm(spans)
  PROVE  MergingInv'
<1>1. Additive(spans) \in SUBSET Span
  BY LayerReportsAssumption DEF Additive
<1>2. LoopInv'
  BY <1>1, MergeStartInv DEF AddLlm
<1>3. /\ phase = "llm" /\ phase' = "llm merge" /\ input' = Additive(spans)
      /\ UNCHANGED <<found, firm>>
  BY DEF AddLlm, MergeStart
<1>4. \A x \in input', m \in firm' : ~Overlapping(x, m)
  BY <1>3 DEF Additive
<1>5. IsMerge(firm, found)' /\ \A m \in firm' : Reported(m, found)'
  BY <1>3 DEF MergingInv, PhaseInv, IsMerge, Reported
<1> QED BY <1>2, <1>3, <1>4, <1>5 DEF MergingInv, PhaseInv

LEMMA LlmDoneInv ==
  ASSUME MergingInv, LlmDone
  PROVE  MergingInv'
<1>1. /\ phase = "llm merge" /\ todo = {} /\ phase' = "llm done"
      /\ UNCHANGED <<found, input, todo, closed, last, firm>>
  BY DEF LlmDone
<1>2. LoopInv'
  BY <1>1 DEF MergingInv, LoopInv, Merged, Built, Uncrossed, Reported, Sorted, DominantKept
<1> QED BY <1>1, <1>2 DEF MergingInv, PhaseInv, IsMerge, Reported

\* Every step preserves the inductive invariant.
LEMMA MergingNextInv == MergingInv /\ [MergingNext]_mergingVars => MergingInv'
<1> SUFFICES ASSUME MergingInv, [MergingNext]_mergingVars PROVE MergingInv'
  OBVIOUS
<1>1. CASE UNCHANGED mergingVars
  BY <1>1 DEF mergingVars, MergingInv, LoopInv, PhaseInv, Merged, Built, Uncrossed, Reported, Sorted,
              DominantKept, IsMerge
<1>2. CASE MergingNext
  BY <1>2, AnalyzeInv, MergeNextInv, MergeDoneInv, AddLlmInv, LlmDoneInv DEF MergingNext
<1> QED BY <1>1, <1>2

\* The inductive invariant holds throughout.
THEOREM MergingInvariance == MergingSpec => []MergingInv
BY MergingInitInv, MergingNextInv, PTL DEF MergingSpec

\* Every variable keeps its type; merged spans begin and end with reports.
THEOREM MergingTypeCorrect == MergingSpec => []MergingTypeOK
<1>1. MergingInv => MergingTypeOK
  <2> SUFFICES ASSUME MergingInv PROVE MergingTypeOK
    OBVIOUS
  <2>1. Merged \subseteq Candidates(input)
    <3> SUFFICES ASSUME NEW m \in Merged PROVE m \in Candidates(input)
      OBVIOUS
    <3>1. PICK a, b \in input \ todo : BuiltFrom(m, a, b)
      BY DEF MergingInv, LoopInv, Built
    <3>2. m.start = a.start /\ m.end = b.end /\ m.score = a.score /\ m.start < m.end
      BY <3>1, BuiltFields DEF MergingInv, LoopInv
    <3>3. m \in [start : {x.start : x \in input}, end : {x.end : x \in input}, score : {x.score : x \in input}]
      BY <3>1 DEF BuiltFrom
    <3> QED BY <3>2, <3>3 DEF Candidates
  <2>2. firm \subseteq Candidates(found)
    BY DEF MergingInv, PhaseInv, IsMerge
  <2> QED BY <2>1, <2>2 DEF MergingTypeOK, MergingInv, LoopInv, PhaseInv
<1> QED BY <1>1, MergingInvariance, PTL

\* engine.py's merge keeps its promise for any set of reports: no overlap, no
\* invented borders, every dominant report covered under its own score.
THEOREM MergePromise == MergingSpec => []FirmIsMerge
<1>1. MergingInv => FirmIsMerge
  BY DEF MergingInv, PhaseInv, FirmIsMerge
<1> QED BY <1>1, MergingInvariance, PTL

\* Two overlapping spans share a character.
LEMMA SharedPlace ==
  ASSUME NEW b1 \in Nat, NEW e1 \in Nat, NEW b2 \in Nat, NEW e2 \in Nat,
         b1 < e1, b2 < e2, b1 < e2, b2 < e1
  PROVE  \E k \in b1 .. e1 - 1 : k \in Int /\ b2 <= k /\ k < e2
<1>1. CASE b1 <= b2
  <2>1. b2 \in b1 .. e1 - 1 /\ b2 \in Int /\ b2 <= b2 /\ b2 < e2
    BY <1>1
  <2> QED BY <2>1
<1>2. CASE b2 <= b1
  <2>1. b1 \in b1 .. e1 - 1 /\ b1 \in Int /\ b2 <= b1 /\ b1 < e2
    BY <1>2
  <2> QED BY <2>1
<1> QED BY <1>1, <1>2

\* A span with a character of another overlaps it.
LEMMA SharedOverlap ==
  ASSUME NEW x, NEW f, NEW k \in Int,
         x.start \in Nat, x.end \in Nat, f.start \in Nat, f.end \in Nat,
         x.start <= k, k < x.end, f.start <= k, k < f.end
  PROVE  Overlapping(x, f)
BY DEF Overlapping

\* A span of the language model that survives overlaps no other span.
LEMMA AdditiveApart ==
  ASSUME MergingInv, phase = "llm done", NEW m \in Merged, NEW f \in firm
  PROVE  ~Overlapping(m, f)
<1>1. m.start \in Nat /\ m.end \in Nat /\ m.start < m.end
  BY MergedFacts DEF MergingInv
<1>2. f.start \in Nat /\ f.end \in Nat /\ f.start < f.end
  <2>1. f \in Candidates(found)
    BY DEF MergingInv, PhaseInv, IsMerge
  <2> QED BY <2>1, SpanFacts DEF Candidates, MergingInv, PhaseInv
<1> SUFFICES ASSUME Overlapping(m, f) PROVE FALSE
  OBVIOUS
<1>3. m.start < f.end /\ f.start < m.end
  BY DEF Overlapping
<1>4. \E k \in m.start .. m.end - 1 : k \in Int /\ f.start <= k /\ k < f.end
  BY <1>1, <1>2, <1>3, SharedPlace
<1>5. PICK k \in m.start .. m.end - 1 : k \in Int /\ f.start <= k /\ k < f.end
  BY <1>4
<1>6. PICK x \in input : x.start <= k /\ k < x.end
  BY DEF MergingInv, LoopInv, Reported
<1>7. x.start \in Nat /\ x.end \in Nat
  BY SpanFacts DEF MergingInv, LoopInv
<1>8. Overlapping(x, f)
  BY <1>2, <1>5, <1>6, <1>7, SharedOverlap
<1> QED BY <1>8 DEF MergingInv, PhaseInv

\* The spans of an answer never overlap, whatever the language model reports.
THEOREM Disjointness == MergingSpec => []AnswerDisjoint
<1>1. MergingInv => AnswerDisjoint
  <2> SUFFICES ASSUME MergingInv, Answered PROVE PairwiseDisjoint(Answer)
    BY DEF AnswerDisjoint
  <2>1. PairwiseDisjoint(firm)
    BY DEF MergingInv, PhaseInv, IsMerge, Answered
  <2>2. CASE phase = "done"
    BY <2>1, <2>2 DEF Answer
  <2>3. CASE phase = "llm done"
    <3>1. PairwiseDisjoint(Merged)
      BY MergedDisjoint DEF MergingInv
    <3>2. \A m \in Merged, f \in firm : ~Overlapping(m, f) /\ ~Overlapping(f, m)
      BY <2>3, AdditiveApart DEF Overlapping
    <3> QED BY <2>1, <2>3, <3>1, <3>2 DEF Answer, PairwiseDisjoint
  <2> QED BY <2>2, <2>3 DEF Answered
<1> QED BY <1>1, MergingInvariance, PTL

\* An answer covers nothing that no detector reported.
THEOREM NothingInvented == MergingSpec => []OnlyReported
<1>1. MergingInv => OnlyReported
  <2> SUFFICES ASSUME MergingInv, Answered, NEW s \in Answer, NEW k \in s.start .. s.end - 1
               PROVE  \E x \in found \cup input : x.start <= k /\ k < x.end
    BY DEF OnlyReported
  <2>1. Reported(s, found) \/ Reported(s, input)
    BY DEF MergingInv, PhaseInv, LoopInv, Answer
  <2> QED BY <2>1 DEF Reported
<1> QED BY <1>1, MergingInvariance, PTL
=============================================================================
