----------------------------- MODULE ChunkScan ------------------------------
(***************************************************************************)
(* Concurrent scans of long texts (detectChunked) over the cache of chunks *)
(* recently found clean (chunk-cache.ts), while time passes and the        *)
(* service's policy changes.                                               *)
(*                                                                         *)
(* Of the service the module keeps what it promises: its answer is a merge *)
(* (module SpanMerge) of the occurrences of the words its policy has in    *)
(* force.  A request is served and its answer received in separate steps,  *)
(* so an answer can be older than the policy it arrives under.             *)
(***************************************************************************)
EXTENDS Chunker

CONSTANTS
  Text,       \* texts scanned
  Word,       \* what policies tell the service to detect
  Policy,     \* the policies the service may have: sets of words
  Score,      \* the score of each word
  Scan,       \* scans under way at a time
  MaxAge,     \* how long a chunk counts as clean
  MaxEntries, \* entries the cache holds
  Timeout,    \* how long the client waits for an answer
  MaxTime     \* bound: the clock stops there

ASSUME TextAssumption ==
  Text \subseteq Seq(Int) /\ Word \subseteq Seq(Int) \ {<<>>} /\ IsFiniteSet(Word)
ASSUME ScoreAssumption == Score \in [Word -> Nat]
ASSUME PolicyAssumption == Policy \subseteq SUBSET Word
ASSUME BoundsAssumption ==
  MaxAge \in Nat /\ MaxEntries \in Nat /\ Timeout \in Nat /\ MaxTime \in Nat

VARIABLES
  time,     \* the clock, up to MaxTime
  inForce,  \* words of the service's policy
  since,    \* history: since when each of its words has been in force
  cache,    \* chunks found clean, each with the time it was recorded
  scan      \* the scans

vars == <<time, inForce, since, cache, scan>>

\* The places a word occurs at, as the spans that report it.
Places(text, w) ==
  {[start |-> k, end |-> k + Len(w), score |-> Score[w]] :
     k \in {j \in 0 .. Len(text) : IsPrefix(w, SubSeq(text, j + 1, Len(text)))}}

Occurrences(text, words) == UNION {Places(text, w) : w \in words}

Answers(text) ==
  LET all == Occurrences(text, inForce)
  IN  {spans \in SUBSET Candidates(all) : IsMerge(spans, all)}

Free == [st |-> "free", text |-> <<>>, start |-> 0, asked |-> {},
         reply |-> [i \in {} |-> {}], skipped |-> {}, spans |-> {}]

Without(map, keys) == [k \in DOMAIN map \ keys |-> map[k]]
With(map, key, val) == [k \in DOMAIN map \cup {key} |-> IF k = key THEN val ELSE map[k]]

\* Scan s is now in state r.
Move(s, r) == scan' = [scan EXCEPT ![s] = r]

Init ==
  /\ time = 0
  /\ inForce \in Policy
  /\ since = [w \in Word |-> 0]
  /\ cache = [c \in {} |-> 0]
  /\ scan = [s \in Scan |-> Free]

-----------------------------------------------------------------------------
(* The cache.                                                              *)

Expired == {c \in DOMAIN cache : time - cache[c] > MaxAge}

\* Bug: has does not look at the age of the entry.
HasAnyAge(chunk) == chunk \in DOMAIN cache

Has(chunk) == chunk \in DOMAIN cache \ Expired

\* Bug: markClean does not evict.
EvictedNever(map) == {map}

\* Expired entries go, then the oldest while there are too many.  Entries of
\* one tick of the clock are taken in any order.
Evicted(map) ==
  LET fresh == Without(map, {c \in DOMAIN map : time - map[c] > MaxAge})
      oldest == {c \in DOMAIN fresh : \A b \in DOMAIN fresh : fresh[c] <= fresh[b]}
  IN  IF Cardinality(DOMAIN fresh) <= MaxEntries THEN {fresh}
      ELSE {Without(fresh, {c}) : c \in oldest}

MarkClean(chunk) == cache' \in Evicted(With(cache, chunk, time))

-----------------------------------------------------------------------------
(* detectChunked: before the first await every chunk is looked up in the   *)
(* cache, which drops expired entries on the way, and asked for if need be.*)
Start(s, t) ==
  LET chunks == Chunks(Len(t))
      skipped == IF Whole(Len(t)) THEN {} ELSE {i \in chunks : Has(Chunk(t, i))}
      looked == IF Whole(Len(t)) THEN {} ELSE {Chunk(t, i) : i \in chunks}
  IN  /\ scan[s].st # "running" /\ scan[s].asked = {} /\ DOMAIN scan[s].reply = {}
      /\ Move(s, [Free EXCEPT !.st = "running", !.text = t, !.start = time,
                              !.asked = chunks \ skipped, !.skipped = skipped])
      /\ cache' = Without(cache, Expired \cap looked)
      /\ UNCHANGED <<time, inForce, since>>

\* The service works out the answer to a request.
Serve(s, i) ==
  /\ i \in scan[s].asked
  /\ \E spans \in Answers(Chunk(scan[s].text, i)) :
       Move(s, [scan[s] EXCEPT !.asked = @ \ {i}, !.reply = With(@, i, spans)])
  /\ UNCHANGED <<time, inForce, since, cache>>

\* An answer arrives in time.  A clean chunk of a long text is remembered,
\* even when the scan it belongs to has failed.
Receive(s, i) ==
  LET spans == scan[s].reply[i]
  IN  /\ i \in DOMAIN scan[s].reply
      /\ time - scan[s].start <= Timeout
      /\ IF spans = {} /\ ~Whole(Len(scan[s].text))
         THEN MarkClean(Chunk(scan[s].text, i))
         ELSE UNCHANGED cache
      /\ Move(s, [scan[s] EXCEPT
           !.reply = Without(@, {i}),
           !.spans = @ \cup {[x EXCEPT !.start = @ + Offset(i), !.end = @ + Offset(i)] : x \in spans}])
      /\ UNCHANGED <<time, inForce, since>>

\* A request is refused, or the client's timer ends it.
Fail(s, i) ==
  /\ i \in scan[s].asked \cup DOMAIN scan[s].reply
  /\ Move(s, [scan[s] EXCEPT !.asked = @ \ {i}, !.reply = Without(@, {i}), !.st = "failed"])
  /\ UNCHANGED <<time, inForce, since, cache>>

\* All chunks are in: the scan returns their spans, merged.
Return(s) ==
  /\ scan[s].st = "running" /\ scan[s].asked = {} /\ DOMAIN scan[s].reply = {}
  /\ Move(s, [scan[s] EXCEPT !.st = "done",
       !.spans = IF Whole(Len(scan[s].text)) THEN @ ELSE MergeSpans(@)])
  /\ UNCHANGED <<time, inForce, since, cache>>

\* session_shutdown: the cache is emptied; scans under way go on.
ClearCache ==
  /\ cache' = [c \in {} |-> 0]
  /\ UNCHANGED <<time, inForce, since, scan>>

-----------------------------------------------------------------------------
\* The service comes back with another policy.
PolicyChange(words) ==
  /\ inForce' = words
  /\ since' = [w \in Word |->
       IF w \in inForce \cap words THEN since[w] ELSE IF w \in words THEN time ELSE 0]
  /\ UNCHANGED <<time, cache, scan>>

Tick ==
  /\ time < MaxTime /\ time' = time + 1
  /\ UNCHANGED <<inForce, since, cache, scan>>

Next ==
  \/ \E s \in Scan, t \in Text : Start(s, t)
  \/ \E s \in Scan : \E i \in scan[s].asked : Serve(s, i)
  \/ \E s \in Scan : \E i \in DOMAIN scan[s].reply : Receive(s, i)
  \/ \E s \in Scan : \E i \in scan[s].asked \cup DOMAIN scan[s].reply : Fail(s, i)
  \/ \E s \in Scan : Return(s)
  \/ ClearCache
  \/ \E words \in Policy : PolicyChange(words)
  \/ Tick

Spec == Init /\ [][Next]_vars

-----------------------------------------------------------------------------
(* Properties.                                                             *)

ScanOK(r) ==
  /\ r.st \in {"free", "running", "failed", "done"}
  /\ r.start \in 0 .. time
  /\ r.text \in Text \/ r = Free
  /\ r.asked \cup DOMAIN r.reply \cup r.skipped \subseteq Chunks(Len(r.text))
  /\ r.asked \cap DOMAIN r.reply = {}

\* The variables have their types, and the cache keeps to its size.
TypeOK ==
  /\ time \in 0 .. MaxTime
  /\ inForce \subseteq Word
  /\ since \in [Word -> 0 .. time]
  /\ \A c \in DOMAIN cache : cache[c] \in 0 .. time
  /\ IsFiniteSet(DOMAIN cache) /\ Cardinality(DOMAIN cache) <= MaxEntries
  /\ DOMAIN scan = Scan /\ \A s \in Scan : ScanOK(scan[s])

\* w has been in force, without a break, from before the given moment.
InForceBefore(w, moment) == w \in inForce /\ since[w] < moment

\* A chunk is skipped only if nothing in it has been in force for longer than
\* the age of an entry and the wait for an answer together: the cache outlives
\* a policy by no more than that.
SkippedFresh ==
  \A s \in Scan : \A i \in scan[s].skipped : \A w \in Word :
    InForceBefore(w, scan[s].start - MaxAge - Timeout)
      => Places(Chunk(scan[s].text, i), w) = {}

\* Every other occurrence that a chain of overlaps connects with o scores less.
Strongest(o, all) == \A p \in all \ {o} : p.score < o.score \/ Apart(o, p, all)

\* A word short enough to fit in the overlap, in force for long enough and
\* stronger than what it overlaps, is covered by one reported span at its own
\* place, wherever the text was cut, whichever chunks were skipped and
\* whatever its halves looked like in the chunks that cut it.
FoundWhole ==
  \A s \in Scan : \A w \in Word :
    /\ scan[s].st = "done"
    /\ Len(w) <= Overlap + 1
    /\ InForceBefore(w, scan[s].start - MaxAge - Timeout)
    => \A o \in Places(scan[s].text, w) :
         Strongest(o, Occurrences(scan[s].text, Word))
           => \E x \in scan[s].spans : Covers(x, o)

\* What a scan returns lies where words of the text begin and end, and no two
\* spans overlap, so that substituting them from last to first replaces those
\* characters and no others.
SpansExact ==
  \A s \in Scan : scan[s].st = "done" =>
    /\ scan[s].spans \subseteq Candidates(Occurrences(scan[s].text, Word))
    /\ PairwiseDisjoint(scan[s].spans)
=============================================================================
