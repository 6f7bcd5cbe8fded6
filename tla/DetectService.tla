--------------------------- MODULE DetectService ----------------------------
(***************************************************************************)
(* How the service serves a text (engine.py, detect): a short one is given *)
(* to all recognizers at once and then to the language model, a long one   *)
(* is searched in chunks cut at line ends, which are passed over when      *)
(* nothing in them looks like a secret or when they were found clean       *)
(* before, and else given to the fast recognizers.                         *)
(*                                                                         *)
(* Recognizers are kept per policy.  GLiNER's model is loaded when it is   *)
(* first needed, the language model asked whether it is there when it is   *)
(* first needed; both may fail, then or at any request.  The module ends   *)
(* where the reports are merged and the language model's spans added       *)
(* (module SpanMerge).  Requests follow one another: detect has no await.  *)
(***************************************************************************)
EXTENDS Recognizers

CONSTANTS
  Newline,   \* the character at which chunks are cut
  Text,      \* texts searched
  Hint,      \* what the prefilter looks for
  Policy,    \* the policies a request may be served under
  NoPolicy,  \* no policy
  LlmAnswer, \* what the language model may answer: sets of any pairs
  ShortMax,  \* the length up to which a text is short
  Target,    \* the length aimed at for a chunk
  CacheMax   \* entries the cache may hold

ASSUME TextAssumption == Text \subseteq Seq(Int) /\ Hint \subseteq Seq(Int) \ {<<>>}
ASSUME PolicyAssumption == \A policy \in Policy :
  policy.llm \in BOOLEAN /\ policy.threshold \in Nat /\ policy.entropy \in Nat
ASSUME LlmAssumption == \A answer \in LlmAnswer : answer \subseteq Int \X Int
ASSUME BoundsAssumption ==
  ShortMax \in Nat /\ Target \in Nat \ {0} /\ Target <= ShortMax /\ CacheMax \in Nat

VARIABLES
  engines, \* what has become of each policy's models
  cache,   \* chunks found clean, each with the policy it was searched under
  call,    \* the request being served
  \* History, read by the properties alone:
  tainted, \* entries recorded although a recognizer had failed
  lacking  \* models that could not be loaded or reached, each with its policy

vars == <<engines, cache, call, tainted, lacking>>

\* GLiNER: unknown until it is needed, then the package its model was loaded
\* with, or off.  The language model: none if the policy has none, unknown
\* until it is asked whether it is there, then on or off.
NewEngine(policy) == [gliner |-> "unknown", llm |-> IF policy.llm THEN "unknown" ELSE "none"]

\* llm holds the language model's spans, asked says whether it was asked,
\* failed whether a recognizer failed in this call, stale whether a chunk was
\* passed over because of an entry recorded after a failure.
Idle == [st |-> "idle", text |-> <<>>, policy |-> NoPolicy, pos |-> 0, spans |-> {}, llm |-> {},
         asked |-> FALSE, failed |-> FALSE, stale |-> FALSE]

Init ==
  /\ engines = [policy \in Policy |-> NewEngine(policy)]
  /\ cache = {}
  /\ call = Idle
  /\ tainted = {} /\ lacking = {}

-----------------------------------------------------------------------------
(* GLiNER's model (gliner.py, _ensure_model).                              *)

\* What comes of needing it: what came of it before, or the first package
\* that is there and can load its model.
Loads(policy) ==
  IF engines[policy].gliner = "unknown" THEN {"gliner2", "gliner", "off"} ELSE {engines[policy].gliner}

Load(policy, gliner) ==
  /\ engines' = [engines EXCEPT ![policy].gliner = gliner]
  /\ lacking' = IF gliner = "off" THEN lacking \cup {<<policy, "gliner">>} ELSE lacking

-----------------------------------------------------------------------------
(* Short texts.                                                            *)

\* Where a short text goes when the layers are done with it.
AfterLayers(policy) == IF engines[policy].llm \in {"none", "off"} THEN "done" ELSE "asking"

(* _detect_single: an exception of a recognizer makes the whole answer     *)
(* empty, whether GLiNER's turn had come or not; GLiNER catches its own.   *)
DetectShort(text, policy) ==
  /\ call.st = "idle" /\ Len(text) <= ShortMax
  /\ \E failing \in SUBSET Layer :
       LET raised == ~(failing \subseteq {"gliner"})
       IN  \E gliner \in Loads(policy) \cup (IF raised THEN {engines[policy].gliner} ELSE {}) :
             /\ Load(policy, gliner)
             /\ call' = [Idle EXCEPT
                  !.st = AfterLayers(policy), !.text = text, !.policy = policy,
                  !.failed = failing # {},
                  !.spans = IF raised THEN {}
                            ELSE Kept(text, Reports(text, AllFind(Layer \ failing, policy, gliner)), policy)]
  /\ UNCHANGED <<cache, tainted>>

\* Bug: a lost connection is taken for a language model that is not there.
LlmGone(policy) == [engines EXCEPT ![policy].llm = "off"]

\* The next request asks again whether the language model is there.
LlmLost(policy) == [engines EXCEPT ![policy].llm = "unknown"]

\* _check_available.
ProbeLlm ==
  LET policy == call.policy
  IN  /\ call.st = "asking" /\ engines[policy].llm = "unknown"
      /\ \/ /\ engines' = [engines EXCEPT ![policy].llm = "on"]
            /\ UNCHANGED <<call, lacking>>
         \/ /\ engines' = [engines EXCEPT ![policy].llm = "off"]
            /\ lacking' = lacking \cup {<<policy, "llm">>}
            /\ call' = [call EXCEPT !.st = "done"]
      /\ UNCHANGED <<cache, tainted>>

\* Pairs that are no spans of the text are dropped.
InRange(text, answer) == {s \in answer : 0 <= s[1] /\ s[1] < s[2] /\ s[2] <= Len(text)}

\* LlmRecognizer.analyze: an answer, none, none for want of a connection, or
\* one of another form, on which the request fails.
AskLlm ==
  LET policy == call.policy
      done == [call EXCEPT !.st = "done", !.asked = TRUE]
  IN  /\ call.st = "asking" /\ engines[policy].llm = "on"
      /\ \/ /\ \E answer \in LlmAnswer : call' = [done EXCEPT !.llm = InRange(call.text, answer)]
            /\ UNCHANGED engines
         \/ call' = done /\ UNCHANGED engines
         \/ call' = done /\ engines' = LlmLost(policy)
         \/ call' = [done EXCEPT !.st = "error"] /\ UNCHANGED engines
      /\ UNCHANGED <<cache, tainted, lacking>>

-----------------------------------------------------------------------------
(* Long texts.                                                             *)

\* A long text is first searched as a whole for blocks (_prescan_blocks).
DetectLong(text, policy) ==
  /\ call.st = "idle" /\ Len(text) > ShortMax
  /\ call' = [Idle EXCEPT !.st = "searching", !.text = text, !.policy = policy,
                          !.spans = Reports(text, Block)]
  /\ UNCHANGED <<engines, cache, tainted, lacking>>

\* _chunk_text: where the chunk that begins at pos ends, after the last line
\* end within the target, unless its first character is the only one.
ChunkEnd(text, pos) ==
  LET breaks == {k \in pos + 1 .. pos + Target : text[k + 1] = Newline}
  IN  IF pos + Target >= Len(text) THEN Len(text)
      ELSE IF breaks = {} THEN pos + Target
      ELSE Max(breaks) + 1

\* Bug: the policy is no part of the key.
KeyOfChunk(policy, chunk) == <<NoPolicy, chunk>>

\* _chunk_hash.
Key(policy, chunk) == <<policy, chunk>>

Prefiltered(chunk) == Reports(chunk, Hint) # {}

\* Bug: the limit is checked after the entry.
RoomForOne == Cardinality(cache) <= CacheMax

Room == Cardinality(cache) < CacheMax

Placed(found, offset) == {<<f[1] + offset, f[2] + offset>> : f \in found}

\* The search goes on behind the chunk that ends there.
Behind(end) == [call EXCEPT !.st = IF end = Len(call.text) THEN "done" ELSE "searching", !.pos = end]

Chunk == SubSeq(call.text, call.pos + 1, ChunkEnd(call.text, call.pos))

\* The next chunk is passed over.
SkipChunk ==
  LET key == Key(call.policy, Chunk)
  IN  /\ call.st = "searching"
      /\ ~Prefiltered(Chunk) \/ key \in cache
      /\ call' = [Behind(ChunkEnd(call.text, call.pos)) EXCEPT
                    !.stale = @ \/ (Prefiltered(Chunk) /\ key \in tainted)]
      /\ UNCHANGED <<engines, cache, tainted, lacking>>

(* The next chunk is given to the fast recognizers, of which those that    *)
(* fail are left out (_detect_chunk_fast), and recorded when it is clean.  *)
SearchChunk ==
  LET policy == call.policy
      key == Key(policy, Chunk)
  IN  /\ call.st = "searching"
      /\ Prefiltered(Chunk) /\ key \notin cache
      /\ \E gliner \in Loads(policy), failing \in SUBSET Layer :
           LET found == Kept(Chunk, Reports(Chunk, FastFind(Layer \ failing, policy, gliner)), policy)
               entry == IF found = {} /\ Room THEN {key} ELSE {}
           IN  /\ Load(policy, gliner)
               /\ call' = [Behind(ChunkEnd(call.text, call.pos)) EXCEPT
                             !.spans = @ \cup Placed(found, call.pos),
                             !.failed = @ \/ failing # {}]
               /\ cache' = cache \cup entry
               /\ tainted' = IF failing # {} THEN tainted \cup entry ELSE tainted

-----------------------------------------------------------------------------
\* The answer, or the error, is sent; the next request may come.
Return ==
  /\ call.st \in {"done", "error"}
  /\ call' = Idle
  /\ UNCHANGED <<engines, cache, tainted, lacking>>

\* The service ends and begins anew.
Restart ==
  /\ engines' = [policy \in Policy |-> NewEngine(policy)]
  /\ cache' = {} /\ tainted' = {} /\ lacking' = {}
  /\ call' = Idle

Next ==
  \/ \E text \in Text, policy \in Policy : DetectShort(text, policy) \/ DetectLong(text, policy)
  \/ ProbeLlm
  \/ AskLlm
  \/ SkipChunk
  \/ SearchChunk
  \/ Return
  \/ Restart

Spec == Init /\ [][Next]_vars

-----------------------------------------------------------------------------
(* Properties.                                                             *)

CallType ==
  [st : {"idle", "asking", "searching", "done", "error"},
   text : Text \cup {<<>>}, policy : Policy \cup {NoPolicy}, pos : Nat,
   spans : SUBSET (Nat \X Nat), llm : SUBSET (Int \X Int),
   asked : BOOLEAN, failed : BOOLEAN, stale : BOOLEAN]

\* The variables have their types, and the cache keeps to its size.
TypeOK ==
  /\ engines \in [Policy -> [gliner : {"unknown", "gliner2", "gliner", "off"},
                             llm : {"none", "unknown", "on", "off"}]]
  /\ IsFiniteSet(cache) /\ Cardinality(cache) <= CacheMax
  /\ \A e \in cache : e[1] \in Policy
  /\ tainted \subseteq cache
  /\ lacking \subseteq Policy \X {"gliner", "llm"}
  /\ call \in CallType /\ call.pos <= Len(call.text)

\* What may be reported at all under a policy: what its own configuration
\* asks for.  Of GLiNER's words, when its model is the fallback, only what
\* README.md:136 promises, what it is sure of to 85 percent.
Sought(policy, gliner) ==
  {w \in Word :
     /\ By[w] = "custom" => w \in policy.custom
     /\ By[w] = "entropy" => Entropy[w] >= policy.entropy
     /\ By[w] = "gliner" =>
          /\ gliner \in {"gliner2", "gliner"}
          /\ gliner = "gliner" /\ policy.fastino => Label[w] \notin V2Only /\ ScoreV1[w] >= 85}

\* What is reported is sought under the request's policy and stands in the
\* text, whichever request loaded the models, and found the other chunks
\* clean, before; the language model's spans lie in the text (ADR-7).
SpansReal ==
  call.st # "idle" =>
    /\ call.spans \subseteq Reports(call.text, Sought(call.policy, engines[call.policy].gliner))
    /\ \A s \in call.llm : 0 <= s[1] /\ s[1] < s[2] /\ s[2] <= Len(call.text)

\* The place lies in a line that, with its line end, is no longer than a
\* chunk is meant to be.
InShortLine(text, place) ==
  LET ends == {0, Len(text) + 1} \cup {k \in 1 .. Len(text) : text[k] = Newline}
  IN  \E a, b \in ends :
        /\ a <= place[1] /\ place[2] < b
        /\ \A k \in ends : k <= a \/ b <= k
        /\ b - a <= Target

\* No chunk border can fall into the place.
Uncut(text, place) == Len(text) <= ShortMax \/ InShortLine(text, place)

\* A text that was scrubbed before is scanned again with every request: no
\* recognizer but the search for blocks reports anything that touches one of
\* its placeholders, which a substitution would then tear apart.  The language
\* model's spans, which nothing holds against placeholders, are apart, and so
\* is a placeholder that a chunk's border may cut.
PlaceholdersLeft ==
  \A q \in Reports(call.text, Lookalike) : Uncut(call.text, q) =>
    \A p \in call.spans : Overlap(p, q) => Len(call.text) > ShortMax /\ p \in Reports(call.text, Block)

\* What a request must find: in a short text all that its layers find, in a
\* long one what the fast recognizers find and the prefilter does not keep
\* from them, but for what the engine drops.
Due ==
  LET policy == call.policy
      gliner == engines[policy].gliner
      words == IF Len(call.text) <= ShortMax THEN AllFind(Layer, policy, gliner)
               ELSE {w \in FastFind(Layer, policy, gliner) : Prefiltered(w)}
  IN  {p \in Kept(call.text, Reports(call.text, words), policy) : Uncut(call.text, p)}

\* Wherever the text was cut, and whatever was recorded under other policies
\* and for other texts, a request in which nothing failed reports all that,
\* unless an earlier failure hides it.
NothingMissed ==
  call.st = "done" /\ ~call.failed /\ ~call.stale => Due \subseteq call.spans

\* A short text goes without a layer its policy enables only if, under this
\* very policy, the layer's model failed to load or a probe of it failed, be it
\* the first or one after a lost connection.  Another policy's failure does not
\* turn it off, and neither does the loss of a connection itself: the next
\* request probes again.
LayersTried ==
  /\ call.st = "done" /\ Len(call.text) <= ShortMax /\ call.policy.llm =>
       call.asked \/ <<call.policy, "llm">> \in lacking
  /\ \A policy \in Policy : engines[policy].gliner = "off" => <<policy, "gliner">> \in lacking

\* docs/architecture.md:43, "An SSH key, cloud token, VPN config, DB URL with
\* password, or JWT must never leave the machine": what the rules of
\* gitleaks.py find is reported, unless it is allowed or a recognizer failed.
SecretsReported ==
  call.st = "done" /\ ~call.failed /\ ~call.stale =>
    \A p \in Reports(call.text, GitleaksFinds) :
      Uncut(call.text, p) /\ ~Allowed(call.text, p, call.policy) => p \in call.spans
=============================================================================
