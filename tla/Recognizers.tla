---------------------------- MODULE Recognizers -----------------------------
(***************************************************************************)
(* What the service's recognizers find in a text (recognizers/*.py) and    *)
(* what the engine makes of it (engine.py, _detect_single and              *)
(* _detect_chunk_fast).                                                    *)
(*                                                                         *)
(* A text is a sequence of characters, a word what one recognizer finds    *)
(* wherever it stands; the rules and models themselves are left out.  A    *)
(* span is the pair of its start and its end.  Scores are in percent.      *)
(* Presidio's recognizers may be missing altogether (engine.py:84-91); on  *)
(* such a host no word is of that layer.                                   *)
(***************************************************************************)
EXTENDS SequencesExt, Integers

CONSTANTS
  Word,          \* what the recognizers find
  By,            \* the layer that finds each word
  Score,         \* how sure its recognizer is of a word
  ScoreV1,       \* how sure the fallback model is of a word of GLiNER's
  Entropy,       \* of a word that the entropy layer looks at
  Label,         \* GLiNER's label of each word
  DefaultLabels, \* the labels it looks for when none are configured
  V2Only,        \* the labels the fallback model was not trained on
  Nlp,           \* Presidio's words that take the language pipeline
  Lookalike,     \* placeholders, and what looks like a format-preserving one
  Block          \* private keys, which may span lines

Layer == {"gitleaks", "entropy", "presidio", "gliner", "custom"}

ASSUME WordAssumption ==
  /\ Word \cup Lookalike \subseteq Seq(Int) \ {<<>>} /\ Block \subseteq Word
  /\ By \in [Word -> Layer] /\ \A w \in Block : By[w] = "gitleaks"
  /\ Nlp \subseteq {w \in Word : By[w] = "presidio"}
ASSUME ScoreAssumption ==
  Score \in [Word -> Nat] /\ ScoreV1 \in [Word -> Nat] /\ Entropy \in [Word -> Nat]

\* Where the given words occur in a text.
Places(text, w) ==
  {<<k, k + Len(w)>> : k \in {j \in 0 .. Len(text) - Len(w) : SubSeq(text, j + 1, j + Len(w)) = w}}

Reports(text, words) == UNION {Places(text, w) : w \in words}

Overlap(p, q) == p[1] < q[2] /\ q[1] < p[2]

-----------------------------------------------------------------------------
(* GLiNER: the package that could be loaded, "gliner2" or "gliner", decides *)
(* about labels and threshold.  policy.fastino says that the configured     *)
(* model is one that only gliner2 can load.                                 *)

\* A threshold of 0 counts as none configured (engine.py, _build_analyzer).
Configured(policy) == IF policy.threshold = 0 THEN 50 ELSE policy.threshold

FallsBack(policy, backend) == backend = "gliner" /\ policy.fastino

\* Bug: the fallback keeps the configured threshold.
ThresholdUnraised(policy, backend) == Configured(policy)

\* The threshold is raised to 0.85 for the fallback model.
Threshold(policy, backend) ==
  IF FallsBack(policy, backend) /\ Configured(policy) < 85 THEN 85 ELSE Configured(policy)

Labels(policy, backend) ==
  LET labels == IF policy.labels = {} THEN DefaultLabels ELSE policy.labels
  IN  IF FallsBack(policy, backend) THEN labels \ V2Only ELSE labels

Sureness(w, policy, backend) == IF FallsBack(policy, backend) THEN ScoreV1[w] ELSE Score[w]

\* GlinerRecognizer.analyze.
GlinerFinds(policy, backend) ==
  {w \in Word :
     /\ By[w] = "gliner" /\ backend \in {"gliner2", "gliner"}
     /\ Label[w] \in Labels(policy, backend)
     /\ Sureness(w, policy, backend) >= Threshold(policy, backend)
     /\ Sureness(w, policy, backend) >= 30}

-----------------------------------------------------------------------------
(* The other layers.  What scores below 0.3 is dropped by the engine.      *)

\* The rules of gitleaks.py.
GitleaksFinds == {w \in Word : By[w] = "gitleaks"}

\* EntropyRecognizer.analyze.
EntropyFinds(policy) == {w \in Word : By[w] = "entropy" /\ Entropy[w] >= policy.entropy}

PresidioFinds == {w \in Word : By[w] = "presidio" /\ Score[w] >= 30}

\* load_custom_recognizers.
CustomFinds(policy) == {w \in Word : By[w] = "custom" /\ w \in policy.custom}

\* What a layer finds under a policy, given the package GLiNER runs on.
Finds(layer, policy, backend) ==
  CASE layer = "gitleaks" -> GitleaksFinds
    [] layer = "entropy"  -> EntropyFinds(policy)
    [] layer = "presidio" -> PresidioFinds
    [] layer = "gliner"   -> GlinerFinds(policy, backend)
    [] layer = "custom"   -> CustomFinds(policy)

AllFind(layers, policy, backend) == UNION {Finds(layer, policy, backend) : layer \in layers}

\* _get_pattern_recognizers: the recognizers that long texts get.
FastFind(layers, policy, backend) == AllFind(layers, policy, backend) \ Nlp

-----------------------------------------------------------------------------
(* What the engine drops of the findings.                                  *)

\* Bug: only what lies within a placeholder is dropped.
TouchesInside(text, p) == \E q \in Reports(text, Lookalike) : q[1] <= p[1] /\ p[2] <= q[2]

\* What overlaps a placeholder, or what looks like a format-preserving one.
Touches(text, p) == \E q \in Reports(text, Lookalike) : Overlap(p, q)

Allowed(text, p, policy) == SubSeq(text, p[1] + 1, p[2]) \in policy.allow

Kept(text, places, policy) == {p \in places : ~Touches(text, p) /\ ~Allowed(text, p, policy)}
=============================================================================
