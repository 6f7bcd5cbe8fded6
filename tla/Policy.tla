------------------------------- MODULE Policy -------------------------------
(***************************************************************************)
(* The service's policies and how the layers of one are merged             *)
(* (policy.py): in personal mode later layers win, in org mode a local     *)
(* file may only tighten the central policy.                               *)
(*                                                                         *)
(* Lists without duplicates are sets, written in one order; the list of    *)
(* literals, to which the merge appends whatever comes, is a sequence and  *)
(* stands for the patterns too.  A signed policy is whatever file was      *)
(* signed.  A list of it that is not there counts as empty, but for that   *)
(* of the labels GLiNER looks for, where it makes a difference.            *)
(***************************************************************************)
EXTENDS Integers, Sequences

CONSTANTS
  Path, Value, Label, Literal,
  Absent,           \* of a field that is not given, and of what does not exist
  Null,             \* of labels given as null
  Default,          \* DEFAULTS: the policy no file has changed
  DefaultLabels,    \* what GLiNER looks for if it is given no labels
  DefaultThreshold, \* and the score it asks for if it is given none
  DefaultEntropy    \* the entropy a string must have, if no other is given

FailOpen == BOOLEAN \cup {Absent}
Labels == {Absent, Null} \cup SUBSET Label
Threshold == {Absent} \cup Nat

\* The service's configuration, and what an org signs.
Config ==
  [deny : SUBSET Path, literals : Seq(Literal), labels : Labels, allow : SUBSET Value,
   threshold : Threshold, entropy : Threshold, fail_open : FailOpen]

\* A local file.  An empty set of paths, or no literals, is the same as none
\* given.
LocalFile ==
  [deny : SUBSET Path, literals : Seq(Literal), labels : Labels, allow : {Absent} \cup SUBSET Value,
   threshold : Threshold, entropy : Threshold, fail_open : FailOpen]

ASSUME AbsentAssumption ==
  /\ \A s \in (SUBSET Label) \cup (SUBSET Value) : s # Absent
  /\ Absent \notin Nat /\ Absent \notin BOOLEAN
  /\ Absent \notin LocalFile /\ Absent \notin Config
ASSUME NullAssumption == Null # Absent /\ \A s \in SUBSET Label : s # Null
ASSUME DefaultAssumption ==
  /\ Default \in Config /\ Default.labels \in SUBSET Label
  /\ Default.fail_open = FALSE
ASSUME DetectorAssumption ==
  DefaultLabels \in (SUBSET Label) \ {{}} /\ DefaultThreshold \in Nat \ {0} /\ DefaultEntropy \in Nat

Given(field, default) == IF field = Absent THEN default ELSE field

-----------------------------------------------------------------------------
(* _deep_merge of the defaults and the local file: lists are appended, the *)
(* rest is replaced, a list by null too.                                   *)
DeepMerge(base, local) ==
  [deny |-> base.deny \cup local.deny,
   literals |-> base.literals \o local.literals,
   labels |-> IF local.labels = Null THEN Null ELSE base.labels \cup Given(local.labels, {}),
   allow |-> base.allow \cup Given(local.allow, {}),
   threshold |-> Given(local.threshold, base.threshold),
   entropy |-> Given(local.entropy, base.entropy),
   fail_open |-> Given(local.fail_open, base.fail_open)]

\* load_policy without a central policy.
Personal(local) == IF local = Absent THEN Default ELSE DeepMerge(Default, local)

\* Whether _tighten_merge runs through: labels that are null are iterated, the
\* central policy's if the file has labels.
Mergeable(central, local) ==
  local = Absent \/ local.labels = Absent \/ (local.labels # Null /\ central.labels # Null)

\* Bug: the allow lists are joined.
AllowEither(central, local) == central.allow \cup Given(local.allow, {})

AllowBoth(central, local) == central.allow \cap Given(local.allow, central.allow)

\* The first label the file adds makes the list, if the policy has none.
LabelsOfBoth(central, local) ==
  IF local.labels \in {Absent, {}} THEN central.labels
  ELSE Given(central.labels, {}) \cup local.labels

\* A threshold, if both give it.
Lowered(central, local) ==
  IF local # Absent /\ central # Absent /\ local < central THEN local ELSE central

\* _tighten_merge.
Tighten(central, local) ==
  [deny |-> central.deny \cup local.deny,
   literals |-> central.literals \o local.literals,
   labels |-> LabelsOfBoth(central, local),
   allow |-> AllowBoth(central, local),
   threshold |-> Lowered(central.threshold, local.threshold),
   entropy |-> Lowered(central.entropy, local.entropy),
   fail_open |-> FALSE]

\* load_policy with a central policy and a local file that can be merged.
UnderCentral(central, local) ==
  LET closed == [central EXCEPT !.fail_open = FALSE]
  IN  IF local = Absent THEN closed ELSE Tighten(closed, local)

-----------------------------------------------------------------------------
(* What a configuration detects.                                           *)

\* _build_analyzer, GlinerRecognizer: no labels are the default ones, and a
\* threshold of zero is the default one.  An entropy of zero is zero.
LabelsOf(c) == IF c.labels \in {Absent, Null, {}} THEN DefaultLabels ELSE c.labels
ThresholdOf(c) == IF c.threshold \in {Absent, 0} THEN DefaultThreshold ELSE c.threshold
EntropyOf(c) == Given(c.entropy, DefaultEntropy)

\* c denies all that d does and its rules report all that d's do, and it never
\* fails open.
StricterRules(c, d) ==
  /\ d.deny \subseteq c.deny /\ c.allow \subseteq d.allow
  /\ Len(d.literals) <= Len(c.literals)
  /\ \A i \in 1 .. Len(d.literals) : c.literals[i] = d.literals[i]
  /\ EntropyOf(c) <= EntropyOf(d)
  /\ c.fail_open = FALSE

\* GLiNER looks for all labels under c that it looks for under d, and asks for
\* no higher score.
StricterGliner(c, d) == LabelsOf(d) \subseteq LabelsOf(c) /\ ThresholdOf(c) <= ThresholdOf(d)

Stricter(c, d) == StricterRules(c, d) /\ StricterGliner(c, d)

\* The two ways in which a local file loosens a central policy: its labels take
\* the place of the default ones, where the policy lists none; and it lowers a
\* threshold below the default one to zero, which is the default one.
Loosens(central, local) ==
  /\ local # Absent
  /\ \/ /\ central.labels \in {Absent, {}} /\ local.labels \notin {Absent, Null, {}}
        /\ ~(DefaultLabels \subseteq local.labels)
     \/ local.threshold = 0 /\ central.threshold \notin {Absent, 0} /\ central.threshold < DefaultThreshold
=============================================================================
