------------------------- MODULE ScrubSessionProofs -------------------------
(***************************************************************************)
(* The safety properties of ScrubSession for any values, events and texts. *)
(***************************************************************************)
EXTENDS ScrubSession, TLAPS

\* A block that is done holds nothing the service always detects; one whose
\* substitutions are under way holds only what is still to be replaced.
BlockClean(b) ==
  /\ b.st = "done" => b.raw \cap Detectable = {}
  /\ b.st = "substituting" => b.raw \cap Detectable \subseteq b.todo

Blocks(e) == {block[e][i] : i \in DOMAIN block[e]}

\* What a result says of the event's blocks.
ResultOK(e) ==
  /\ result[e] = "none" => DOMAIN block[e] = {}
  /\ result[e] = "pending" => \A b \in Blocks(e) : b.st # "failed"
  /\ result[e] = "delivered" => \A b \in Blocks(e) : b.st = "done"
  /\ result[e] \in {"withheld", "rejected"} => e \in barred \/ \E b \in Blocks(e) : b.st = "failed"
  /\ e \in barred => result[e] = "withheld" /\ DOMAIN block[e] = {}

(***************************************************************************)
(* The inductive invariant.  A verification that failed has not been       *)
(* taken back (refused = policyFailed), and what a scan reported is known  *)
(* to the vault, or is about to be, by the substitutions that are running  *)
(* (Reported).                                                             *)
(***************************************************************************)
Reported ==
  \A x \in detected : x \in known \/ \E e \in Event : \E b \in Blocks(e) : x \in b.todo

IndInv ==
  /\ TypeOK
  /\ DOMAIN block = Event
  /\ refused = policyFailed
  /\ \A e \in Event : \A b \in Blocks(e) : BlockClean(b)
  /\ \A e \in Event : ResultOK(e)
  /\ Reported

-----------------------------------------------------------------------------
\* Nothing has happened in an initial state.
LEMMA InitInv == Init => IndInv
<1> SUFFICES ASSUME Init PROVE IndInv
  OBVIOUS
<1>1. \A e \in Event : DOMAIN block[e] = {} /\ Blocks(e) = {}
  BY DEF Init, Blocks
<1>2. TypeOK
  BY <1>1 DEF Init, TypeOK
<1>3. Reported /\ \A e \in Event : ResultOK(e)
  BY <1>1 DEF Init, Reported, ResultOK
<1> QED BY <1>1, <1>2, <1>3 DEF IndInv, Init

\* A session start only changes what is known of the policy.
LEMMA SessionStartInv ==
  ASSUME IndInv, NEW verified \in BOOLEAN, SessionStart(verified)
  PROVE  IndInv'
<1>1. /\ policyFailed' = (policyFailed \/ ~verified) /\ refused' = (refused \/ ~verified)
      /\ UNCHANGED <<known, result, block, request, detected, barred>>
  BY DEF SessionStart
<1>2. \A f \in Event : Blocks(f)' = Blocks(f)
  BY <1>1 DEF Blocks
<1>3. policyFailed' \in BOOLEAN /\ refused' \in BOOLEAN /\ refused' = policyFailed'
  BY <1>1 DEF IndInv, TypeOK
<1>4. TypeOK'
  BY <1>1, <1>3 DEF IndInv, TypeOK
<1>5. Reported' /\ \A f \in Event : ResultOK(f)' /\ \A b \in Blocks(f)' : BlockClean(b)
  BY <1>1, <1>2 DEF IndInv, Reported, ResultOK
<1> QED BY <1>1, <1>3, <1>4, <1>5 DEF IndInv, BlockClean

\* A resume comes while no substitution runs; the restored values are known.
LEMMA ResumeInv ==
  ASSUME IndInv, NEW saved \in Saved, Resume(saved)
  PROVE  IndInv'
<1>1. /\ known' = saved /\ detected' = saved /\ saved \subseteq Value
      /\ UNCHANGED <<policyFailed, result, block, request, refused, barred>>
  BY SavedAssumption DEF Resume
<1>2. \A f \in Event : Blocks(f)' = Blocks(f)
  BY <1>1 DEF Blocks
<1>3. TypeOK'
  BY <1>1 DEF IndInv, TypeOK
<1>4. Reported'
  BY <1>1 DEF Reported
<1>5. \A f \in Event : ResultOK(f)' /\ \A b \in Blocks(f)' : BlockClean(b)
  BY <1>1, <1>2 DEF IndInv, ResultOK
<1> QED BY <1>1, <1>3, <1>4, <1>5 DEF IndInv, BlockClean

\* A hook that is called after a failed verification withholds everything.
LEMMA WithheldInv ==
  ASSUME IndInv, NEW e \in Event, Called(e), policyFailed, Withheld(e)
  PROVE  IndInv'
<1>1. /\ result[e] = "none" /\ DOMAIN block[e] = {} /\ barred' = barred \cup {e}
      /\ result' = [result EXCEPT ![e] = "withheld"]
      /\ UNCHANGED <<policyFailed, known, block, request, detected, refused>>
  BY DEF Called, Withheld, IndInv, ResultOK
<1>2. \A f \in Event : Blocks(f)' = Blocks(f)
  BY <1>1 DEF Blocks
<1>3. TypeOK'
  BY <1>1 DEF IndInv, TypeOK
<1>4. \A f \in Event : ResultOK(f)'
  BY <1>1, <1>2 DEF IndInv, TypeOK, ResultOK
<1>5. Reported' /\ \A f \in Event : \A b \in Blocks(f)' : BlockClean(b)
  BY <1>1, <1>2 DEF IndInv, Reported
<1> QED BY <1>1, <1>3, <1>4, <1>5 DEF IndInv, BlockClean

\* One that goes on brings in blocks that wait for the service.
LEMMA ScannedInv ==
  ASSUME IndInv, NEW e \in Event, NEW texts, DOMAIN texts \subseteq Index(e),
         \A i \in DOMAIN texts : texts[i] \subseteq Value,
         Called(e), ~policyFailed, Scanned(e, texts)
  PROVE  IndInv'
<1> DEFINE new == [i \in DOMAIN texts |-> Waiting(texts[i])]
<1>1. /\ result[e] = "none" /\ DOMAIN block[e] = {} /\ e \notin barred
      /\ result' = [result EXCEPT ![e] = "pending"]
      /\ block' = [block EXCEPT ![e] = new]
      /\ UNCHANGED <<policyFailed, known, request, detected, refused, barred>>
  BY DEF Called, Scanned, IndInv, ResultOK
<1>2. \A i \in DOMAIN new : /\ new[i] = Waiting(texts[i])
                           /\ BlockOK(new[i]) /\ new[i].st = "waiting"
  BY DEF Waiting, BlockOK
<1>3. DOMAIN new \subseteq Index(e)
  OBVIOUS
<1> HIDE DEF new
<1>4. /\ block'[e] = new
      /\ \A f \in Event \ {e} : block'[f] = block[f] /\ result'[f] = result[f]
      /\ result'[e] = "pending"
  BY <1>1 DEF IndInv, TypeOK
<1>5. Blocks(e)' = {new[i] : i \in DOMAIN new} /\ \A f \in Event \ {e} : Blocks(f)' = Blocks(f)
  BY <1>4 DEF Blocks
<1>6. TypeOK'
  <2>1. result' \in [Event -> {"none", "pending", "delivered", "withheld", "rejected"}]
    BY <1>1 DEF IndInv, TypeOK
  <2>2. \A f \in Event : DOMAIN block'[f] \subseteq Index(f) /\ \A i \in DOMAIN block'[f] : BlockOK(block'[f][i])
    BY <1>2, <1>3, <1>4 DEF IndInv, TypeOK
  <2> QED BY <1>1, <2>1, <2>2 DEF IndInv, TypeOK
<1>7. \A f \in Event : ResultOK(f)'
  BY <1>1, <1>2, <1>4, <1>5 DEF IndInv, ResultOK
<1>8. \A f \in Event : \A b \in Blocks(f)' : BlockClean(b)
  BY <1>2, <1>5 DEF IndInv, BlockClean
<1>9. Reported'
  <2>1. Blocks(e) = {}
    BY <1>1 DEF Blocks
  <2> QED BY <1>1, <1>5, <2>1 DEF IndInv, Reported
<1> QED BY <1>1, <1>6, <1>7, <1>8, <1>9 DEF IndInv, BlockClean

\* Changing one block changes one member of the event's blocks.
LEMMA OneBlock ==
  ASSUME IndInv, NEW e \in Event, NEW i \in DOMAIN block[e], NEW r,
         block' = [block EXCEPT ![e][i] = r]
  PROVE  /\ DOMAIN block' = Event
         /\ \A f \in Event : DOMAIN block'[f] = DOMAIN block[f]
         /\ block'[e][i] = r
         /\ \A f \in Event : \A j \in DOMAIN block[f] :
              f # e \/ j # i => block'[f][j] = block[f][j]
BY DEF IndInv

\* What a step of one block does to its event's result: a failure settles an
\* event that is pending, and nothing else changes it.
Settles(e, r) ==
  \/ r.st # "failed" /\ result' = result
  \/ /\ r.st = "failed"
     /\ \E outcome \in {"withheld", "rejected"} :
          result' = [result EXCEPT ![e] = IF @ = "pending" THEN outcome ELSE @]

\* The step of one block, whatever it is.
LEMMA BlockInv ==
  ASSUME IndInv, NEW e \in Event, NEW i \in DOMAIN block[e], NEW r,
         block' = [block EXCEPT ![e][i] = r],
         BlockOK(r), BlockClean(r),
         block[e][i].st \in {"waiting", "substituting"},
         Settles(e, r),
         known' \subseteq Value, detected' \subseteq Value,
         UNCHANGED <<policyFailed, request, refused, barred>>,
         \A x \in detected' : \/ x \in known' \/ x \in r.todo
                              \/ x \in detected /\ x \notin known /\ x \notin block[e][i].todo,
         known \subseteq known'
  PROVE  IndInv'
<1>1. /\ DOMAIN block' = Event
      /\ \A f \in Event : DOMAIN block'[f] = DOMAIN block[f]
      /\ block'[e][i] = r
      /\ \A f \in Event : \A j \in DOMAIN block[f] :
           f # e \/ j # i => block'[f][j] = block[f][j]
  BY OneBlock
<1>2. TypeOK'
  <2>1. result' \in [Event -> {"none", "pending", "delivered", "withheld", "rejected"}]
    BY DEF IndInv, TypeOK, Settles
  <2>2. \A f \in Event : DOMAIN block'[f] \subseteq Index(f) /\ \A j \in DOMAIN block'[f] : BlockOK(block'[f][j])
    BY <1>1 DEF IndInv, TypeOK
  <2> QED BY <2>1, <2>2 DEF IndInv, TypeOK
<1>3. \A f \in Event : \A b \in Blocks(f)' : b = r \/ b \in Blocks(f)
  BY <1>1 DEF Blocks
<1>4. r \in Blocks(e)' /\ \A f \in Event : \A b \in Blocks(f) : b = block[e][i] \/ b \in Blocks(f)'
  BY <1>1 DEF Blocks
<1>5. \A f \in Event : f # e => Blocks(f)' = Blocks(f)
  BY <1>1 DEF Blocks
<1>6. \A f \in Event : \A b \in Blocks(f)' : BlockClean(b)
  BY <1>3 DEF IndInv
<1>7. \A f \in Event : ResultOK(f)'
  <2> SUFFICES ASSUME NEW f \in Event PROVE ResultOK(f)'
    OBVIOUS
  <2>1. block[e][i] \in Blocks(e)
    BY DEF Blocks
  <2>2. CASE f # e
    <3>1. result'[f] = result[f] /\ DOMAIN block'[f] = DOMAIN block[f] /\ Blocks(f)' = Blocks(f)
      BY <1>1, <1>5, <2>2 DEF IndInv, TypeOK, Settles
    <3> QED BY <3>1 DEF IndInv, ResultOK
  <2>3. CASE f = e
    <3>1. e \notin barred /\ result[e] \in {"pending", "withheld", "rejected"}
      BY <2>1 DEF IndInv, TypeOK, ResultOK, Blocks
    <3>2. CASE r.st = "failed"
      <4>1. result'[e] \in {"withheld", "rejected"}
        BY <3>1, <3>2 DEF IndInv, TypeOK, Settles
      <4> QED BY <1>4, <2>3, <3>1, <3>2, <4>1 DEF ResultOK
    <3>3. CASE r.st # "failed"
      <4>1. result'[e] = result[e]
        BY <3>3 DEF Settles
      <4>2. result[e] = "pending" => \A b \in Blocks(e)' : b.st # "failed"
        BY <1>3, <3>3 DEF IndInv, ResultOK
      <4>3. result[e] \in {"withheld", "rejected"} => \E b \in Blocks(e)' : b.st = "failed"
        BY <1>4, <3>1 DEF IndInv, ResultOK
      <4> QED BY <2>3, <3>1, <4>1, <4>2, <4>3 DEF ResultOK
    <3> QED BY <3>2, <3>3
  <2> QED BY <2>2, <2>3
<1>8. Reported'
  <2> SUFFICES ASSUME NEW x \in detected', x \notin known'
               PROVE  \E f \in Event : \E b \in Blocks(f)' : x \in b.todo
    BY DEF Reported
  <2>1. CASE x \in r.todo
    BY <1>4, <2>1
  <2>2. CASE x \in detected /\ x \notin known /\ x \notin block[e][i].todo
    <3>1. PICK f \in Event : \E b \in Blocks(f) : x \in b.todo
      BY <2>2 DEF IndInv, Reported
    <3> QED BY <1>4, <2>2, <3>1
  <2> QED BY <2>1, <2>2
<1> QED BY <1>1, <1>2, <1>6, <1>7, <1>8 DEF IndInv, BlockClean

\* An answer: what it reports is now to be replaced.
LEMMA AnswerInv ==
  ASSUME IndInv, NEW e \in Event, NEW i \in DOMAIN block[e], NEW found, Answer(e, i, found)
  PROVE  IndInv'
<1> DEFINE b == block[e][i]
           r == [b EXCEPT !.st = IF found = {} THEN "done" ELSE "substituting", !.todo = found]
<1>1. /\ block' = [block EXCEPT ![e][i] = r] /\ b.st = "waiting"
      /\ b.raw \cap Detectable \subseteq found /\ found \subseteq b.raw
      /\ detected' = detected \cup found
      /\ UNCHANGED <<policyFailed, known, result, request, refused, barred>>
  BY DEF Answer
<1>2. BlockOK(b)
  BY DEF IndInv, TypeOK
<1>3. BlockOK(r) /\ BlockClean(r) /\ r.st # "failed" /\ r.todo = found
  BY <1>1, <1>2 DEF BlockOK, BlockClean
<1>4. b.todo = {}
  BY <1>1, <1>2 DEF BlockOK
<1>5. known' \subseteq Value /\ detected' \subseteq Value
  BY <1>1, <1>2 DEF IndInv, TypeOK, BlockOK
<1> HIDE DEF r
<1>6. b.st \in {"waiting", "substituting"} /\ Settles(e, r)
  BY <1>1, <1>3 DEF Settles
<1>7. \A x \in detected' : x \in known' \/ x \in r.todo \/ (x \in detected /\ x \notin known /\ x \notin b.todo)
  BY <1>1, <1>3, <1>4
<1>8. /\ UNCHANGED <<policyFailed, request, refused, barred>>
      /\ known \subseteq known' /\ block' = [block EXCEPT ![e][i] = r]
      /\ BlockOK(r) /\ BlockClean(r)
  BY <1>1, <1>3
<1> QED BY <1>5, <1>6, <1>7, <1>8, BlockInv, Zenon

\* A failed request settles its event, unless another did.
LEMMA FailedInv ==
  ASSUME IndInv, NEW e \in Event, NEW i \in DOMAIN block[e],
         NEW outcome \in {"withheld", "rejected"}, Failed(e, i, outcome)
  PROVE  IndInv'
<1> DEFINE b == block[e][i]
           r == [b EXCEPT !.st = "failed"]
<1>1. /\ block' = [block EXCEPT ![e][i] = r] /\ b.st = "waiting"
      /\ result' = [result EXCEPT ![e] = IF @ = "pending" THEN outcome ELSE @]
      /\ UNCHANGED <<policyFailed, known, request, detected, refused, barred>>
  BY DEF Failed
<1>2. BlockOK(b)
  BY DEF IndInv, TypeOK
<1>3. BlockOK(r) /\ BlockClean(r) /\ r.st = "failed" /\ r.todo = {}
  BY <1>1, <1>2 DEF BlockOK, BlockClean
<1>4. b.todo = {}
  BY <1>1, <1>2 DEF BlockOK
<1> HIDE DEF r
<1>5. known' \subseteq Value /\ detected' \subseteq Value
  BY <1>1 DEF IndInv, TypeOK
<1>6. b.st \in {"waiting", "substituting"} /\ Settles(e, r)
  BY <1>1, <1>3 DEF Settles
<1>7. \A x \in detected' : x \in known' \/ x \in r.todo \/ (x \in detected /\ x \notin known /\ x \notin b.todo)
  BY <1>1, <1>4
<1>8. /\ UNCHANGED <<policyFailed, request, refused, barred>>
      /\ known \subseteq known' /\ block' = [block EXCEPT ![e][i] = r]
      /\ BlockOK(r) /\ BlockClean(r)
  BY <1>1, <1>3
<1> QED BY <1>5, <1>6, <1>7, <1>8, BlockInv, Zenon

\* One substitution: the value leaves the text and enters the vault.
LEMMA SubstituteInv ==
  ASSUME IndInv, NEW e \in Event, NEW i \in DOMAIN block[e], NEW x, Substitute(e, i, x)
  PROVE  IndInv'
<1> DEFINE b == block[e][i]
           r == [text |-> b.text, raw |-> b.raw \ {x},
                 st |-> IF b.todo = {x} THEN "done" ELSE "substituting",
                 todo |-> b.todo \ {x}]
<1>1. /\ block' = [block EXCEPT ![e][i] = r] /\ x \in b.todo /\ known' = known \cup {x}
      /\ UNCHANGED <<policyFailed, result, request, detected, refused, barred>>
  BY DEF Substitute, Remembered
<1>2. BlockOK(b) /\ BlockClean(b)
  BY DEF IndInv, TypeOK, Blocks
<1>3. b.st = "substituting" /\ x \in Value
  BY <1>1, <1>2 DEF BlockOK
<1>4. BlockOK(r) /\ BlockClean(r) /\ r.st # "failed" /\ r.todo = b.todo \ {x}
  BY <1>1, <1>2, <1>3 DEF BlockOK, BlockClean
<1> HIDE DEF r
<1>5. known' \subseteq Value /\ detected' \subseteq Value
  BY <1>1, <1>3 DEF IndInv, TypeOK
<1>6. b.st \in {"waiting", "substituting"} /\ Settles(e, r)
  BY <1>1, <1>3, <1>4 DEF Settles
<1>7. \A y \in detected' : y \in known' \/ y \in r.todo \/ (y \in detected /\ y \notin known /\ y \notin b.todo)
  BY <1>1, <1>4
<1>8. /\ UNCHANGED <<policyFailed, request, refused, barred>>
      /\ known \subseteq known' /\ block' = [block EXCEPT ![e][i] = r]
      /\ BlockOK(r) /\ BlockClean(r)
  BY <1>1, <1>4
<1> QED BY <1>5, <1>6, <1>7, <1>8, BlockInv, Zenon

\* Delivering and sending leave the blocks alone.
LEMMA DeliverInv ==
  ASSUME IndInv, NEW e \in Event, Deliver(e)
  PROVE  IndInv'
<1>1. /\ result' = [result EXCEPT ![e] = "delivered"] /\ result[e] = "pending"
      /\ \A b \in Blocks(e) : b.st = "done"
      /\ UNCHANGED <<policyFailed, known, block, request, detected, refused, barred>>
  BY DEF Deliver, Blocks
<1>2. \A f \in Event : Blocks(f)' = Blocks(f)
  BY <1>1 DEF Blocks
<1>3. TypeOK'
  BY <1>1 DEF IndInv, TypeOK
<1>4. \A f \in Event : ResultOK(f)'
  BY <1>1, <1>2 DEF IndInv, TypeOK, ResultOK
<1>5. Reported' /\ \A f \in Event : \A b \in Blocks(f)' : BlockClean(b)
  BY <1>1, <1>2 DEF IndInv, Reported
<1> QED BY <1>1, <1>3, <1>4, <1>5 DEF IndInv, BlockClean

LEMMA ProviderRequestInv ==
  ASSUME IndInv, NEW e \in Rescan, ProviderRequest(e)
  PROVE  IndInv'
<1>1. /\ request' \in [Rescan -> {"none", "sent", "aborted"}]
      /\ UNCHANGED <<policyFailed, known, result, block, detected, refused, barred>>
  BY DEF ProviderRequest, IndInv, TypeOK
<1>2. \A f \in Event : Blocks(f)' = Blocks(f)
  BY <1>1 DEF Blocks
<1>3. TypeOK'
  BY <1>1 DEF IndInv, TypeOK
<1>4. Reported' /\ \A f \in Event : ResultOK(f)' /\ \A b \in Blocks(f)' : BlockClean(b)
  BY <1>1, <1>2 DEF IndInv, Reported, ResultOK
<1> QED BY <1>1, <1>3, <1>4 DEF IndInv, BlockClean

-----------------------------------------------------------------------------
\* What a rescan takes from the log is text over the values.
LEMMA LogOK ==
  ASSUME IndInv
  PROVE  DOMAIN Log \subseteq Ingress \X Nat /\ \A i \in DOMAIN Log : Log[i] \subseteq Value
<1>1. ASSUME NEW e \in Ingress
      PROVE  /\ DOMAIN Yield(e) \subseteq {e} \X Nat
             /\ \A i \in DOMAIN Yield(e) : Yield(e)[i] \subseteq Value
  <2>1. CASE result[e] = "delivered"
    BY <2>1 DEF Yield, IndInv, TypeOK, BlockOK, Event, Index
  <2>2. CASE result[e] = "withheld"
    BY <2>2 DEF Yield
  <2>3. CASE result[e] = "rejected"
    BY <2>3 DEF Yield, IndInv, TypeOK, BlockOK, Event, Index
  <2>4. CASE result[e] \notin {"delivered", "withheld", "rejected"}
    BY <2>4 DEF Yield
  <2> QED BY <2>1, <2>2, <2>3, <2>4
<1>2. DOMAIN Log \subseteq Ingress \X Nat
  BY <1>1 DEF Log
<1>3. ASSUME NEW i \in DOMAIN Log PROVE Log[i] \subseteq Value
  <2>1. PICK e \in Ingress : i \in DOMAIN Yield(e)
    BY DEF Log
  <2>2. i[1] = e
    BY <1>1, <2>1
  <2>3. Log[i] = Yield(e)[i]
    BY <2>2 DEF Log
  <2> QED BY <1>1, <2>1, <2>3
<1> QED BY <1>2, <1>3

\* Every step preserves the inductive invariant.
LEMMA NextInv == IndInv /\ [Next]_vars => IndInv'
<1> SUFFICES ASSUME IndInv, [Next]_vars PROVE IndInv'
  OBVIOUS
<1>1. CASE UNCHANGED vars
  BY <1>1 DEF vars, IndInv, TypeOK, Reported, ResultOK, Blocks, BlockClean
<1>2. ASSUME NEW e \in Input, NEW text \in Text, InputHook(e, text) PROVE IndInv'
  <2> DEFINE brought == [i \in {<<e, 1>>} |-> text]
  <2>1. DOMAIN brought \subseteq Index(e) /\ \A i \in DOMAIN brought : brought[i] \subseteq Value
    BY TextAssumption DEF Index, Ingress
  <2>2. e \in Event /\ Called(e) /\ IF policyFailed THEN Withheld(e) ELSE Scanned(e, brought)
    BY <1>2 DEF InputHook, Event, Ingress
  <2> QED BY <2>1, <2>2, WithheldInv, ScannedInv
<1>3. ASSUME NEW e \in ToolResult, NEW texts \in Results, ToolResultHook(e, texts) PROVE IndInv'
  <2> DEFINE ix == {<<e, n>> : n \in DOMAIN texts}
             brought == [i \in ix |-> texts[i[2]]]
  <2>1. texts \in Seq(SUBSET Value)
    BY TextAssumption
  <2>2. DOMAIN brought \subseteq Index(e) /\ \A i \in DOMAIN brought : brought[i] \subseteq Value
    BY <2>1 DEF Index, Ingress
  <2>3. e \in Event /\ Called(e) /\ IF policyFailed THEN Withheld(e) ELSE Scanned(e, brought)
    BY <1>3 DEF ToolResultHook, Event, Ingress
  <2> QED BY <2>2, <2>3, WithheldInv, ScannedInv
<1>4. ASSUME NEW e \in Rescan, RescanHook(e) PROVE IndInv'
  <2>1. Index(e) = Ingress \X Nat
    BY EventAssumption DEF Index
  <2>2. e \in Event /\ Called(e) /\ IF policyFailed THEN Withheld(e) ELSE Scanned(e, Log)
    BY <1>4 DEF RescanHook, Event
  <2> QED BY <2>1, <2>2, LogOK, WithheldInv, ScannedInv
<1>5. ASSUME NEW e \in Event, Progress(e) PROVE IndInv'
  BY <1>5, DeliverInv, AnswerInv, FailedInv, SubstituteInv DEF Progress, Unavailable, Malformed
<1> QED BY <1>1, <1>2, <1>3, <1>4, <1>5, SessionStartInv, ResumeInv, ProviderRequestInv DEF Next

\* The inductive invariant holds throughout.
THEOREM Invariance == Spec => []IndInv
BY InitInv, NextInv, PTL DEF Spec

\* Every variable keeps its type.
THEOREM TypeCorrect == Spec => []TypeOK
<1>1. IndInv => TypeOK
  BY DEF IndInv
<1> QED BY <1>1, Invariance, PTL

\* What an event yields holds nothing the service always detects, unless its
\* hook rejected.
LEMMA YieldClean ==
  ASSUME IndInv, NEW e \in Event, result[e] # "rejected"
  PROVE  Payload(e) \cap Detectable = {}
<1> SUFFICES ASSUME NEW i \in DOMAIN Yield(e) PROVE Yield(e)[i] \cap Detectable = {}
  BY DEF Payload
<1>1. CASE result[e] = "delivered"
  <2>1. i \in DOMAIN block[e] /\ Yield(e)[i] = block[e][i].raw
    BY <1>1 DEF Yield
  <2>2. block[e][i] \in Blocks(e)
    BY <2>1 DEF Blocks
  <2> QED BY <1>1, <2>1, <2>2 DEF IndInv, ResultOK, BlockClean
<1>2. CASE result[e] = "withheld"
  BY <1>2 DEF Yield
<1>3. CASE result[e] \notin {"delivered", "withheld", "rejected"}
  BY <1>3 DEF Yield
<1> QED BY <1>1, <1>2, <1>3

\* Failing closed: whichever requests fail and in whatever order, what a hook
\* that returns puts into the log, and what a rescan that returns puts into a
\* sent payload, holds no value the service always detects.
THEOREM FailsClosed == Spec => []FailClosed
<1>1. IndInv => FailClosed
  BY YieldClean DEF FailClosed, Event
<1> QED BY <1>1, Invariance, PTL

\* Content is shown whole or withheld whole.
THEOREM Wholeness == Spec => []AllOrNothing
<1>1. IndInv => AllOrNothing
  BY DEF IndInv, ResultOK, Blocks, AllOrNothing
<1> QED BY <1>1, Invariance, PTL

\* Once a verification failed, every hook call is withheld without a scan,
\* whatever later verifications do.
THEOREM PolicyGate == Spec => []PolicyFailedWithholds
<1>1. IndInv => PolicyFailedWithholds
  BY DEF IndInv, TypeOK, ResultOK, PolicyFailedWithholds
<1> QED BY <1>1, Invariance, PTL

\* A long value that JSON writes as it is, and that some scan reported or a
\* resume restored, is in no payload sent before the next resume.
THEOREM ReportedNeverSent == Spec => DetectedNeverSent
<1> DEFINE A == \A e \in Rescan : request[e] = "none" /\ request'[e] = "sent" =>
                  Payload(e) \cap Long \cap Verbatim \cap detected = {}
<1>1. IndInv /\ [Next]_vars => [A]_vars
  <2> SUFFICES ASSUME IndInv, Next, NEW e \in Rescan,
                      request[e] = "none", request'[e] = "sent"
               PROVE  Payload(e) \cap Long \cap Verbatim \cap detected = {}
    OBVIOUS
  <2>1. request' # request
    OBVIOUS
  <2>2. PICK f \in Rescan : ProviderRequest(f)
    <3>1. ASSUME NEW g, Called(g) PROVE request' = request
      BY <3>1 DEF Called
    <3>2. ASSUME NEW g, Deliver(g) PROVE request' = request
      BY <3>2 DEF Deliver
    <3>3. ASSUME NEW g, NEW i, NEW found, Answer(g, i, found) PROVE request' = request
      BY <3>3 DEF Answer
    <3>4. ASSUME NEW g, NEW i, NEW outcome, Failed(g, i, outcome) PROVE request' = request
      BY <3>4 DEF Failed
    <3>5. ASSUME NEW g, NEW i, NEW x, Substitute(g, i, x) PROVE request' = request
      BY <3>5 DEF Substitute
    <3>6. ASSUME NEW g, Progress(g) PROVE request' = request
      BY <3>2, <3>3, <3>4, <3>5, <3>6 DEF Progress, Unavailable, Malformed
    <3>7. ASSUME NEW v, SessionStart(v) \/ Resume(v) PROVE request' = request
      BY <3>7 DEF SessionStart, Resume
    <3> QED BY <2>1, <3>1, <3>6, <3>7 DEF Next, InputHook, ToolResultHook, RescanHook
  <2>3. f = e
    BY <2>2 DEF ProviderRequest, IndInv, TypeOK
  <2>4. ~Busy /\ ~Unsafe(Payload(e))
    BY <2>2, <2>3 DEF ProviderRequest, IndInv, TypeOK
  <2>5. detected \subseteq known
    BY <2>4 DEF Busy, IndInv, TypeOK, Reported, Blocks, BlockOK
  <2> QED BY <2>4, <2>5 DEF Unsafe
<1>2. Spec => [][A]_vars
  BY <1>1, Invariance, PTL DEF Spec
<1> QED BY <1>2 DEF DetectedNeverSent
=============================================================================
