---------------------------- MODULE ScrubSession ----------------------------
(***************************************************************************)
(* The hooks of one agent session (index.ts): what enters the session log  *)
(* and what is sent to the provider, while detection requests of several   *)
(* concurrent events are under way and the service answers, fails or       *)
(* times out.                                                              *)
(*                                                                         *)
(* An event is one call of a hook.  Ingress events (input, tool_result)    *)
(* put text into the log; rescan events (context, session_before_compact)  *)
(* scan the log again and yield the payload of one provider request.  A    *)
(* text block is the set of sensitive values still raw in it.              *)
(*                                                                         *)
(* A handler runs to completion between awaits: while one substitutes,     *)
(* nothing else runs.  Of the vault the module keeps the values it knows   *)
(* (module Pseudonyms).  They only grow until the user resumes a session   *)
(* that was saved, whose values replace them.                              *)
(***************************************************************************)
EXTENDS Naturals, Sequences

CONSTANTS
  Value,        \* sensitive values
  Detectable,   \* those every answer of the service reports
  Long,         \* those of 8 characters and more
  Verbatim,     \* those JSON writes as they are: no quote, backslash, newline
  Recognisable, \* those a pattern of verifyEgress matches in the JSON
  Input,        \* the input events
  ToolResult,   \* the tool_result events
  Rescan,       \* the context and session_before_compact events
  Text,         \* what a user may type: one block
  Results,      \* what a tool may return: tuples of blocks
  Saved         \* what a saved vault may hold: sets of values

Ingress == Input \cup ToolResult
Event == Ingress \cup Rescan

ASSUME ValueAssumption ==
  /\ Detectable \subseteq Value /\ Long \subseteq Value
  /\ Verbatim \subseteq Value /\ Recognisable \subseteq Value
ASSUME EventAssumption == Ingress \cap Rescan = {}
ASSUME TextAssumption == Text \subseteq SUBSET Value /\ Results \subseteq Seq(SUBSET Value)
ASSUME SavedAssumption == Saved \subseteq SUBSET Value

VARIABLES
  policyFailed, \* a session_start found the org policy's signature invalid
  known,        \* values in the vault
  result,       \* each event: none, pending, delivered, withheld or rejected
  block,        \* each event's text blocks
  request,      \* each rescan's provider request: none, sent or aborted
  \* History, read by the properties alone:
  detected,     \* values the service reported since the last resume, or it restored
  refused,      \* some verification has failed
  barred        \* events called since

vars == <<policyFailed, known, result, block, request, detected, refused, barred>>

\* A block is named by the event that brought it in and its position there;
\* position 0 is the marker that stands in for withheld content.  A rescan
\* holds the blocks of the log.
Index(e) == (IF e \in Ingress THEN {e} ELSE Ingress) \X Nat

\* text is what came in, raw what is left of it.
Waiting(text) == [text |-> text, raw |-> text, st |-> "waiting", todo |-> {}]

Busy == \E e \in Event : \E i \in DOMAIN block[e] : block[e][i].st = "substituting"

\* What an event yields: its blocks, or the marker alone.  A hook that rejects
\* yields nothing, and the agent is taken to go on with what it had.
Yield(e) ==
  CASE result[e] = "delivered" -> [i \in DOMAIN block[e] |-> block[e][i].raw]
    [] result[e] = "withheld" -> [i \in {<<e, 0>>} |-> {}]
    [] result[e] = "rejected" -> [i \in DOMAIN block[e] |-> block[e][i].text]
    [] OTHER -> [i \in {} |-> {}]

Log == [i \in UNION {DOMAIN Yield(e) : e \in Ingress} |-> Yield(i[1])[i]]

Payload(e) == UNION {Yield(e)[i] : i \in DOMAIN Yield(e)}

Init ==
  /\ policyFailed = FALSE
  /\ known = {}
  /\ result = [e \in Event |-> "none"]
  /\ block = [e \in Event |-> [i \in {} |-> Waiting({})]]
  /\ request = [e \in Rescan |-> "none"]
  /\ detected = {} /\ refused = FALSE /\ barred = {}

-----------------------------------------------------------------------------
(* What the session is told.                                               *)

\* session_start, of the first session or of a later one: the org policy is
\* fetched and verified.  Nothing takes a failure back.
SessionStart(verified) ==
  /\ ~Busy
  /\ policyFailed' = (policyFailed \/ ~verified)
  /\ refused' = (refused \/ ~verified)
  /\ UNCHANGED <<known, result, block, request, detected, barred>>

\* The user resumes a saved session: its table replaces the one in use.
Resume(saved) ==
  /\ ~Busy
  /\ known' = saved /\ detected' = saved
  /\ UNCHANGED <<policyFailed, result, block, request, refused, barred>>

-----------------------------------------------------------------------------
(* The hooks are called.  After a failed policy check each withholds all   *)
(* content, else it sends every text block to the service.                 *)

Called(e) ==
  /\ ~Busy
  /\ result[e] = "none"
  /\ barred' = IF refused THEN barred \cup {e} ELSE barred
  /\ UNCHANGED <<policyFailed, known, request, detected, refused>>

Withheld(e) ==
  /\ result' = [result EXCEPT ![e] = "withheld"]
  /\ UNCHANGED block

Scanned(e, texts) ==
  /\ result' = [result EXCEPT ![e] = "pending"]
  /\ block' = [block EXCEPT ![e] = [i \in DOMAIN texts |-> Waiting(texts[i])]]

\* input: one text.
InputHook(e, text) ==
  /\ Called(e)
  /\ IF policyFailed THEN Withheld(e) ELSE Scanned(e, [i \in {<<e, 1>>} |-> text])

\* tool_result: the text blocks of a tool's result.
ToolResultHook(e, texts) ==
  /\ Called(e)
  /\ IF policyFailed THEN Withheld(e)
     ELSE Scanned(e, [i \in {<<e, n>> : n \in DOMAIN texts} |-> texts[i[2]]])

\* Bug: the rescan does not ask for the policy.
RescanHookUnchecked(e) == Called(e) /\ Scanned(e, Log)

\* context and session_before_compact: what is in the log.
RescanHook(e) ==
  /\ Called(e)
  /\ IF policyFailed THEN Withheld(e) ELSE Scanned(e, Log)

-----------------------------------------------------------------------------
(* What becomes of a block's request.                                      *)

\* The service answers.  It reports what it always detects, and may report
\* more.
Answer(e, i, found) ==
  /\ ~Busy
  /\ i \in DOMAIN block[e] /\ block[e][i].st = "waiting"
  /\ block[e][i].raw \cap Detectable \subseteq found /\ found \subseteq block[e][i].raw
  /\ block' = [block EXCEPT ![e][i] =
       [@ EXCEPT !.st = IF found = {} THEN "done" ELSE "substituting", !.todo = found]]
  /\ detected' = detected \cup found
  /\ UNCHANGED <<policyFailed, known, result, request, refused, barred>>

\* Bug: a failed block is passed over as if it were clean.
FailedIgnored(e, i, outcome) ==
  /\ ~Busy
  /\ i \in DOMAIN block[e] /\ block[e][i].st = "waiting"
  /\ block' = [block EXCEPT ![e][i] = [@ EXCEPT !.st = "done"]]
  /\ UNCHANGED <<policyFailed, known, result, request, detected, refused, barred>>

\* Bug: the failure of a block is not passed on to its event.
FailedSwallowed(e, i, outcome) ==
  /\ ~Busy
  /\ i \in DOMAIN block[e] /\ block[e][i].st = "waiting"
  /\ block' = [block EXCEPT ![e][i] = [@ EXCEPT !.st = "failed"]]
  /\ UNCHANGED <<policyFailed, known, result, request, detected, refused, barred>>

\* The block's promise is rejected.  The first that is settles its event; the
\* requests of the other blocks go on.
Failed(e, i, outcome) ==
  /\ ~Busy
  /\ i \in DOMAIN block[e] /\ block[e][i].st = "waiting"
  /\ block' = [block EXCEPT ![e][i] = [@ EXCEPT !.st = "failed"]]
  /\ result' = [result EXCEPT ![e] = IF @ = "pending" THEN outcome ELSE @]
  /\ UNCHANGED <<policyFailed, known, request, detected, refused, barred>>

\* Refused, an error status, or the client's own timeout.
Unavailable(e, i) == Failed(e, i, "withheld")

\* An answer without a list of spans: the hook itself rejects.
Malformed(e, i) == Failed(e, i, "rejected")

\* Bug: nothing is minted for content that is withheld anyway.
RememberedIfShown(e, x) == IF result[e] = "withheld" THEN known ELSE known \cup {x}

Remembered(e, x) == known \cup {x}

\* Bug: the loop over the spans ends after the first.
SubstituteFirstOnly(e, i, x) ==
  /\ i \in DOMAIN block[e] /\ block[e][i].st = "substituting" /\ x \in block[e][i].todo
  /\ known' = Remembered(e, x)
  /\ block' = [block EXCEPT ![e][i] =
       [@ EXCEPT !.raw = @ \ {x}, !.st = "done", !.todo = @ \ {x}]]
  /\ UNCHANGED <<policyFailed, result, request, detected, refused, barred>>

\* substitute: one span; nothing runs before the last one is replaced.
Substitute(e, i, x) ==
  /\ i \in DOMAIN block[e] /\ x \in block[e][i].todo
  /\ known' = Remembered(e, x)
  /\ block' = [block EXCEPT ![e][i] =
       [text |-> @.text,
        raw |-> @.raw \ {x},
        st |-> IF @.todo = {x} THEN "done" ELSE "substituting",
        todo |-> @.todo \ {x}]]
  /\ UNCHANGED <<policyFailed, result, request, detected, refused, barred>>

\* Bug: the handler waits for the blocks to settle, not to succeed.
DeliverSettled(e) ==
  /\ ~Busy
  /\ result[e] \in {"pending", "withheld"}
  /\ \A i \in DOMAIN block[e] : block[e][i].st \in {"done", "failed"}
  /\ result' = [result EXCEPT ![e] = "delivered"]
  /\ UNCHANGED <<policyFailed, known, block, request, detected, refused, barred>>

\* Every block is done: the handler returns them.
Deliver(e) ==
  /\ ~Busy
  /\ result[e] = "pending"
  /\ \A i \in DOMAIN block[e] : block[e][i].st = "done"
  /\ result' = [result EXCEPT ![e] = "delivered"]
  /\ UNCHANGED <<policyFailed, known, block, request, detected, refused, barred>>

-----------------------------------------------------------------------------
(* before_provider_request: the payload is what the rescan returned.       *)

\* The patterns and the vault's values are looked for in the payload's JSON.
Unsafe(payload) ==
  \/ payload \cap Recognisable # {}
  \/ payload \cap known \cap Long \cap Verbatim # {}

ProviderRequest(e) ==
  /\ ~Busy
  /\ request[e] = "none"
  /\ result[e] \in {"delivered", "withheld", "rejected"}
  /\ request' = [request EXCEPT ![e] = IF Unsafe(Payload(e)) THEN "aborted" ELSE "sent"]
  /\ UNCHANGED <<policyFailed, known, result, block, detected, refused, barred>>

-----------------------------------------------------------------------------
\* What moves an event on: each request of it is answered, refused or timed
\* out by the client's own timer, and the event loop runs what is ready.
Progress(e) ==
  \/ Deliver(e)
  \/ \E i \in DOMAIN block[e] :
       \/ \E found \in SUBSET block[e][i].raw : Answer(e, i, found)
       \/ Unavailable(e, i)
       \/ Malformed(e, i)
       \/ \E x \in block[e][i].todo : Substitute(e, i, x)

Next ==
  \/ \E verified \in BOOLEAN : SessionStart(verified)
  \/ \E saved \in Saved : Resume(saved)
  \/ \E e \in Input, text \in Text : InputHook(e, text)
  \/ \E e \in ToolResult, texts \in Results : ToolResultHook(e, texts)
  \/ \E e \in Rescan : RescanHook(e) \/ ProviderRequest(e)
  \/ \E e \in Event : Progress(e)

Fairness == \A e \in Event : WF_vars(Progress(e))

Spec == Init /\ [][Next]_vars

FairSpec == Spec /\ Fairness

-----------------------------------------------------------------------------
(* Properties.                                                             *)

BlockOK(b) ==
  /\ b \in [text : SUBSET Value, raw : SUBSET Value,
            st : {"waiting", "substituting", "done", "failed"}, todo : SUBSET Value]
  /\ b.raw \subseteq b.text /\ b.todo \subseteq b.raw
  /\ b.todo # {} <=> b.st = "substituting"

\* The variables have their types, and a block is between its answer and the
\* end of its substitutions exactly while spans of it are left to replace.
TypeOK ==
  /\ policyFailed \in BOOLEAN /\ refused \in BOOLEAN /\ barred \subseteq Event
  /\ known \subseteq Value /\ detected \subseteq Value
  /\ result \in [Event -> {"none", "pending", "delivered", "withheld", "rejected"}]
  /\ \A e \in Event : DOMAIN block[e] \subseteq Index(e) /\ \A i \in DOMAIN block[e] : BlockOK(block[e][i])
  /\ request \in [Rescan -> {"none", "sent", "aborted"}]

\* ADR-6: whatever requests fail, and whatever the other blocks and events do
\* meanwhile, no value the service always detects stays raw in what a hook
\* puts into the log or in a payload that is sent: a rescan cleans that of
\* events whose own hook rejected too.  Only a rescan that itself rejects
\* leaves all to the checks of before_provider_request.
FailClosed ==
  /\ \A e \in Ingress : result[e] # "rejected" => Payload(e) \cap Detectable = {}
  /\ \A e \in Rescan : request[e] = "sent" /\ result[e] # "rejected" => Payload(e) \cap Detectable = {}

\* An event's content is shown as a whole or withheld as a whole, and blocks
\* that finish or fail after it was settled do not change that.
AllOrNothing ==
  \A e \in Event :
    /\ result[e] = "delivered" => \A i \in DOMAIN block[e] : block[e][i].st = "done"
    /\ result[e] \in {"withheld", "rejected"} =>
         e \in barred \/ \E i \in DOMAIN block[e] : block[e][i].st = "failed"

\* Once any scan has reported a long value, even one whose result was
\* withheld, or a resume has restored it, no request that carries it raw is
\* sent, be its rescan rejected: every payload is checked against a vault that
\* knows it.  This holds until a resume replaces the vault, and for values that
\* JSON writes as they are.
DetectedNeverSent ==
  [][\A e \in Rescan : request[e] = "none" /\ request'[e] = "sent" =>
       Payload(e) \cap Long \cap Verbatim \cap detected = {}]_vars

\* From the first org policy on that failed verification, whatever later ones
\* do, every hook that is called sends nothing to the service and yields
\* nothing but the marker; what entered the log before, or enters it yet, is
\* in the payload of no rescan called since.
PolicyFailedWithholds ==
  \A e \in barred : result[e] = "withheld" /\ DOMAIN block[e] = {}

\* Every hook call is settled in the end, though the service may hang.
EventsAnswered ==
  \A e \in Event : result[e] = "pending" ~> result[e] \in {"delivered", "withheld", "rejected"}
=============================================================================
