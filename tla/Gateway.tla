------------------------------ MODULE Gateway -------------------------------
(***************************************************************************)
(* The gateway's sessions (gateway.py): requests of several clients are    *)
(* scrubbed with the vault of their session, sent to the provider, and the *)
(* names in the strings of its answers turned back, while sessions expire  *)
(* and the gateway restarts.                                               *)
(*                                                                         *)
(* A request takes its vault when it arrives and keeps it, whatever        *)
(* becomes of the session meanwhile; so vaults have an identity of their   *)
(* own here, the request they were made for.  GatewayVault mints and looks *)
(* up as the extension's vault does (module Vault).  How a streamed text   *)
(* is cut is left to module GatewayStream.                                 *)
(***************************************************************************)
EXTENDS Vault

CONSTANTS
  Session,    \* session ids, sent by a client or made up for one request
  Request,    \* requests
  SessionOf,  \* the session of each
  Body,       \* what may have to be scrubbed of a request's body
  SessionTtl, \* how long an unused session is kept
  MaxTime     \* bound: the clock stops there

\* Detection passes over what looks like a placeholder.
ASSUME ValueAssumption == \A x \in Value : x \notin Placeholder
ASSUME RequestAssumption == SessionOf \in [Request -> Session]
ASSUME BodyAssumption == Body \subseteq SUBSET (Value \X Type)
ASSUME TimeAssumption == SessionTtl \in Nat /\ MaxTime \in Nat

VARIABLES
  time,     \* the clock, up to MaxTime
  vaults,   \* the vaults; one that was not made yet is empty
  sessions, \* the sessions kept: the vault of each, and when it was last used
  request,  \* the requests
  \* History, read by the properties alone:
  latest,   \* each session's last use since the gateway started
  told      \* the values each session's requests had in them

vars == <<time, vaults, sessions, request, latest, told>>

\* sent holds the names put into the body, each with the value it replaced,
\* shown the last name of the answer, with what the client got for it and its
\* place.  Of a request not yet made, or over, nothing is kept.
Outside(r, st) == [st |-> st, vault |-> r, todo |-> {}, sent |-> {}, shown |-> {}]

\* There is no await from the first value scrubbed in a body to the last.
Busy == \E r \in Request : request[r].st = "scrubbing"

Init ==
  /\ time = 0
  /\ vaults = [r \in Request |-> EmptyVault]
  /\ sessions = EmptyMap
  /\ request = [r \in Request |-> Outside(r, "new")]
  /\ latest = EmptyMap
  /\ told = [s \in Session |-> {}]

-----------------------------------------------------------------------------
\* Bug: only a new session is marked as used.
GetVaultUnmarked(r, s) ==
  IF s \in DOMAIN sessions THEN sessions' = sessions
  ELSE sessions' = Put(sessions, s, [vault |-> r, at |-> time])

\* Bug: a new session joins the vault of one that is there.
GetVaultShared(r, s) ==
  \E vault \in {sessions[k].vault : k \in DOMAIN sessions} \cup (IF DOMAIN sessions = {} THEN {r} ELSE {}) :
    sessions' = Put(sessions, s, [vault |-> vault, at |-> time])

(* _get_vault: the session's vault, or a new one; the session is marked as *)
(* used now.                                                               *)
GetVault(r, s) ==
  IF s \in DOMAIN sessions
  THEN sessions' = [sessions EXCEPT ![s] = [vault |-> @.vault, at |-> time]]
  ELSE sessions' = Put(sessions, s, [vault |-> r, at |-> time])

\* A request for a provider that is not known leaves no session behind.
Refuse(r) ==
  /\ ~Busy
  /\ request[r].st = "new"
  /\ request' = [request EXCEPT ![r] = Outside(r, "ended")]
  /\ UNCHANGED <<time, vaults, sessions, latest, told>>

\* Neither does a request that is no POST: it and its answer, in which names
\* stay names, pass by all vaults.
PassThrough(r) ==
  /\ ~Busy
  /\ request[r].st = "new"
  /\ request' = [request EXCEPT ![r] = Outside(r, "ended")]
  /\ UNCHANGED <<time, vaults, sessions, latest, told>>

\* A request arrives and its body is awaited.
Arrive(r) ==
  LET s == SessionOf[r]
  IN  /\ ~Busy
      /\ request[r].st = "new"
      /\ GetVault(r, s)
      /\ request' = [request EXCEPT ![r] = [@ EXCEPT !.st = "reading", !.vault = sessions'[s].vault]]
      /\ latest' = Put(latest, s, [vault |-> sessions'[s].vault, at |-> time])
      /\ UNCHANGED <<time, vaults, told>>

\* The body is no JSON, or does not come.  The session stays.
RefuseBody(r) ==
  /\ ~Busy
  /\ request[r].st = "reading"
  /\ request' = [request EXCEPT ![r] = Outside(r, "ended")]
  /\ UNCHANGED <<time, vaults, sessions, latest, told>>

\* The body is there.  The request goes upstream when nothing is left of it
\* to scrub.
BodyRead(r, body) ==
  /\ ~Busy
  /\ request[r].st = "reading"
  /\ request' = [request EXCEPT ![r] =
       [@ EXCEPT !.st = IF body = {} THEN "upstream" ELSE "scrubbing", !.todo = body]]
  /\ told' = [told EXCEPT ![SessionOf[r]] = @ \cup {found[1] : found \in body}]
  /\ UNCHANGED <<time, vaults, sessions, latest>>

\* _scrub_text: one finding of one of the body's strings, the keys of its
\* objects apart; the model takes them in any order.
Scrub(r, x, t) ==
  LET i == request[r].vault
      left == request[r].todo \ {<<x, t>>}
  IN  /\ request[r].st = "scrubbing"
      /\ <<x, t>> \in request[r].todo
      /\ vaults' = [vaults EXCEPT ![i] = GetPlaceholder(@, x, t)]
      /\ request' = [request EXCEPT ![r] =
           [@ EXCEPT !.st = IF left = {} THEN "upstream" ELSE "scrubbing",
                     !.todo = left,
                     !.sent = request[r].sent \cup {<<vaults'[i].reverse[x], x>>}]]
      /\ UNCHANGED <<time, sessions, latest, told>>

\* The search raises an exception amid the body: nothing goes upstream, and
\* the names minted so far stay in the vault.
DetectFails(r) ==
  /\ request[r].st = "scrubbing"
  /\ request' = [request EXCEPT ![r] = Outside(r, "ended")]
  /\ UNCHANGED <<time, vaults, sessions, latest, told>>

-----------------------------------------------------------------------------
\* Bug: the session is looked up again when the answer comes.
VaultNow(r) ==
  IF SessionOf[r] \in DOMAIN sessions THEN sessions[SessionOf[r]].vault ELSE request[r].vault

VaultOf(r) == request[r].vault

\* Where a name may stand in an answer: in a string that is rehydrated, or
\* elsewhere.  That is an answer, or a line of a streamed one, that is no JSON;
\* a key of an object; and a string beside the text of a streamed event.
Place == {"string", "elsewhere"}

(* _rehydrate_value, and what passes it by.                                *)
Returned(r, p, place) == IF place = "string" THEN Rehydrate(vaults[VaultOf(r)], p) ELSE p

(* _proxy_sync and _proxy_streaming: a name in the answer, whichever the   *)
(* provider uses, wherever it stands, and whatever the answer's status.    *)
Answer(r, p, place) ==
  /\ ~Busy
  /\ request[r].st = "upstream"
  /\ request' = [request EXCEPT ![r].shown = {<<p, Returned(r, p, place), place>>}]
  /\ UNCHANGED <<time, vaults, sessions, latest, told>>

\* The request is over: answered, or failed at the provider.
End(r) ==
  /\ ~Busy
  /\ request[r].st = "upstream"
  /\ request' = [request EXCEPT ![r] = Outside(r, "ended")]
  /\ UNCHANGED <<time, vaults, sessions, latest, told>>

\* _cleanup_sessions: the sessions it leaves.
Live == {s \in DOMAIN sessions : time - sessions[s].at <= SessionTtl}

\* /health is the only caller of _cleanup_sessions.
Cleanup ==
  /\ ~Busy
  /\ sessions' = [s \in Live |-> sessions[s]]
  /\ UNCHANGED <<time, vaults, request, latest, told>>

\* The process ends and another begins.
Restart ==
  /\ sessions' = EmptyMap
  /\ latest' = EmptyMap
  /\ request' = [r \in Request |->
       IF request[r].st = "new" THEN request[r] ELSE Outside(r, "ended")]
  /\ UNCHANGED <<time, vaults, told>>

Tick ==
  /\ ~Busy
  /\ time < MaxTime /\ time' = time + 1
  /\ UNCHANGED <<vaults, sessions, request, latest, told>>

\* The names of all vaults.
Names == UNION {DOMAIN vaults[r].forward : r \in Request}

Next ==
  \/ \E r \in Request : Refuse(r) \/ PassThrough(r) \/ Arrive(r) \/ RefuseBody(r) \/ DetectFails(r) \/ End(r)
  \/ \E r \in Request, body \in Body : BodyRead(r, body)
  \/ \E r \in Request, x \in Value, t \in Type : Scrub(r, x, t)
  \/ \E r \in Request, p \in Names, place \in Place : Answer(r, p, place)
  \/ Cleanup
  \/ Restart
  \/ Tick

Spec == Init /\ [][Next]_vars

-----------------------------------------------------------------------------
(* Properties.                                                             *)

RequestType ==
  [st : {"new", "reading", "scrubbing", "upstream", "ended"},
   vault : Request,
   todo : SUBSET (Value \X Type),
   sent : SUBSET (Placeholder \X Value),
   shown : SUBSET (Placeholder \X (Value \cup Placeholder) \X Place)]

Use == [vault : Request, at : 0 .. time]

\* The variables have their types.
TypeOK ==
  /\ time \in 0 .. MaxTime
  /\ DOMAIN vaults = Request /\ \A r \in Request : NamesOK(vaults[r])
  /\ DOMAIN sessions \subseteq Session /\ \A s \in DOMAIN sessions : sessions[s] \in Use
  /\ request \in [Request -> RequestType]
  /\ DOMAIN latest \subseteq Session /\ \A s \in DOMAIN latest : latest[s] \in Use
  /\ told \in [Session -> SUBSET Value]

\* A name the request was sent with comes back as the value it stood for in
\* the answer's strings, though the session expired, got a new vault or minted
\* more names since, and as itself elsewhere.
RepliesExact ==
  \A r \in Request : \A a \in request[r].sent, b \in request[r].shown :
    a[1] = b[1] =>
      b[2] = IF b[3] = "string" /\ a[1][1] \in Rehydratable THEN a[2] ELSE a[1]

\* Whatever names the provider uses, an answer shows no value that only other
\* sessions' requests had in them.
Isolation ==
  \A r \in Request : \A b \in request[r].shown : b[2] \in Value => b[2] \in told[SessionOf[r]]

\* A session used within its time keeps its vault: as long as no pause is
\* longer than that, a value has one name in all its requests.
FreshKept ==
  \A s \in DOMAIN latest :
    time - latest[s].at <= SessionTtl
      => s \in DOMAIN sessions /\ sessions[s].vault = latest[s].vault
=============================================================================
