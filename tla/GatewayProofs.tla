--------------------------- MODULE GatewayProofs ----------------------------
(***************************************************************************)
(* For any number of sessions, requests, values and types, any bodies and  *)
(* any time a session is kept: the safety properties of Gateway.  For any  *)
(* characters, names, channels and arguments, and an answer of any length  *)
(* in any pieces: those of GatewayStream.                                  *)
(***************************************************************************)
EXTENDS Gateway, GatewayStream, VaultProofs

\* A pair that a map holds.
Holds(map, pair) == pair[1] \in DOMAIN map /\ map[pair[1]] = pair[2]

\* What is true of request r while its record is q.
RequestOK(r, q) ==
  /\ SessionOf[q.vault] = SessionOf[r]
  /\ q.st = "new" => q.sent = {}
  /\ q.shown # {} => q.st = "upstream"
  /\ \A a \in q.sent : Holds(vaults[q.vault].forward, a)
  /\ \A a \in q.sent, b \in q.shown :
       a[1] = b[1] => b[2] = IF b[3] = "string" /\ a[1][1] \in Rehydratable THEN a[2] ELSE a[1]
  /\ \A found \in q.todo : found[1] \in told[SessionOf[r]]
  /\ \A b \in q.shown : b[2] \in Value => b[2] \in told[SessionOf[r]]

RequestsOK == \A r \in Request : RequestOK(r, request[r])

\* A vault is consistent, and has only values of the session it was made for.
VaultsOK ==
  \A i \in Request :
    /\ VaultOK(vaults[i])
    /\ \A p \in DOMAIN vaults[i].forward : vaults[i].forward[p] \in told[SessionOf[i]]

\* A session kept is as it was last used, with a vault made for it.
SessionsOK ==
  \A s \in DOMAIN sessions :
    /\ SessionOf[sessions[s].vault] = s
    /\ s \in DOMAIN latest /\ sessions[s] = latest[s]

(***************************************************************************)
(* The inductive invariant.  RepliesExact rests on the vault a request     *)
(* holds knowing all names it was sent with, whichever vault its session   *)
(* has by now; Isolation on every vault having values of one session only, *)
(* and on requests and sessions holding only vaults made for them;         *)
(* FreshKept on a session kept being as it was last used.                  *)
(***************************************************************************)
IndInv ==
  /\ TypeOK
  /\ RequestsOK
  /\ VaultsOK
  /\ SessionsOK
  /\ FreshKept

-----------------------------------------------------------------------------
\* A request that is not there has nothing that could be wrong.
LEMMA OutsideOK ==
  ASSUME NEW r \in Request, NEW st \in {"new", "ended"}
  PROVE  Outside(r, st) \in RequestType /\ RequestOK(r, Outside(r, st))
BY DEF Outside, RequestType, RequestOK

\* The initial states: no request was made and no session is kept.
LEMMA InitInv == Init => IndInv
<1> SUFFICES ASSUME Init PROVE IndInv
  OBVIOUS
<1>1. TypeOK
  <2>1. \A r \in Request : NamesOK(vaults[r])
    BY EmptyVaultOK DEF Init, VaultOK
  <2>2. request \in [Request -> RequestType]
    BY OutsideOK DEF Init
  <2> QED BY <2>1, <2>2, TimeAssumption DEF Init, TypeOK, EmptyMap
<1>2. RequestsOK
  BY OutsideOK DEF Init, RequestsOK
<1>3. VaultsOK
  BY EmptyVaultOK DEF Init, VaultsOK, EmptyVault, EmptyMap
<1>4. SessionsOK /\ FreshKept
  BY DEF Init, SessionsOK, FreshKept, EmptyMap
<1> QED BY <1>1, <1>2, <1>3, <1>4 DEF IndInv

\* One request changes, vaults only learn and sessions only tell more: what
\* is true of the others stays so.
LEMMA RequestChange ==
  ASSUME IndInv, NEW r \in Request, NEW q \in RequestType,
         request' = [request EXCEPT ![r] = q],
         RequestOK(r, q)',
         \A i \in Request : \A p \in DOMAIN vaults[i].forward :
           p \in DOMAIN vaults'[i].forward /\ vaults'[i].forward[p] = vaults[i].forward[p],
         \A s \in Session : told[s] \subseteq told'[s]
  PROVE  RequestsOK' /\ request' \in [Request -> RequestType]
<1>1. request \in [Request -> RequestType]
  BY DEF IndInv, TypeOK
<1>2. request'[r] = q /\ (\A k \in Request : k # r => request'[k] = request[k])
  BY <1>1
<1>3. ASSUME NEW k \in Request, k # r PROVE RequestOK(k, request[k])'
  <2>1. RequestOK(k, request[k]) /\ request'[k] = request[k]
    BY <1>2, <1>3 DEF IndInv, RequestsOK
  <2>2. request[k].vault \in Request /\ SessionOf[k] \in Session
    BY <1>1, RequestAssumption DEF RequestType
  <2> QED BY <2>1, <2>2 DEF RequestOK, Holds
<1>4. RequestOK(r, request[r])'
  BY <1>2 DEF RequestOK
<1>5. RequestsOK'
  BY <1>3, <1>4 DEF RequestsOK
<1> QED BY <1>1, <1>5

\* A step that changes one request's record and nothing it relies on.
LEMMA RequestStep ==
  ASSUME IndInv, NEW r \in Request, NEW q \in RequestType,
         request' = [request EXCEPT ![r] = q],
         RequestOK(r, q)',
         UNCHANGED <<time, vaults, sessions, latest>>,
         \A s \in Session : told[s] \subseteq told'[s],
         told' \in [Session -> SUBSET Value]
  PROVE  IndInv'
<1>1. RequestsOK' /\ request' \in [Request -> RequestType]
  BY RequestChange
<1>2. TypeOK'
  BY <1>1 DEF IndInv, TypeOK, Use
<1>3. VaultsOK'
  BY RequestAssumption DEF IndInv, VaultsOK
<1>4. SessionsOK' /\ FreshKept'
  BY DEF IndInv, SessionsOK, FreshKept
<1> QED BY <1>1, <1>2, <1>3, <1>4 DEF IndInv

-----------------------------------------------------------------------------
\* A request is given its session's vault, or one of its own.
LEMMA ArriveInv ==
  ASSUME IndInv, NEW r \in Request, Arrive(r)
  PROVE  IndInv'
<1> DEFINE s == SessionOf[r]
           vault == IF s \in DOMAIN sessions THEN sessions[s].vault ELSE r
           use == [vault |-> vault, at |-> time]
<1>1. vault \in Request /\ SessionOf[vault] = s /\ s \in Session /\ use \in Use
  BY RequestAssumption DEF IndInv, TypeOK, SessionsOK, Use
<1>2. /\ DOMAIN sessions' = DOMAIN sessions \cup {s}
      /\ \A k \in DOMAIN sessions' : sessions'[k] = IF k = s THEN use ELSE sessions[k]
  BY DEF Arrive, GetVault, Put
<1>3. /\ DOMAIN latest' = DOMAIN latest \cup {s}
      /\ \A k \in DOMAIN latest' : latest'[k] = IF k = s THEN use ELSE latest[k]
  BY <1>2 DEF Arrive, Put
<1>4. request[r] \in RequestType /\ request[r].st = "new" /\ RequestOK(r, request[r])
  BY DEF Arrive, IndInv, TypeOK, RequestsOK
<1>5. UNCHANGED <<time, vaults, told>>
  BY DEF Arrive
<1>6. PICK q \in RequestType :
        /\ request' = [request EXCEPT ![r] = q]
        /\ q.vault = vault /\ q.st = "reading" /\ q.todo = request[r].todo
        /\ q.sent = request[r].sent /\ q.shown = request[r].shown
  <2> DEFINE new == [[request[r] EXCEPT !.st = "reading"] EXCEPT !.vault = vault]
  <2>1. sessions'[s].vault = vault
    BY <1>2
  <2>2. request' = [request EXCEPT ![r] = [[request[r] EXCEPT !.st = "reading"] EXCEPT !.vault = sessions'[s].vault]]
    BY Zenon DEF Arrive
  <2>3. request' = [request EXCEPT ![r] = new]
    BY <2>1, <2>2
  <2> HIDE DEF vault
  <2>4. /\ new \in RequestType /\ new.vault = vault /\ new.st = "reading" /\ new.todo = request[r].todo
        /\ new.sent = request[r].sent /\ new.shown = request[r].shown
    BY <1>1, <1>4 DEF RequestType
  <2> QED BY <2>3, <2>4
<1>7. RequestOK(r, q)'
  BY <1>1, <1>4, <1>5, <1>6 DEF RequestOK
<1>8. RequestsOK' /\ request' \in [Request -> RequestType]
  BY <1>5, <1>6, <1>7, RequestChange
<1>9. TypeOK'
  BY <1>1, <1>2, <1>3, <1>5, <1>8 DEF IndInv, TypeOK, Use
<1>10. VaultsOK'
  BY <1>5 DEF IndInv, VaultsOK
<1>11. SessionsOK'
  <2>1. use.vault = vault
    BY DEF use
  <2> QED BY <1>1, <1>2, <1>3, <2>1 DEF IndInv, SessionsOK
<1>12. FreshKept'
  BY <1>2, <1>3, <1>5 DEF IndInv, FreshKept
<1> QED BY <1>8, <1>9, <1>10, <1>11, <1>12 DEF IndInv

\* What is found in a body is told to the session before any of it is named.
LEMMA BodyReadInv ==
  ASSUME IndInv, NEW r \in Request, NEW body \in Body, BodyRead(r, body)
  PROVE  IndInv'
<1>1. request[r] \in RequestType /\ request[r].st = "reading" /\ RequestOK(r, request[r])
  BY DEF BodyRead, IndInv, TypeOK, RequestsOK
<1>2. body \in SUBSET (Value \X Type)
  BY BodyAssumption
<1>3. PICK q \in RequestType :
        /\ request' = [request EXCEPT ![r] = q]
        /\ q.vault = request[r].vault /\ q.st # "new" /\ q.todo = body
        /\ q.sent = request[r].sent /\ q.shown = request[r].shown
  <2> DEFINE new == [[request[r] EXCEPT !.st = IF body = {} THEN "upstream" ELSE "scrubbing"] EXCEPT !.todo = body]
  <2>1. request' = [request EXCEPT ![r] = new]
    BY Zenon DEF BodyRead
  <2>2. /\ new \in RequestType /\ new.vault = request[r].vault /\ new.st # "new" /\ new.todo = body
        /\ new.sent = request[r].sent /\ new.shown = request[r].shown
    BY <1>1, <1>2 DEF RequestType
  <2> QED BY <2>1, <2>2
<1>4. UNCHANGED <<time, vaults, sessions, latest>>
  BY DEF BodyRead
<1>5. told' = [told EXCEPT ![SessionOf[r]] = @ \cup {found[1] : found \in body}]
  BY DEF BodyRead
<1>6. /\ \A s \in Session : told[s] \subseteq told'[s]
      /\ told' \in [Session -> SUBSET Value]
      /\ \A found \in body : found[1] \in told'[SessionOf[r]]
  BY <1>2, <1>5, RequestAssumption DEF IndInv, TypeOK
<1>7. RequestOK(r, q)'
  <2>1. q.shown = {}
    BY <1>1, <1>3 DEF RequestOK
  <2> QED BY <1>1, <1>3, <1>4, <1>6, <2>1 DEF RequestOK
<1> QED BY <1>3, <1>4, <1>6, <1>7, RequestStep

\* A finding is named in the request's vault, which loses none of its names.
LEMMA ScrubInv ==
  ASSUME IndInv, NEW r \in Request, NEW x \in Value, NEW t \in Type, Scrub(r, x, t)
  PROVE  IndInv'
<1> DEFINE i == request[r].vault
           w == GetPlaceholder(vaults[i], x, t)
           left == request[r].todo \ {<<x, t>>}
           st == IF left = {} THEN "upstream" ELSE "scrubbing"
           pair == <<w.reverse[x], x>>
           named == request[r].sent \cup {pair}
<1>1. request[r] \in RequestType /\ request[r].st = "scrubbing" /\ RequestOK(r, request[r])
  BY DEF Scrub, IndInv, TypeOK, RequestsOK
<1>2. i \in Request /\ SessionOf[i] = SessionOf[r] /\ x \in told[SessionOf[r]]
  BY <1>1 DEF Scrub, RequestOK, RequestType
<1>3. vaults' = [vaults EXCEPT ![i] = w] /\ UNCHANGED <<time, sessions, latest, told>>
  BY DEF Scrub
<1>4. vaults'[i] = w /\ \A k \in Request : k # i => vaults'[k] = vaults[k]
  BY <1>2, <1>3 DEF IndInv, TypeOK
<1>5. /\ VaultOK(w)
      /\ \A n \in DOMAIN vaults[i].forward : n \in DOMAIN w.forward /\ w.forward[n] = vaults[i].forward[n]
      /\ Holds(w.forward, pair)
  BY <1>2, GetPlaceholderOK DEF IndInv, VaultsOK, Holds
<1>6. pair \in Placeholder \X Value
  BY <1>5 DEF VaultOK, NamesOK, Holds
<1>7. \A n \in DOMAIN w.forward : w.forward[n] = x \/ w.forward[n] \in told[SessionOf[i]]
  <2>1. CASE x \in DOMAIN vaults[i].reverse
    BY <1>2, <2>1 DEF GetPlaceholder, IndInv, VaultsOK
  <2>2. CASE x \notin DOMAIN vaults[i].reverse
    BY <1>2, <2>2 DEF GetPlaceholder, Minted, Put, IndInv, VaultsOK
  <2> QED BY <2>1, <2>2
<1>8. request' = [request EXCEPT ![r] = [request[r] EXCEPT !.st = st, !.todo = left, !.sent = @ \cup {pair}]]
  <2> DEFINE late == <<vaults'[i].reverse[x], x>>
  <2>1. request' = [request EXCEPT ![r] = [request[r] EXCEPT !.st = st, !.todo = left, !.sent = @ \cup {late}]]
    BY Zenon DEF Scrub
  <2>2. late = pair
    BY <1>4
  <2> HIDE DEF late, pair
  <2> QED BY <2>1, <2>2, Zenon
<1> HIDE DEF w, pair
<1>9. PICK q \in RequestType :
        /\ request' = [request EXCEPT ![r] = q]
        /\ q.vault = i /\ q.st # "new" /\ q.todo = left
        /\ q.sent = named /\ q.shown = {}
  <2>1. left \in SUBSET (Value \X Type) /\ named \in SUBSET (Placeholder \X Value)
    BY <1>1, <1>6 DEF RequestType
  <2>2. st \in {"upstream", "scrubbing"} /\ request[r].shown = {}
    BY <1>1 DEF RequestOK
  <2> HIDE DEF left, named, st
  <2> DEFINE new == [request[r] EXCEPT !.st = st, !.todo = left, !.sent = @ \cup {pair}]
  <2>3. /\ new \in RequestType /\ new.vault = i /\ new.st # "new" /\ new.todo = left
        /\ new.sent = named /\ new.shown = {}
    BY <1>1, <2>1, <2>2 DEF RequestType, named
  <2>4. request' = [request EXCEPT ![r] = new]
    BY <1>8, Zenon
  <2> HIDE DEF new
  <2> QED BY <2>3, <2>4
<1>10. RequestOK(r, q)'
  <2>1. \A a \in named : Holds(w.forward, a)
    BY <1>1, <1>5 DEF RequestOK, Holds
  <2>2. \A found \in left : found[1] \in told'[SessionOf[r]]
    BY <1>1, <1>3 DEF RequestOK
  <2> HIDE DEF left, named, i
  <2> QED BY <1>2, <1>4, <1>9, <2>1, <2>2 DEF RequestOK
<1> HIDE DEF i
<1>11. \A k \in Request : \A p \in DOMAIN vaults[k].forward :
         p \in DOMAIN vaults'[k].forward /\ vaults'[k].forward[p] = vaults[k].forward[p]
  BY <1>4, <1>5
<1>12. \A s \in Session : told[s] \subseteq told'[s]
  BY <1>3
<1>13. RequestsOK' /\ request' \in [Request -> RequestType]
  BY <1>9, <1>10, <1>11, <1>12, RequestChange
<1>14. TypeOK'
  <2>1. DOMAIN vaults' = Request /\ \A k \in Request : NamesOK(vaults'[k])
    BY <1>3, <1>4, <1>5 DEF IndInv, TypeOK, VaultOK
  <2> QED BY <1>3, <1>13, <2>1 DEF IndInv, TypeOK, Use
<1>15. VaultsOK'
  BY <1>2, <1>3, <1>4, <1>5, <1>7 DEF IndInv, VaultsOK
<1>16. SessionsOK' /\ FreshKept'
  BY <1>3 DEF IndInv, SessionsOK, FreshKept
<1> QED BY <1>13, <1>14, <1>15, <1>16 DEF IndInv

\* A name of the answer is looked up in the vault that named the request, or
\* left as it is.
LEMMA AnswerInv ==
  ASSUME IndInv, NEW r \in Request, NEW p \in Names, NEW place \in Place, Answer(r, p, place)
  PROVE  IndInv'
<1> DEFINE i == request[r].vault
           got == Returned(r, p, place)
           b == <<p, got, place>>
<1>1. request[r] \in RequestType /\ request[r].st = "upstream" /\ RequestOK(r, request[r])
  BY DEF Answer, IndInv, TypeOK, RequestsOK
<1>2. i \in Request /\ SessionOf[i] = SessionOf[r]
  BY <1>1 DEF RequestOK, RequestType
<1>3. UNCHANGED <<time, vaults, sessions, latest, told>>
  BY DEF Answer
<1>4. p \in Placeholder /\ p \notin Value
  BY ValueAssumption DEF Names, IndInv, VaultsOK, VaultOK, NamesOK
<1>5. /\ got \in Value \cup Placeholder
      /\ got \in Value => got \in told[SessionOf[r]]
  BY <1>2, <1>4 DEF Returned, VaultOf, Rehydrate, IndInv, VaultsOK, VaultOK, NamesOK
<1>6. \A a \in request[r].sent :
        a[1] = p => got = IF place = "string" /\ a[1][1] \in Rehydratable THEN a[2] ELSE a[1]
  BY <1>1 DEF RequestOK, Holds, Returned, VaultOf, Rehydrate
<1> HIDE DEF got
<1>b. b[1] = p /\ b[2] = got /\ b[3] = place /\ b \in Placeholder \X (Value \cup Placeholder) \X Place
  BY <1>4, <1>5
<1>7. PICK q \in RequestType :
        /\ request' = [request EXCEPT ![r] = q]
        /\ q.vault = i /\ q.st = "upstream" /\ q.todo = request[r].todo
        /\ q.sent = request[r].sent /\ q.shown = {b}
  <2> DEFINE new == [request[r] EXCEPT !.shown = {b}]
  <2>1. request' = [request EXCEPT ![r] = new]
    BY <1>1 DEF Answer, got, IndInv, TypeOK
  <2> HIDE DEF b
  <2>2. /\ new \in RequestType /\ new.vault = i /\ new.st = "upstream" /\ new.todo = request[r].todo
        /\ new.sent = request[r].sent /\ new.shown = {b}
    BY <1>1, <1>b DEF RequestType
  <2> QED BY <2>1, <2>2
<1> HIDE DEF b
<1>8. RequestOK(r, q)'
  BY <1>1, <1>3, <1>5, <1>6, <1>7, <1>b DEF RequestOK
<1>9. told' \in [Session -> SUBSET Value] /\ \A s \in Session : told[s] \subseteq told'[s]
  BY <1>3 DEF IndInv, TypeOK
<1> QED BY <1>3, <1>7, <1>8, <1>9, RequestStep

\* A request that is over leaves nothing behind.
LEMMA EndInv ==
  ASSUME IndInv, NEW r \in Request,
         Refuse(r) \/ PassThrough(r) \/ RefuseBody(r) \/ DetectFails(r) \/ End(r)
  PROVE  IndInv'
<1>1. /\ request' = [request EXCEPT ![r] = Outside(r, "ended")]
      /\ UNCHANGED <<time, vaults, sessions, latest, told>>
  BY DEF Refuse, PassThrough, RefuseBody, DetectFails, End
<1>2. PICK q \in RequestType : q = Outside(r, "ended")
  BY OutsideOK
<1>3. RequestOK(r, q)'
  BY <1>2 DEF Outside, RequestOK
<1>4. told' \in [Session -> SUBSET Value] /\ \A s \in Session : told[s] \subseteq told'[s]
  BY <1>1 DEF IndInv, TypeOK
<1> QED BY <1>1, <1>2, <1>3, <1>4, RequestStep

-----------------------------------------------------------------------------
\* Requests and vaults are untouched by what happens to the sessions.
LEMMA SessionStep ==
  ASSUME IndInv, UNCHANGED <<request, vaults, told>>
  PROVE  RequestsOK' /\ VaultsOK'
BY DEF IndInv, RequestsOK, RequestOK, VaultsOK

\* Only sessions unused for too long go.
LEMMA CleanupInv ==
  ASSUME IndInv, Cleanup
  PROVE  IndInv'
<1>1. /\ DOMAIN sessions' = {k \in DOMAIN sessions : time - sessions[k].at <= SessionTtl}
      /\ \A s \in DOMAIN sessions' : sessions'[s] = sessions[s]
      /\ UNCHANGED <<time, vaults, request, latest, told>>
  BY DEF Cleanup, Live
<1>2. TypeOK'
  BY <1>1 DEF IndInv, TypeOK, Use
<1>3. SessionsOK' /\ FreshKept'
  BY <1>1 DEF IndInv, SessionsOK, FreshKept
<1> QED BY <1>1, <1>2, <1>3, SessionStep DEF IndInv

\* No session is older for the gateway that begins.
LEMMA RestartInv ==
  ASSUME IndInv, Restart
  PROVE  IndInv'
<1>1. sessions' = EmptyMap /\ latest' = EmptyMap /\ UNCHANGED <<time, vaults, told>>
  BY DEF Restart
<1>2. ASSUME NEW r \in Request
      PROVE  request'[r] \in RequestType /\ RequestOK(r, request[r])'
  <2>1. request'[r] = IF request[r].st = "new" THEN request[r] ELSE Outside(r, "ended")
    BY DEF Restart
  <2>2. request[r] \in RequestType /\ RequestOK(r, request[r])
    BY DEF IndInv, TypeOK, RequestsOK
  <2>3. Outside(r, "ended") \in RequestType /\ RequestOK(r, Outside(r, "ended"))
    BY OutsideOK
  <2> QED BY <1>1, <2>1, <2>2, <2>3 DEF RequestOK
<1>3. request' \in [Request -> RequestType]
  <2>1. request' = [r \in Request |-> request'[r]]
    BY DEF Restart
  <2> QED BY <1>2, <2>1
<1>4. RequestsOK'
  BY <1>2 DEF RequestsOK
<1>5. TypeOK'
  BY <1>1, <1>3 DEF IndInv, TypeOK, EmptyMap
<1>6. VaultsOK' /\ SessionsOK' /\ FreshKept'
  BY <1>1 DEF IndInv, VaultsOK, SessionsOK, FreshKept, EmptyMap
<1> QED BY <1>4, <1>5, <1>6 DEF IndInv

\* Sessions grow older together.
LEMMA TickInv ==
  ASSUME IndInv, Tick
  PROVE  IndInv'
<1>1. time \in Nat /\ time < MaxTime /\ time' = time + 1
  BY TimeAssumption DEF Tick, IndInv, TypeOK
<1>2. UNCHANGED <<vaults, sessions, request, latest, told>>
  BY DEF Tick
<1>3. TypeOK'
  <2>1. Use \subseteq Use'
    BY <1>1 DEF Use
  <2>2. time' \in 0 .. MaxTime
    BY <1>1, TimeAssumption
  <2> QED BY <1>2, <2>1, <2>2 DEF IndInv, TypeOK
<1>4. FreshKept'
  <2>1. \A s \in DOMAIN latest : latest[s].at \in Nat
    BY DEF IndInv, TypeOK, Use
  <2> QED BY <1>1, <1>2, <2>1, TimeAssumption DEF IndInv, FreshKept
<1>5. SessionsOK'
  BY <1>2 DEF IndInv, SessionsOK
<1> QED BY <1>2, <1>3, <1>4, <1>5, SessionStep DEF IndInv

-----------------------------------------------------------------------------
\* Every step preserves the inductive invariant.
LEMMA NextInv == IndInv /\ [Next]_vars => IndInv'
<1> SUFFICES ASSUME IndInv, [Next]_vars PROVE IndInv'
  OBVIOUS
<1>1. CASE UNCHANGED vars
  <2>1. TypeOK' /\ SessionsOK' /\ FreshKept'
    BY <1>1 DEF vars, IndInv, TypeOK, Use, SessionsOK, FreshKept
  <2> QED BY <1>1, <2>1, SessionStep DEF vars, IndInv
<1>2. ASSUME NEW r \in Request, Refuse(r) \/ PassThrough(r) \/ Arrive(r) \/ RefuseBody(r) \/ DetectFails(r) \/ End(r)
      PROVE  IndInv'
  BY <1>2, ArriveInv, EndInv
<1>3. ASSUME NEW r \in Request, NEW body \in Body, BodyRead(r, body) PROVE IndInv'
  BY <1>3, BodyReadInv
<1>4. ASSUME NEW r \in Request, NEW x \in Value, NEW t \in Type, Scrub(r, x, t) PROVE IndInv'
  BY <1>4, ScrubInv
<1>5. ASSUME NEW r \in Request, NEW p \in Names, NEW place \in Place, Answer(r, p, place) PROVE IndInv'
  BY <1>5, AnswerInv
<1> QED BY <1>1, <1>2, <1>3, <1>4, <1>5, CleanupInv, RestartInv, TickInv DEF Next

\* The inductive invariant holds throughout.
THEOREM Invariance == Spec => []IndInv
BY InitInv, NextInv, PTL DEF Spec

\* Every variable keeps its type.
THEOREM TypeCorrect == Spec => []TypeOK
<1>1. IndInv => TypeOK
  BY DEF IndInv
<1> QED BY <1>1, Invariance, PTL

\* A name sent with a request comes back as the value it stood for in a string
\* that is rehydrated, and as itself elsewhere, however long the answer takes
\* and whatever becomes of the session.
THEOREM Exactness == Spec => []RepliesExact
<1>1. IndInv => RepliesExact
  BY DEF IndInv, RequestsOK, RequestOK, RepliesExact
<1> QED BY <1>1, Invariance, PTL

\* No answer shows a value that only other sessions' requests had in them.
THEOREM Isolated == Spec => []Isolation
<1>1. IndInv => Isolation
  BY DEF IndInv, RequestsOK, RequestOK, Isolation
<1> QED BY <1>1, Invariance, PTL

\* A session in use keeps its vault.
THEOREM FreshSessionsKept == Spec => []FreshKept
<1>1. IndInv => FreshKept
  BY DEF IndInv
<1> QED BY <1>1, Invariance, PTL

-----------------------------------------------------------------------------
(* The stream of an answer: GatewayStream.                                 *)

\* What a client's text consists of.
Client == Char \cup {ValueOf(n) : n \in Known}

\* Where a text has a placeholder of the vault.
KnownAt(t) == {i \in Starts(t) : t[i + 2] \in Known}

\* What becomes of each character.
PieceAt(t, i) ==
  IF i \in KnownAt(t) THEN <<ValueOf(t[i + 2])>>
  ELSE IF \E k \in KnownAt(t) : k < i /\ i <= k + 4 THEN <<>> ELSE <<t[i]>>

PiecesOf(t) == [i \in DOMAIN t |-> PieceAt(t, i)]

\* A text is rehydrated piece by piece.
LEMMA RehydratePieces == \A t : RehydrateText(t) = FlattenSeq(PiecesOf(t))
BY DEF RehydrateText, PiecesOf, PieceAt, KnownAt

\* The pieces are texts for the client, one for each character.
LEMMA PiecesOfType ==
  ASSUME NEW t \in Seq(Char)
  PROVE  /\ PiecesOf(t) \in Seq(Seq(Client)) /\ Len(PiecesOf(t)) = Len(t)
         /\ \A i \in 1 .. Len(t) : PiecesOf(t)[i] = PieceAt(t, i)
<1> DEFINE P == Seq(Client)
<1>1. Len(t) \in Nat /\ DOMAIN t = 1 .. Len(t) /\ \A i \in 1 .. Len(t) : t[i] \in Char
  OBVIOUS
<1>2. \A i \in 1 .. Len(t) : PieceAt(t, i) \in P
  <2> TAKE i \in 1 .. Len(t)
  <2>1. CASE i \in KnownAt(t)
    <3>1. ValueOf(t[i + 2]) \in Client
      BY <2>1 DEF KnownAt, Client
    <3>2. <<ValueOf(t[i + 2])>> \in P
      BY <3>1
    <3> QED BY <2>1, <3>2 DEF PieceAt
  <2>2. CASE i \notin KnownAt(t)
    <3>1. t[i] \in Client
      BY <1>1 DEF Client
    <3>2. <<t[i]>> \in P /\ <<>> \in P
      BY <3>1
    <3> QED BY <2>2, <3>2 DEF PieceAt
  <2> QED BY <2>1, <2>2
<1>3. PiecesOf(t) = [i \in 1 .. Len(t) |-> PieceAt(t, i)]
  BY <1>1 DEF PiecesOf
<1> HIDE DEF P
<1>4. PiecesOf(t) \in Seq(P) /\ Len(PiecesOf(t)) = Len(t)
  BY <1>1, <1>2, <1>3
<1> QED BY <1>3, <1>4 DEF P

\* What is rehydrated is a text for the client.
LEMMA RehydrateType ==
  ASSUME NEW t \in Seq(Char)
  PROVE  RehydrateText(t) \in Seq(Client)
BY PiecesOfType, FlattenType, RehydratePieces

\* A sequence made of two.
LEMMA TwoParts ==
  ASSUME NEW D, NEW x \in Seq(D), NEW y \in Seq(D), NEW z \in Seq(D), Len(z) = Len(x) + Len(y),
         \A i \in 1 .. Len(x) : z[i] = x[i], \A j \in 1 .. Len(y) : z[Len(x) + j] = y[j]
  PROVE  z = x \o y
<1>1. x \o y \in Seq(D) /\ Len(x \o y) = Len(x) + Len(y)
  OBVIOUS
<1>2. ASSUME NEW i \in 1 .. Len(x) + Len(y) PROVE z[i] = (x \o y)[i]
  <2>1. CASE i <= Len(x)
    BY <2>1
  <2>2. CASE ~(i <= Len(x))
    <3>1. i - Len(x) \in 1 .. Len(y) /\ Len(x) + (i - Len(x)) = i
      BY <2>2
    <3>2. z[i] = y[i - Len(x)]
      BY <3>1
    <3> QED BY <2>2, <3>1, <3>2
  <2> QED BY <2>1, <2>2
<1> QED BY <1>1, <1>2, SeqEqual

\* Two texts in one.
LEMMA Both ==
  ASSUME NEW D, NEW s \in Seq(D), NEW t \in Seq(D)
  PROVE  /\ s \o t \in Seq(D) /\ Len(s) \in Nat /\ Len(t) \in Nat
         /\ Len(s \o t) = Len(s) + Len(t)
         /\ \A i \in 1 .. Len(s) : (s \o t)[i] = s[i]
         /\ \A j \in 1 .. Len(t) : (s \o t)[Len(s) + j] = t[j]
OBVIOUS

\* Placeholders that lie in one of two parts.
LEMMA KnownAtParts ==
  ASSUME NEW s \in Seq(Char), NEW t \in Seq(Char), NEW u \in Seq(Char),
         Len(u) = Len(s) + Len(t),
         \A i \in 1 .. Len(s) : u[i] = s[i], \A j \in 1 .. Len(t) : u[Len(s) + j] = t[j]
  PROVE  /\ \A i \in KnownAt(s) : i \in KnownAt(u)
         /\ \A i \in KnownAt(u) : i + 4 <= Len(s) => i \in KnownAt(s)
         /\ \A j \in 1 .. Len(t) : Len(s) + j \in KnownAt(u) <=> j \in KnownAt(t)
<1>1. Len(s) \in Nat /\ Len(t) \in Nat
  BY LenProperties
<1>2. ASSUME NEW i \in KnownAt(s) PROVE i \in KnownAt(u)
  <2>1. i \in 1 .. Len(s) - 4
    BY DEF KnownAt, Starts
  <2>2. /\ i \in 1 .. Len(s) /\ i + 1 \in 1 .. Len(s) /\ i + 2 \in 1 .. Len(s) /\ i + 3 \in 1 .. Len(s)
        /\ i + 4 \in 1 .. Len(s) /\ i \in 1 .. Len(u) - 4
    BY <1>1, <2>1
  <2> QED BY <2>2 DEF KnownAt, Starts
<1>3. ASSUME NEW i \in KnownAt(u), i + 4 <= Len(s) PROVE i \in KnownAt(s)
  <2>1. i \in 1 .. Len(u) - 4
    BY DEF KnownAt, Starts
  <2>2. /\ i \in 1 .. Len(s) /\ i + 1 \in 1 .. Len(s) /\ i + 2 \in 1 .. Len(s) /\ i + 3 \in 1 .. Len(s)
        /\ i + 4 \in 1 .. Len(s) /\ i \in 1 .. Len(s) - 4
    BY <1>1, <1>3, <2>1
  <2> QED BY <2>2 DEF KnownAt, Starts
<1>4. ASSUME NEW j \in 1 .. Len(t) PROVE Len(s) + j \in KnownAt(u) <=> j \in KnownAt(t)
  <2> DEFINE i == Len(s) + j
  <2>1. i \in 1 .. Len(u) - 4 <=> j \in 1 .. Len(t) - 4
    BY <1>1
  <2>2. ASSUME j \in 1 .. Len(t) - 4
        PROVE  /\ u[i] = t[j] /\ u[i + 1] = t[j + 1] /\ u[i + 2] = t[j + 2] /\ u[i + 3] = t[j + 3]
               /\ u[i + 4] = t[j + 4]
    <3>1. /\ j \in 1 .. Len(t) /\ j + 1 \in 1 .. Len(t) /\ j + 2 \in 1 .. Len(t) /\ j + 3 \in 1 .. Len(t)
          /\ j + 4 \in 1 .. Len(t)
      BY <1>1, <2>2
    <3>2. /\ Len(s) + (j + 1) = i + 1 /\ Len(s) + (j + 2) = i + 2 /\ Len(s) + (j + 3) = i + 3
          /\ Len(s) + (j + 4) = i + 4
      BY <1>1
    <3> HIDE DEF i
    <3>3. Len(s) + j = i
      BY DEF i
    <3> QED BY <3>1, <3>2, <3>3
  <2> HIDE DEF i
  <2>3. i \in KnownAt(u) <=> j \in KnownAt(t)
    BY <2>1, <2>2 DEF KnownAt, Starts
  <2> QED BY <2>3 DEF i
<1> QED BY <1>2, <1>3, <1>4

\* A text can be rehydrated in two parts if no placeholder lies in both.
LEMMA RehydrateConcat ==
  ASSUME NEW s \in Seq(Char), NEW t \in Seq(Char),
         \A i \in KnownAt(s \o t) : ~(i <= Len(s) /\ Len(s) < i + 4)
  PROVE  RehydrateText(s \o t) = RehydrateText(s) \o RehydrateText(t)
<1> DEFINE u == s \o t
           P == Seq(Client)
<1>1. /\ u \in Seq(Char) /\ Len(s) \in Nat /\ Len(t) \in Nat
      /\ Len(u) = Len(s) + Len(t)
      /\ \A i \in 1 .. Len(s) : u[i] = s[i]
      /\ \A j \in 1 .. Len(t) : u[Len(s) + j] = t[j]
      /\ \A i \in KnownAt(u) : ~(i <= Len(s) /\ Len(s) < i + 4)
  BY Both
<1> HIDE DEF u
<1>2. /\ \A i \in KnownAt(s) : i \in KnownAt(u)
      /\ \A i \in KnownAt(u) : i + 4 <= Len(s) => i \in KnownAt(s)
      /\ \A j \in 1 .. Len(t) : Len(s) + j \in KnownAt(u) <=> j \in KnownAt(t)
  BY <1>1, KnownAtParts
<1>3. /\ \A i \in KnownAt(u) : i \in 1 .. Len(u) - 4
      /\ \A i \in KnownAt(s) : i \in 1 .. Len(s) - 4
      /\ \A i \in KnownAt(t) : i \in 1 .. Len(t) - 4
  BY DEF KnownAt, Starts
<1>4. ASSUME NEW i \in 1 .. Len(s) PROVE PieceAt(u, i) = PieceAt(s, i)
  <2>1. i \in KnownAt(u) <=> i \in KnownAt(s)
    BY <1>1, <1>2, <1>3
  <2>2. i \in KnownAt(s) => u[i + 2] = s[i + 2]
    BY <1>1, <1>3
  <2>3. (\E k \in KnownAt(u) : k < i /\ i <= k + 4) <=> (\E k \in KnownAt(s) : k < i /\ i <= k + 4)
    <3>1. ASSUME NEW k \in KnownAt(u), k < i, i <= k + 4 PROVE k \in KnownAt(s)
      BY <1>1, <1>2, <1>3, <3>1
    <3> QED BY <1>2, <3>1
  <2> QED BY <1>1, <2>1, <2>2, <2>3 DEF PieceAt
<1>5. ASSUME NEW j \in 1 .. Len(t) PROVE PieceAt(u, Len(s) + j) = PieceAt(t, j)
  <2> DEFINE i == Len(s) + j
  <2>1. i \in KnownAt(u) <=> j \in KnownAt(t)
    BY <1>2
  <2>2. j \in KnownAt(t) => u[i + 2] = t[j + 2]
    <3> SUFFICES ASSUME j \in KnownAt(t) PROVE u[i + 2] = t[j + 2]
      OBVIOUS
    <3>1. j + 2 \in 1 .. Len(t) /\ Len(s) + (j + 2) = i + 2
      BY <1>1, <1>3
    <3> QED BY <1>1, <3>1
  <2>3. (\E k \in KnownAt(u) : k < i /\ i <= k + 4) <=> (\E k \in KnownAt(t) : k < j /\ j <= k + 4)
    <3>1. ASSUME NEW k \in KnownAt(u), k < i, i <= k + 4
          PROVE  k - Len(s) \in KnownAt(t) /\ k - Len(s) < j /\ j <= (k - Len(s)) + 4
      <4>1. k > Len(s)
        BY <1>1, <1>3, <3>1
      <4>2. k - Len(s) \in 1 .. Len(t) /\ Len(s) + (k - Len(s)) = k
        BY <1>1, <1>3, <4>1
      <4> QED BY <1>1, <1>2, <1>3, <3>1, <4>2
    <3>2. ASSUME NEW k \in KnownAt(t), k < j, j <= k + 4
          PROVE  Len(s) + k \in KnownAt(u) /\ Len(s) + k < i /\ i <= Len(s) + k + 4
      BY <1>1, <1>2, <1>3, <3>2
    <3> QED BY <3>1, <3>2
  <2>4. u[i] = t[j]
    BY <1>1
  <2> HIDE DEF i
  <2>5. PieceAt(u, i) = PieceAt(t, j)
    BY <2>1, <2>2, <2>3, <2>4 DEF PieceAt
  <2> QED BY <2>5 DEF i
<1>6. PiecesOf(u) = PiecesOf(s) \o PiecesOf(t)
  <2>1. /\ PiecesOf(s) \in Seq(P) /\ Len(PiecesOf(s)) = Len(s)
        /\ \A i \in 1 .. Len(s) : PiecesOf(s)[i] = PieceAt(s, i)
    BY PiecesOfType
  <2>2. /\ PiecesOf(t) \in Seq(P) /\ Len(PiecesOf(t)) = Len(t)
        /\ \A i \in 1 .. Len(t) : PiecesOf(t)[i] = PieceAt(t, i)
    BY PiecesOfType
  <2>3. /\ PiecesOf(u) \in Seq(P) /\ Len(PiecesOf(u)) = Len(u)
        /\ \A i \in 1 .. Len(u) : PiecesOf(u)[i] = PieceAt(u, i)
    BY <1>1, PiecesOfType
  <2> HIDE DEF P
  <2>4. \A i \in 1 .. Len(PiecesOf(s)) : PiecesOf(u)[i] = PiecesOf(s)[i]
    BY <1>1, <1>4, <2>1, <2>3
  <2>5. \A j \in 1 .. Len(PiecesOf(t)) : PiecesOf(u)[Len(PiecesOf(s)) + j] = PiecesOf(t)[j]
    BY <1>1, <1>5, <2>1, <2>2, <2>3
  <2> DEFINE x == PiecesOf(s)
             y == PiecesOf(t)
             z == PiecesOf(u)
  <2>6. /\ x \in Seq(P) /\ y \in Seq(P) /\ z \in Seq(P) /\ Len(z) = Len(x) + Len(y)
        /\ \A i \in 1 .. Len(x) : z[i] = x[i]
        /\ \A j \in 1 .. Len(y) : z[Len(x) + j] = y[j]
    BY <1>1, <2>1, <2>2, <2>3, <2>4, <2>5
  <2> HIDE DEF x, y, z
  <2>7. z = x \o y
    BY ONLY <2>6, TwoParts
  <2> QED BY <2>7 DEF x, y, z
<1>7. FlattenSeq(PiecesOf(s) \o PiecesOf(t)) = FlattenSeq(PiecesOf(s)) \o FlattenSeq(PiecesOf(t))
  BY PiecesOfType, FlattenConcat
<1> QED BY <1>6, <1>7, RehydratePieces DEF u

\* What each character of a client's text was made from.
MadeFrom ==
  [e \in Client |-> IF \E n \in Known : e = ValueOf(n) THEN <<Open, Open, e[1], Close, Close>> ELSE <<e>>]

\* A character is made from itself, a value from its placeholder.
LEMMA MadeFromType ==
  /\ MadeFrom \in Pieces(Client, Char)
  /\ \A c \in Char : c \in Client /\ MadeFrom[c] = <<c>>
  /\ \A n \in Known : ValueOf(n) \in Client /\ MadeFrom[ValueOf(n)] = <<Open, Open, n, Close, Close>>
<1>1. \A c \in Char : c \in Client /\ MadeFrom[c] = <<c>>
  BY CharAssumption DEF Client, MadeFrom
<1>2. \A n \in Known : ValueOf(n) \in Client /\ MadeFrom[ValueOf(n)] = <<Open, Open, n, Close, Close>>
  BY DEF Client, MadeFrom, ValueOf
<1>3. \A n \in Known : <<Open, Open, n, Close, Close>> \in Seq(Char)
  <2> TAKE n \in Known
  <2>1. Open \in Char /\ Close \in Char /\ n \in Char
    BY CharAssumption DEF Char
  <2> HIDE DEF Char
  <2> QED BY <2>1
<1>4. \A c \in Char : <<c>> \in Seq(Char)
  OBVIOUS
<1>5. ASSUME NEW e \in Client PROVE MadeFrom[e] \in Seq(Char)
  BY <1>1, <1>2, <1>3, <1>4 DEF Client
<1>6. MadeFrom \in Pieces(Client, Char)
  BY <1>5 DEF MadeFrom, Pieces
<1> QED BY <1>1, <1>2, <1>6

\* A client's text is turned back character by character.
LEMMA DehydratedMap ==
  ASSUME NEW t \in Seq(Client)
  PROVE  Dehydrated(t) = FlatMap(MadeFrom, t)
<1>1. \A i \in DOMAIN t : t[i] \in Client
  OBVIOUS
<1>2. [i \in DOMAIN t |-> IF \E n \in Known : t[i] = ValueOf(n) THEN <<Open, Open, t[i][1], Close, Close>> ELSE <<t[i]>>]
        = Mapped(MadeFrom, t)
  BY <1>1 DEF MadeFrom, Mapped
<1> QED BY <1>2 DEF Dehydrated, FlatMap

\* Two parts of a client's text can be turned back one by one.
LEMMA DehydratedConcat ==
  ASSUME NEW s \in Seq(Client), NEW t \in Seq(Client)
  PROVE  Dehydrated(s \o t) = Dehydrated(s) \o Dehydrated(t) /\ Dehydrated(s) \in Seq(Char)
<1> DEFINE u == s \o t
<1>1. u \in Seq(Client)
  OBVIOUS
<1>2. Dehydrated(u) = FlatMap(MadeFrom, s \o t)
  BY <1>1, DehydratedMap
<1> HIDE DEF u
<1>3. MadeFrom \in Pieces(Client, Char)
  BY MadeFromType
<1>4. FlatMap(MadeFrom, s \o t) = FlatMap(MadeFrom, s) \o FlatMap(MadeFrom, t)
  BY ONLY <1>3, s \in Seq(Client), t \in Seq(Client), FlatMapConcat
<1>5. FlatMap(MadeFrom, s) \in Seq(Char)
  BY ONLY <1>3, s \in Seq(Client), FlatMapType
<1>6. Dehydrated(s) = FlatMap(MadeFrom, s) /\ Dehydrated(t) = FlatMap(MadeFrom, t)
  BY DehydratedMap
<1> QED BY <1>2, <1>4, <1>5, <1>6 DEF u

\* A text too short for a placeholder stays as it is.
LEMMA RehydrateOne == \A c \in Char : RehydrateText(<<c>>) = <<c>>
<1> TAKE c \in Char
<1> DEFINE t == <<c>>
<1>1. t \in Seq(Char) /\ Len(t) = 1 /\ t[1] = c
  OBVIOUS
<1> HIDE DEF t
<1>2. KnownAt(t) = {}
  BY <1>1 DEF KnownAt, Starts
<1>3. DOMAIN t = {1} /\ PieceAt(t, 1) = <<c>>
  BY <1>1, <1>2 DEF PieceAt
<1>4. PiecesOf(t) = <<<<c>>>>
  BY <1>3 DEF PiecesOf
<1>5. <<c>> \in Seq(Char)
  OBVIOUS
<1>6. FlattenSeq(<<<<c>>>>) = <<c>>
  BY <1>5, FlattenOne
<1> QED BY <1>4, <1>6, RehydratePieces DEF t

\* The empty text stays empty.
LEMMA RehydrateEmpty == RehydrateText(<<>>) = <<>>
<1>1. PiecesOf(<<>>) = <<>>
  BY DEF PiecesOf
<1> QED BY <1>1, FlattenEmpty, RehydratePieces

Bracketed(n) == <<Open, Open, n, Close, Close>>

\* A placeholder, character by character.
LEMMA BracketedOK ==
  ASSUME NEW n \in Known
  PROVE  LET t == Bracketed(n) IN
         /\ t \in Seq(Char) /\ Len(t) = 5 /\ DOMAIN t = 1 .. 5
         /\ t[1] = Open /\ t[2] = Open /\ t[3] = n /\ t[4] = Close /\ t[5] = Close
<1>1. Open \in Char /\ Close \in Char /\ n \in Char
  BY CharAssumption DEF Char
<1> HIDE DEF Char
<1> QED BY <1>1 DEF Bracketed

\* A placeholder becomes its value.
LEMMA RehydrateName == \A n \in Known : RehydrateText(Bracketed(n)) = <<ValueOf(n)>>
<1> TAKE n \in Known
<1> DEFINE t == Bracketed(n)
           v == ValueOf(n)
           p == <<v>>
           e == <<>>
<1>1. /\ t \in Seq(Char) /\ Len(t) = 5 /\ DOMAIN t = 1 .. 5
      /\ t[1] = Open /\ t[2] = Open /\ t[3] = n /\ t[4] = Close /\ t[5] = Close
  BY BracketedOK
<1> HIDE DEF t, v
<1>2. KnownAt(t) = {1}
  BY <1>1, CharAssumption DEF KnownAt, Starts
<1>3. PieceAt(t, 1) = p
  BY <1>1, <1>2 DEF PieceAt, v
<1>4. \A i \in 2 .. 5 : PieceAt(t, i) = e
  BY <1>1, <1>2 DEF PieceAt
<1>5. PiecesOf(t) = <<p, e, e, e, e>>
  <2>1. PiecesOf(t) = [i \in 1 .. 5 |-> PieceAt(t, i)]
    BY <1>1 DEF PiecesOf
  <2>2. /\ PieceAt(t, 1) = p /\ PieceAt(t, 2) = e /\ PieceAt(t, 3) = e /\ PieceAt(t, 4) = e /\ PieceAt(t, 5) = e
    BY <1>3, <1>4
  <2> HIDE DEF p, e
  <2> QED BY <2>1, <2>2
<1>6. v \in Client
  BY MadeFromType DEF v
<1> DEFINE P == Seq(Client)
<1>7. p \in P /\ e \in P /\ \A q \in P : q \o e = q
  BY <1>6
<1> HIDE DEF p, e, P
<1>8. /\ <<p>> \in Seq(P) /\ <<p, e>> \in Seq(P) /\ <<p, e, e>> \in Seq(P) /\ <<p, e, e, e>> \in Seq(P)
      /\ <<p, e>> = Append(<<p>>, e) /\ <<p, e, e>> = Append(<<p, e>>, e)
      /\ <<p, e, e, e>> = Append(<<p, e, e>>, e) /\ <<p, e, e, e, e>> = Append(<<p, e, e, e>>, e)
  BY <1>7
<1>9. FlattenSeq(<<p>>) = p
  BY <1>7, FlattenOne DEF P
<1>10. ASSUME NEW q \in Seq(P), FlattenSeq(q) = p PROVE FlattenSeq(Append(q, e)) = p
  <2>1. FlattenSeq(Append(q, e)) = FlattenSeq(q) \o e
    BY <1>7, FlattenAppend DEF P
  <2> QED BY <1>7, <1>10, <2>1
<1>11. FlattenSeq(<<p, e>>) = p
  BY <1>8, <1>9, <1>10
<1>12. FlattenSeq(<<p, e, e>>) = p
  BY <1>8, <1>10, <1>11
<1>13. FlattenSeq(<<p, e, e, e>>) = p
  BY <1>8, <1>10, <1>12
<1>14. FlattenSeq(<<p, e, e, e, e>>) = p
  BY <1>8, <1>10, <1>13
<1> QED BY <1>5, <1>14, RehydratePieces DEF p, v, t

\* Placeholders do not overlap.
LEMMA StartsApart ==
  ASSUME NEW t \in Seq(Char), NEW i \in Starts(t), NEW k \in Starts(t), k < i
  PROVE  k + 4 < i
<1>1. i \in 1 .. Len(t) - 4 /\ k \in 1 .. Len(t) - 4 /\ Len(t) \in Nat
  BY LenProperties DEF Starts
<1>2. /\ t[i] = Open /\ t[i + 1] = Open
      /\ t[k + 1] = Open /\ t[k + 2] \in Name /\ t[k + 3] = Close /\ t[k + 4] = Close
  BY DEF Starts
<1>3. SUFFICES ASSUME i <= k + 4 PROVE FALSE
  BY <1>1
<1>4. i = k + 1 \/ i = k + 2 \/ i = k + 3 \/ i = k + 4
  BY <1>1, <1>3
<1>5. Open \notin Name /\ Open # Close
  BY CharAssumption
<1>6. i # k + 2 /\ i # k + 3 /\ i # k + 4
  BY <1>2, <1>5
<1>7. i # k + 1
  <2> SUFFICES ASSUME i = k + 1 PROVE FALSE
    OBVIOUS
  <2>1. i + 1 = k + 2
    BY <1>1
  <2> QED BY <1>2, <1>5, <2>1
<1> QED BY <1>4, <1>6, <1>7

\* Turning values back into placeholders undoes rehydration.
LEMMA MadeFromRehydrated ==
  ASSUME NEW s \in Seq(Char)
  PROVE  Dehydrated(RehydrateText(s)) = s
<1> DEFINE Ok(q) == Dehydrated(RehydrateText(q)) = q
           T == {n \in Nat : \A q \in Seq(Char) : Len(q) <= n => Ok(q)}
<1>1. ASSUME NEW a \in Seq(Char), NEW b \in Seq(Char), Ok(a), Ok(b),
             \A i \in KnownAt(a \o b) : ~(i <= Len(a) /\ Len(a) < i + 4)
      PROVE  Ok(a \o b)
  <2>1. RehydrateText(a \o b) = RehydrateText(a) \o RehydrateText(b)
    BY ONLY a \in Seq(Char), b \in Seq(Char), <1>1, RehydrateConcat
  <2>2. RehydrateText(a) \in Seq(Client) /\ RehydrateText(b) \in Seq(Client)
    BY RehydrateType
  <2>3. Dehydrated(RehydrateText(a) \o RehydrateText(b)) = Dehydrated(RehydrateText(a)) \o Dehydrated(RehydrateText(b))
    BY ONLY <2>2, DehydratedConcat
  <2> QED BY <1>1, <2>1, <2>3
<1>2. Ok(<<>>)
  <2>1. <<>> \in Seq(Client)
    OBVIOUS
  <2> QED BY <2>1, RehydrateEmpty, DehydratedMap, FlatMapEmpty
<1>3. ASSUME NEW c \in Char PROVE Ok(<<c>>)
  <2>1. c \in Client /\ MadeFrom[c] = <<c>> /\ MadeFrom \in Pieces(Client, Char)
    BY MadeFromType
  <2>2. <<c>> \in Seq(Client)
    BY <2>1
  <2>3. Dehydrated(<<c>>) = <<c>>
    BY <2>1, <2>2, DehydratedMap, FlatMapOne
  <2> QED BY <2>3, RehydrateOne
<1>4. ASSUME NEW n \in Known PROVE Ok(Bracketed(n))
  <2> DEFINE v == ValueOf(n)
  <2>1. v \in Client /\ MadeFrom[v] = Bracketed(n) /\ MadeFrom \in Pieces(Client, Char)
    BY MadeFromType DEF Bracketed
  <2>2. RehydrateText(Bracketed(n)) = <<v>>
    BY RehydrateName
  <2> HIDE DEF v
  <2>3. <<v>> \in Seq(Client)
    BY <2>1
  <2>4. Dehydrated(<<v>>) = Bracketed(n)
    BY <2>1, <2>3, DehydratedMap, FlatMapOne
  <2> QED BY <2>2, <2>4
<1> HIDE DEF Ok
<1>5. 0 \in T
  BY <1>2
<1>6. ASSUME NEW n \in Nat, n \in T PROVE n + 1 \in T
  <2> SUFFICES ASSUME NEW q \in Seq(Char), Len(q) = n + 1 PROVE Ok(q)
    BY <1>6
  <2>1. PICK p \in Seq(Char), c \in Char : q = Append(p, c) /\ Len(p) = n
    BY SeqSnoc
  <2> DEFINE r == <<c>>
  <2>2. r \in Seq(Char) /\ q = p \o r /\ Ok(r) /\ Ok(p)
    BY <1>3, <1>6, <2>1
  <2> HIDE DEF r
  <2>3. CASE \A i \in KnownAt(q) : ~(i <= Len(p) /\ Len(p) < i + 4)
    BY <1>1, <2>2, <2>3
  <2>4. CASE ~ \A i \in KnownAt(q) : ~(i <= Len(p) /\ Len(p) < i + 4)
    <3>1. PICK i \in KnownAt(q) : i <= n /\ n < i + 4
      BY <2>1, <2>4
    <3>2. i \in Starts(q) /\ i \in 1 .. Len(q) - 4 /\ q[i + 2] \in Known
          /\ q[i] = Open /\ q[i + 1] = Open /\ q[i + 3] = Close /\ q[i + 4] = Close
      BY DEF KnownAt, Starts
    <3>3. i = n - 3 /\ i - 1 \in 0 .. Len(q) /\ i + 4 = Len(q)
      BY <3>1, <3>2
    <3> DEFINE a == SubSeq(q, 1, i - 1)
               b == SubSeq(q, (i - 1) + 1, Len(q))
               m == q[i + 2]
    <3>4. q = a \o b
      BY <3>3, SplitAt
    <3>5. a \in Seq(Char) /\ Len(a) = i - 1
      <4>1. 0 \in Nat /\ i - 1 \in Nat /\ 0 <= i - 1 /\ i - 1 <= Len(q) /\ 0 + 1 = 1 /\ (i - 1) - 0 = i - 1
        BY <3>3
      <4> QED BY <4>1, PartOK
    <3>6. b \in Seq(Char) /\ Len(b) = 5 /\ \A j \in 1 .. 5 : b[j] = q[(i - 1) + j]
      <4>1. i - 1 \in Nat /\ Len(q) \in Nat /\ i - 1 <= Len(q) /\ Len(q) <= Len(q) /\ Len(q) - (i - 1) = 5
        BY <3>3, LenProperties
      <4> DEFINE k == i - 1
      <4>k. k \in Nat /\ k <= Len(q)
        BY <4>1
      <4> HIDE DEF k
      <4>d. SubSeq(q, k + 1, Len(q)) \in Seq(Char) /\ Len(SubSeq(q, k + 1, Len(q))) = Len(q) - k
            /\ \A j \in 1 .. Len(q) - k : SubSeq(q, k + 1, Len(q))[j] = q[k + j]
        BY ONLY q \in Seq(Char), Len(q) \in Nat, Len(q) <= Len(q), <4>1, <4>k, PartOK
      <4>2. b \in Seq(Char) /\ Len(b) = Len(q) - (i - 1) /\ \A j \in 1 .. Len(q) - (i - 1) : b[j] = q[(i - 1) + j]
        BY ONLY <4>d DEF b, k
      <4> QED BY <4>1, <4>2
    <3> HIDE DEF a, b
    <3>7. b = Bracketed(m)
      <4>1. m \in Known
        BY <3>2
      <4>2. /\ (i - 1) + 1 = i /\ (i - 1) + 2 = i + 1 /\ (i - 1) + 3 = i + 2 /\ (i - 1) + 4 = i + 3 /\ (i - 1) + 5 = i + 4
        BY <3>2
      <4>3. b[1] = Open /\ b[2] = Open /\ b[3] = m /\ b[4] = Close /\ b[5] = Close
        BY <3>2, <3>6, <4>2
      <4>4. b = [j \in 1 .. 5 |-> b[j]]
        BY <3>6, LenProperties
      <4> HIDE DEF m
      <4>5. <<b[1], b[2], b[3], b[4], b[5]>> = [j \in 1 .. 5 |-> b[j]]
        OBVIOUS
      <4> QED BY <4>3, <4>4, <4>5 DEF Bracketed
    <3>8. Ok(b)
      BY <1>4, <3>2, <3>7
    <3>9. Ok(a)
      BY <1>6, <3>3, <3>5, <2>1
    <3>10. \A k \in KnownAt(a \o b) : ~(k <= Len(a) /\ Len(a) < k + 4)
      <4> SUFFICES ASSUME NEW k \in KnownAt(q), k <= i - 1, i - 1 < k + 4 PROVE FALSE
        BY <3>4, <3>5
      <4>1. k \in Starts(q) /\ k \in Int
        BY DEF KnownAt, Starts
      <4>2. k < i
        BY <3>3, <4>1
      <4>3. k + 4 < i
        BY <3>2, <4>1, <4>2, StartsApart
      <4> QED BY <3>2, <4>1, <4>3
    <3>11. Ok(a \o b)
      BY <1>1, <3>5, <3>6, <3>8, <3>9, <3>10
    <3> QED BY <3>4, <3>11
  <2> QED BY <2>3, <2>4
<1> HIDE DEF T
<1>7. Len(s) \in T /\ Len(s) \in Nat
  BY <1>5, <1>6, LenProperties, NatSetInduction
<1> QED BY <1>7 DEF T, Ok

\* A bounded set of integers that is not empty has a largest element.
LEMMA LargestOK ==
  ASSUME NEW T, T \subseteq Int, T # {}, NEW n \in Int, \A t \in T : t <= n
  PROVE  Max(T) \in T /\ \A t \in T : t <= Max(T)
<1> DEFINE D == {n - t : t \in T}
<1>1. D \subseteq Nat /\ D # {}
  <2>1. \A t \in T : n - t \in Nat
    OBVIOUS
  <2>2. PICK t \in T : TRUE
    OBVIOUS
  <2>3. n - t \in D
    OBVIOUS
  <2> QED BY <2>1, <2>3
<1>2. PICK d \in D : \A c \in D : ~(<<c, d>> \in OpToRel(<, Nat))
  BY <1>1, NatLessThanWellFounded, WFMin
<1>3. \A c \in D : ~(c < d)
  BY <1>1, <1>2 DEF OpToRel
<1>4. PICK x \in T : d = n - x
  OBVIOUS
<1>5. \A t \in T : x >= t
  <2> SUFFICES ASSUME NEW t \in T, ~(x >= t) PROVE FALSE
    OBVIOUS
  <2>1. n - t \in D
    OBVIOUS
  <2>2. ~(n - t < n - x)
    BY <1>3, <1>4, <2>1
  <2> QED BY <2>2
<1> QED BY <1>4, <1>5 DEF Max

\* What of a text is held back opens a placeholder and does not close it.
LEMMA HeldOK ==
  ASSUME NEW t \in Seq(Char)
  PROVE  /\ Held(t) \in 0 .. Len(t) /\ Held(t) <= MaxHeld /\ Held(t) # 1
         /\ Held(t) # 0 =>
              LET first == Len(t) - Held(t) + 1 IN
              /\ t[first] = Open /\ t[first + 1] = Open
              /\ \A i \in first .. Len(t) - 1 : ~(t[i] = Close /\ t[i + 1] = Close)
<1> DEFINE opens == {i \in 1 .. Len(t) - 1 : t[i] = Open /\ t[i + 1] = Open}
           last == Max(opens)
           closed == \E i \in last .. Len(t) - 1 : t[i] = Close /\ t[i + 1] = Close
<1>1. Len(t) \in Nat /\ MaxHeld \in Nat
  BY BoundsAssumption
<1>2. CASE opens # {} /\ ~closed /\ Len(t) - last + 1 <= MaxHeld
  <2>1. Held(t) = Len(t) - last + 1
    BY <1>2 DEF Held
  <2>2. opens \subseteq Int /\ \A i \in opens : i <= Len(t)
    BY <1>1
  <2>3. last \in opens
    <3>1. Len(t) \in Int /\ opens # {}
      BY <1>1, <1>2
    <3> HIDE DEF opens
    <3> QED BY <2>2, <3>1, LargestOK
  <2>4. last \in 1 .. Len(t) - 1 /\ t[last] = Open /\ t[last + 1] = Open
    BY <2>3
  <2> HIDE DEF last
  <2>5. Len(t) - Held(t) + 1 = last /\ Held(t) \in 2 .. Len(t)
    BY <1>1, <2>1, <2>4
  <2> QED BY <1>1, <1>2, <2>1, <2>4, <2>5
<1>3. CASE ~(opens # {} /\ ~closed /\ Len(t) - last + 1 <= MaxHeld)
  <2>1. Held(t) = 0
    BY <1>3 DEF Held
  <2> QED BY <1>1, <2>1
<1> QED BY <1>2, <1>3

\* Brackets near the end are held back unless they are closed or others open.
LEMMA HeldBack ==
  ASSUME NEW t \in Seq(Char), NEW i \in 1 .. Len(t) - 1, t[i] = Open, t[i + 1] = Open,
         Len(t) - i + 1 <= MaxHeld,
         \A j \in i + 1 .. Len(t) - 1 : ~(t[j] = Open /\ t[j + 1] = Open),
         \A j \in i .. Len(t) - 1 : ~(t[j] = Close /\ t[j + 1] = Close)
  PROVE  Held(t) # 0
<1> DEFINE opens == {j \in 1 .. Len(t) - 1 : t[j] = Open /\ t[j + 1] = Open}
           last == Max(opens)
           closed == \E j \in last .. Len(t) - 1 : t[j] = Close /\ t[j + 1] = Close
<1>1. Len(t) \in Nat
  OBVIOUS
<1>2. i \in opens /\ opens \subseteq Int /\ \A j \in opens : j <= Len(t)
  BY <1>1
<1>3. last \in opens /\ \A j \in opens : j <= last
  <2> HIDE DEF opens
  <2>1. opens # {} /\ Len(t) \in Int
    BY <1>1, <1>2
  <2> QED BY <1>2, <2>1, LargestOK
<1>4. last = i
  BY <1>1, <1>2, <1>3
<1>5. opens # {} /\ ~closed /\ Len(t) - last + 1 <= MaxHeld
  BY <1>2, <1>4
<1>6. Held(t) = Len(t) - last + 1
  BY <1>5 DEF Held
<1> QED BY <1>1, <1>4, <1>6

\* A character with its channel.
Pairs(C, E) == C \X E

\* What channel ch gets of each character.
PartOf(ch, C, E) == [c \in Pairs(C, E) |-> IF c[1] = ch THEN <<c[2]>> ELSE <<>>]

\* What a channel gets of a character is a text.
LEMMA PartOfType ==
  ASSUME NEW ch, NEW C, NEW E
  PROVE  PartOf(ch, C, E) \in Pieces(Pairs(C, E), E)
<1> SUFFICES ASSUME NEW c \in Pairs(C, E) PROVE (IF c[1] = ch THEN <<c[2]>> ELSE <<>>) \in Seq(E)
  BY DEF PartOf, Pieces
<1>1. c[2] \in E
  BY DEF Pairs
<1>2. <<c[2]>> \in Seq(E) /\ <<>> \in Seq(E)
  BY <1>1
<1> QED BY <1>2

\* What a channel gets, it gets character by character.
LEMMA OfMap ==
  ASSUME NEW ch, NEW C, NEW E, NEW s \in Seq(Pairs(C, E))
  PROVE  Of(ch, s) = FlatMap(PartOf(ch, C, E), s)
<1> DEFINE D == Pairs(C, E)
<1>1. s \in Seq(D)
  OBVIOUS
<1>2. \A c \in D : PartOf(ch, C, E)[c] = IF c[1] = ch THEN <<c[2]>> ELSE <<>>
  BY DEF PartOf
<1> HIDE DEF D
<1>3. \A i \in DOMAIN s : s[i] \in D
  BY <1>1
<1>4. [i \in DOMAIN s |-> IF s[i][1] = ch THEN <<s[i][2]>> ELSE <<>>] = Mapped(PartOf(ch, C, E), s)
  BY <1>2, <1>3 DEF Mapped
<1> QED BY <1>4 DEF Of, FlatMap

\* What a channel gets of two parts.
LEMMA OfConcat ==
  ASSUME NEW ch, NEW C, NEW E, NEW s \in Seq(Pairs(C, E)), NEW t \in Seq(Pairs(C, E))
  PROVE  Of(ch, s \o t) = Of(ch, s) \o Of(ch, t) /\ Of(ch, s) \in Seq(E)
<1> DEFINE D == Pairs(C, E)
           h == PartOf(ch, C, E)
<1>1. h \in Pieces(D, E) /\ s \in Seq(D) /\ t \in Seq(D)
  BY PartOfType
<1> DEFINE u == s \o t
<1>2. \A q \in Seq(D) : Of(ch, q) = FlatMap(h, q)
  BY OfMap
<1> HIDE DEF D, h
<1>3. u \in Seq(D)
  BY <1>1
<1>4. FlatMap(h, s \o t) = FlatMap(h, s) \o FlatMap(h, t) /\ FlatMap(h, s) \in Seq(E)
  BY <1>1, FlatMapConcat, FlatMapType
<1>5. Of(ch, u) = FlatMap(h, u) /\ Of(ch, s) = FlatMap(h, s) /\ Of(ch, t) = FlatMap(h, t)
  BY <1>1, <1>2, <1>3
<1> QED BY <1>4, <1>5

\* No channel gets anything of an empty text.
LEMMA OfEmpty == \A ch : Of(ch, <<>>) = <<>>
<1> TAKE ch
<1>1. <<>> \in Seq(Pairs({}, {}))
  OBVIOUS
<1>2. Of(ch, <<>>) = FlatMap(PartOf(ch, {}, {}), <<>>)
  BY ONLY <1>1, OfMap
<1> QED BY <1>2, FlatMapEmpty

\* A text on one channel, character by character.
LEMMA OnType ==
  ASSUME NEW E, NEW C, NEW x \in Seq(E), NEW d \in C
  PROVE  On(d, x) \in Seq(Pairs(C, E)) /\ Len(On(d, x)) = Len(x) /\ \A i \in 1 .. Len(x) : On(d, x)[i] = <<d, x[i]>>
<1> DEFINE D == Pairs(C, E)
<1>1. Len(x) \in Nat /\ DOMAIN x = 1 .. Len(x) /\ \A i \in 1 .. Len(x) : <<d, x[i]>> \in D
  BY DEF Pairs
<1>2. On(d, x) = [i \in 1 .. Len(x) |-> <<d, x[i]>>]
  BY <1>1 DEF On
<1> HIDE DEF D
<1>3. On(d, x) \in Seq(D) /\ Len(On(d, x)) = Len(x)
  BY <1>1, <1>2
<1> QED BY <1>2, <1>3 DEF D

\* A channel gets the text that goes out on it, and no other.
LEMMA OfOn ==
  ASSUME NEW E, NEW x \in Seq(E), NEW d, NEW ch
  PROVE  Of(ch, On(d, x)) = IF ch = d THEN x ELSE <<>>
<1> DEFINE Ok(q) == Of(ch, On(d, q)) = IF ch = d THEN q ELSE <<>>
           T == {n \in Nat : \A q \in Seq(E) : Len(q) = n => Ok(q)}
           C == {d}
<1>0. d \in C
  OBVIOUS
<1> HIDE DEF C
<1>1. 0 \in T
  <2>1. On(d, <<>>) = <<>>
    BY DEF On
  <2>2. Ok(<<>>)
    BY <2>1, OfEmpty
  <2> HIDE DEF Ok
  <2>3. \A q \in Seq(E) : Len(q) = 0 => q = <<>>
    OBVIOUS
  <2> QED BY <2>2, <2>3
<1>2. ASSUME NEW n \in Nat, n \in T PROVE n + 1 \in T
  <2> SUFFICES ASSUME NEW q \in Seq(E), Len(q) = n + 1 PROVE Ok(q)
    OBVIOUS
  <2>1. PICK p \in Seq(E), e \in E : q = Append(p, e) /\ Len(p) = n
    BY SeqSnoc
  <2>2. Ok(p)
    BY <1>2, <2>1
  <2> DEFINE r == <<e>>
             g == <<<<d, e>>>>
             D == Pairs(C, E)
  <2>3. r \in Seq(E) /\ q = p \o r /\ g \in Seq(D) /\ d \in C
    <3>1. <<d, e>> \in D
      BY <1>0 DEF Pairs
    <3> HIDE DEF D
    <3> QED BY <1>0, <2>1, <3>1
  <2>4. On(d, p) \in Seq(D) /\ Len(On(d, p)) = n /\ \A i \in 1 .. n : On(d, p)[i] = <<d, p[i]>>
    BY <2>1, <2>3, OnType
  <2>5. On(d, q) \in Seq(D) /\ Len(On(d, q)) = n + 1 /\ \A i \in 1 .. n + 1 : On(d, q)[i] = <<d, q[i]>>
    <3>1. On(d, q) \in Seq(D) /\ Len(On(d, q)) = Len(q) /\ \A i \in 1 .. Len(q) : On(d, q)[i] = <<d, q[i]>>
      BY ONLY q \in Seq(E), <1>0, OnType
    <3>2. Len(q) = n + 1
      OBVIOUS
    <3> HIDE DEF D
    <3> QED BY ONLY <3>1, <3>2
  <2>6. On(d, q) = On(d, p) \o g
    <3>0. n \in Nat /\ q[n + 1] = e /\ \A i \in 1 .. n : q[i] = p[i]
      BY <2>1
    <3>1. \A i \in 1 .. n : On(d, q)[i] = On(d, p)[i]
      <4> TAKE i \in 1 .. n
      <4>1. i \in 1 .. n + 1
        OBVIOUS
      <4> QED BY ONLY <2>4, <2>5, <3>0, <4>1, i \in 1 .. n
    <3>2. \A j \in 1 .. 1 : On(d, q)[n + j] = g[j]
      <4>1. n + 1 \in 1 .. n + 1
        OBVIOUS
      <4>2. On(d, q)[n + 1] = <<d, e>> /\ g[1] = <<d, e>>
        BY ONLY <2>5, <3>0, <4>1
      <4>3. \A j \in 1 .. 1 : j = 1
        OBVIOUS
      <4> HIDE DEF g
      <4> QED BY <4>2, <4>3
    <3>3. Len(g) = 1
      OBVIOUS
    <3> DEFINE x1 == On(d, p)
               z == On(d, q)
    <3>4. x1 \in Seq(D) /\ g \in Seq(D) /\ z \in Seq(D) /\ Len(z) = Len(x1) + Len(g)
          /\ (\A i \in 1 .. Len(x1) : z[i] = x1[i]) /\ (\A j \in 1 .. Len(g) : z[Len(x1) + j] = g[j])
      <4> HIDE DEF g, D
      <4> QED BY <2>3, <2>4, <2>5, <3>1, <3>2, <3>3
    <3> HIDE DEF x1, z, g, D
    <3>5. z = x1 \o g
      BY ONLY <3>4, TwoParts
    <3> QED BY <3>5 DEF x1, z
  <2>7. Of(ch, g) = IF ch = d THEN r ELSE <<>>
    <3>1. FlatMap(PartOf(ch, C, E), g) = PartOf(ch, C, E)[<<d, e>>]
      <4>1. <<d, e>> \in D /\ PartOf(ch, C, E) \in Pieces(D, E)
        BY <1>0, PartOfType DEF Pairs
      <4> DEFINE de == <<d, e>>
      <4> HIDE DEF de, D
      <4>2. FlatMap(PartOf(ch, C, E), <<de>>) = PartOf(ch, C, E)[de]
        BY <4>1, FlatMapOne DEF de
      <4> QED BY <4>2 DEF de
    <3>2. PartOf(ch, C, E)[<<d, e>>] = IF d = ch THEN <<e>> ELSE <<>>
      BY <1>0 DEF PartOf, Pairs
    <3>3. Of(ch, g) = FlatMap(PartOf(ch, C, E), g)
      BY <2>3, OfMap
    <3> QED BY <3>1, <3>2, <3>3
  <2>8. Of(ch, On(d, q)) = Of(ch, On(d, p)) \o Of(ch, g)
    <3> DEFINE x1 == On(d, p)
    <3> DEFINE g1 == g
    <3>1. x1 \in Seq(Pairs(C, E)) /\ g1 \in Seq(Pairs(C, E))
      BY <2>3, <2>4
    <3> HIDE DEF x1, g1
    <3>2. Of(ch, x1 \o g1) = Of(ch, x1) \o Of(ch, g1) /\ Of(ch, x1) \in Seq(E)
      BY ONLY <3>1, OfConcat
    <3> QED BY <2>6, <3>2 DEF x1, g1
  <2>9. CASE ch = d
    BY <2>2, <2>3, <2>7, <2>8, <2>9
  <2>10. CASE ch # d
    <3>1. <<>> \o <<>> = <<>>
      OBVIOUS
    <3> QED BY <2>2, <2>7, <2>8, <2>10, <3>1
  <2> QED BY <2>9, <2>10
<1> HIDE DEF T
<1>3. Len(x) \in T
  BY <1>1, <1>2, LenProperties, NatSetInduction
<1> QED BY <1>3 DEF T

\* The characters of a text on channels.
CharsOf(s) == [i \in DOMAIN s |-> s[i][2]]

\* The characters of a text on channels, one by one.
LEMMA CharsOfType ==
  ASSUME NEW C, NEW E, NEW s \in Seq(Pairs(C, E))
  PROVE  CharsOf(s) \in Seq(E) /\ Len(CharsOf(s)) = Len(s) /\ \A i \in 1 .. Len(s) : CharsOf(s)[i] = s[i][2]
<1>1. Len(s) \in Nat /\ DOMAIN s = 1 .. Len(s) /\ \A i \in 1 .. Len(s) : s[i] \in Pairs(C, E)
  BY LenProperties
<1>2. \A i \in 1 .. Len(s) : s[i][2] \in E
  BY <1>1 DEF Pairs
<1>3. CharsOf(s) = [i \in 1 .. Len(s) |-> s[i][2]]
  BY <1>1 DEF CharsOf
<1> QED BY <1>1, <1>2, <1>3

\* A text's characters come behind those before it, whatever its channel.
LEMMA CharsOfAdded ==
  ASSUME NEW C, NEW E, NEW s \in Seq(Pairs(C, E)), NEW d \in C, NEW x \in Seq(E)
  PROVE  CharsOf(s \o On(d, x)) = CharsOf(s) \o x
<1> DEFINE D == Pairs(C, E)
           g == On(d, x)
           u == s \o g
<1>1. g \in Seq(D) /\ Len(g) = Len(x) /\ \A i \in 1 .. Len(x) : g[i] = <<d, x[i]>>
  BY OnType
<1>2. CharsOf(s) \in Seq(E) /\ Len(CharsOf(s)) = Len(s) /\ \A i \in 1 .. Len(s) : CharsOf(s)[i] = s[i][2]
  BY CharsOfType
<1>3. s \in Seq(D)
  OBVIOUS
<1> HIDE DEF D, g
<1>4. /\ u \in Seq(D) /\ Len(s) \in Nat /\ Len(g) \in Nat /\ Len(u) = Len(s) + Len(g)
      /\ (\A i \in 1 .. Len(s) : u[i] = s[i]) /\ (\A j \in 1 .. Len(g) : u[Len(s) + j] = g[j])
  <2>1. g \in Seq(D)
    BY <1>1
  <2> QED BY ONLY <1>3, <2>1
<1> HIDE DEF u
<1>5. CharsOf(u) \in Seq(E) /\ Len(CharsOf(u)) = Len(u) /\ \A i \in 1 .. Len(u) : CharsOf(u)[i] = u[i][2]
  BY <1>4, CharsOfType DEF D
<1> DEFINE a == CharsOf(s)
           z == CharsOf(u)
<1>6. /\ a \in Seq(E) /\ x \in Seq(E) /\ z \in Seq(E) /\ Len(z) = Len(a) + Len(x)
      /\ (\A i \in 1 .. Len(a) : z[i] = a[i])
  <2>1. /\ x \in Seq(E) /\ a \in Seq(E) /\ z \in Seq(E)
        /\ Len(a) = Len(s) /\ Len(z) = Len(u) /\ Len(g) = Len(x)
    BY <1>1, <1>2, <1>5
  <2>2. Len(z) = Len(a) + Len(x)
    BY ONLY <1>4, <2>1
  <2>3. ASSUME NEW i \in 1 .. Len(a) PROVE z[i] = a[i]
    <3>1. i \in 1 .. Len(s) /\ i \in 1 .. Len(u)
      BY ONLY <1>4, <2>1, <2>3
    <3>2. u[i] = s[i]
      BY ONLY <1>4, <3>1
    <3> QED BY ONLY <1>2, <1>5, <3>1, <3>2 DEF a, z
  <2> QED BY ONLY <2>1, <2>2, <2>3
<1>7. \A j \in 1 .. Len(x) : z[Len(a) + j] = x[j]
  <2> TAKE j \in 1 .. Len(x)
  <2>1. Len(s) + j \in 1 .. Len(u) /\ j \in 1 .. Len(g)
    BY <1>1, <1>4
  <2>2. z[Len(s) + j] = u[Len(s) + j][2] /\ u[Len(s) + j] = <<d, x[j]>>
    BY <1>1, <1>4, <1>5, <2>1
  <2> QED BY <1>2, <2>2
<1> HIDE DEF a, z
<1>8. z = a \o x
  BY ONLY <1>6, <1>7, TwoParts
<1> QED BY <1>8 DEF a, z, u, g

\* What follows may make a placeholder that begins at place i.
MayStart(r, i) ==
  /\ i \in 1 .. Len(r) /\ r[i] = Open
  /\ i + 1 <= Len(r) => r[i + 1] = Open
  /\ i + 2 <= Len(r) => r[i + 2] \in Name
  /\ i + 3 <= Len(r) => r[i + 3] = Close
  /\ i + 4 <= Len(r) => r[i + 4] = Close

\* Whatever may become a placeholder although a part of it has been emitted
\* was cut behind its first bracket.
CutsKnown(ch, e, r, sp) ==
  \A i \in 1 .. Len(e) : Len(e) < i + 4 /\ MayStart(r, i) => <<ch, i>> \in sp

\* r is the beginning of q.
Begins(r, q) == Len(r) <= Len(q) /\ \A i \in 1 .. Len(r) : q[i] = r[i]

\* No placeholder was cut between its first two brackets.
Uncut(ch, q, sp) == \A i \in Starts(q) : <<ch, i>> \notin sp

\* u consists of a and b.
Split(u, a, b) == u = a \o b

\* A text of three parts can be taken as two in two ways.
LEMMA SplitAgain ==
  ASSUME NEW D, NEW a \in Seq(D), NEW b \in Seq(D), NEW c \in Seq(D), NEW ab, NEW bc, NEW u,
         Split(ab, a, b), Split(bc, b, c)
  PROVE  Split(u, ab, c) <=> Split(u, a, bc)
<1>1. (a \o b) \o c = a \o (b \o c)
  BY ConcatAssociative
<1> QED BY <1>1 DEF Split

\* Where a placeholder begins, one may begin in any beginning of the text.
LEMMA StartsMayStart ==
  ASSUME NEW r \in Seq(Char), NEW q \in Seq(Char), Begins(r, q), NEW i \in 1 .. Len(r)
  PROVE  /\ i \in Starts(q) => MayStart(q, i)
         /\ MayStart(q, i) => MayStart(r, i)
         /\ i \in Starts(r) => i \in Starts(q)
<1>1. /\ Len(r) \in Nat /\ Len(q) \in Nat /\ i \in Nat /\ 1 <= i
      /\ Len(r) <= Len(q) /\ \A k \in 1 .. Len(r) : q[k] = r[k]
  BY DEF Begins
<1>2. i \in Starts(q) => MayStart(q, i)
  BY <1>1 DEF Starts, MayStart
<1>3. ASSUME MayStart(q, i) PROVE MayStart(r, i)
  <2>1. /\ i + 1 <= Len(r) => i + 1 \in 1 .. Len(r) /\ i + 1 <= Len(q)
        /\ i + 2 <= Len(r) => i + 2 \in 1 .. Len(r) /\ i + 2 <= Len(q)
        /\ i + 3 <= Len(r) => i + 3 \in 1 .. Len(r) /\ i + 3 <= Len(q)
        /\ i + 4 <= Len(r) => i + 4 \in 1 .. Len(r) /\ i + 4 <= Len(q)
    BY <1>1
  <2> QED BY <1>1, <1>3, <2>1 DEF MayStart
<1>4. ASSUME i \in Starts(r) PROVE i \in Starts(q)
  <2>1. /\ i \in 1 .. Len(r) /\ i + 1 \in 1 .. Len(r) /\ i + 2 \in 1 .. Len(r) /\ i + 3 \in 1 .. Len(r)
        /\ i + 4 \in 1 .. Len(r) /\ i \in 1 .. Len(q) - 4
    BY <1>1, <1>4 DEF Starts
  <2> QED BY <1>1, <1>4, <2>1 DEF Starts
<1> QED BY <1>2, <1>3, <1>4

\* More of a text that was cut well can be rehydrated by itself.
LEMMA EmittedMore ==
  ASSUME NEW ch, NEW sp, NEW e \in Seq(Char), NEW x \in Seq(Char), NEW r \in Seq(Char), NEW q \in Seq(Char),
         NEW u \in Seq(Char), Split(u, e, x),
         CutsKnown(ch, e, r, sp), Len(e) <= Len(r), Begins(r, q), Begins(u, q), Uncut(ch, q, sp)
  PROVE  Split(RehydrateText(u), RehydrateText(e), RehydrateText(x))
<1> SUFFICES ASSUME NEW i \in KnownAt(u), i <= Len(e), Len(e) < i + 4 PROVE FALSE
  BY RehydrateConcat DEF Split
<1>1. u \in Seq(Char) /\ i \in Starts(u) /\ Len(e) \in Nat /\ Len(r) \in Nat
  BY DEF KnownAt
<1>2. i \in 1 .. Len(u) /\ i \in 1 .. Len(e) /\ i \in 1 .. Len(r)
  <2>1. Len(u) \in Nat /\ i \in 1 .. Len(u) - 4
    BY <1>1, LenProperties DEF Starts
  <2> QED BY <1>1, <2>1
<1>3. i \in Starts(q)
  BY <1>1, <1>2, StartsMayStart
<1>4. MayStart(r, i)
  BY <1>2, <1>3, StartsMayStart
<1> QED BY <1>2, <1>3, <1>4 DEF CutsKnown, Uncut

\* What feed emits of a text and what it holds back.
Emitted(text) == SubSeq(text, 1, Len(text) - Held(text))
Remaining(text) == SubSeq(text, Len(text) - Held(text) + 1, Len(text))

\* One piece more of a channel's text: what is emitted of it and what is not.
LEMMA FeedText ==
  ASSUME NEW ch, NEW sp, NEW sp2, sp \subseteq sp2,
         NEW e \in Seq(Char), NEW h \in Seq(Char), NEW piece \in Seq(Char), piece # <<>>,
         NEW r \in Seq(Char), Split(r, e, h), CutsKnown(ch, e, r, sp),
         NEW text \in Seq(Char), Split(text, h, piece), NEW q \in Seq(Char), Split(q, r, piece),
         piece[Len(piece)] = Open => <<ch, Len(q)>> \in sp2,
         NEW f, Split(f, e, Emitted(text))
  PROVE  /\ f \in Seq(Char) /\ Split(q, f, Remaining(text))
         /\ CutsKnown(ch, f, q, sp2)
         /\ Uncut(ch, q, sp2) => Split(RehydrateText(f), RehydrateText(e), RehydrateText(Emitted(text)))
<1> DEFINE x == Emitted(text)
           y == Remaining(text)
<1>1. r \in Seq(Char) /\ text \in Seq(Char) /\ q \in Seq(Char)
  OBVIOUS
<1>a. r = e \o h
  BY DEF Split
<1>b. text = h \o piece
  BY DEF Split
<1>c. q = r \o piece
  BY DEF Split
<1>d. f = e \o x
  BY DEF Split
<1>x. x = SubSeq(text, 1, Len(text) - Held(text))
  BY DEF Emitted
<1>s. Split(f, e, x)
  OBVIOUS
<1>y. y = SubSeq(text, Len(text) - Held(text) + 1, Len(text))
  BY DEF Remaining
<1> HIDE DEF x, y
<1>2. Held(text) \in 0 .. Len(text) /\ Len(text) \in Nat
  BY <1>1, HeldOK, LenProperties
<1> DEFINE safe == Len(text) - Held(text)
<1>3. safe \in 0 .. Len(text) /\ safe \in Nat
  BY <1>2
<1>4. x \in Seq(Char) /\ Len(x) = safe
  <2>1. 0 \in Nat /\ 0 <= safe /\ safe <= Len(text) /\ 0 + 1 = 1 /\ safe - 0 = safe
    BY <1>2, <1>3
  <2>2. SubSeq(text, 0 + 1, safe) \in Seq(Char) /\ Len(SubSeq(text, 0 + 1, safe)) = safe - 0
    BY ONLY <1>1, <1>3, <2>1, PartOK
  <2> QED BY <1>x, <2>1, <2>2
<1>5. y \in Seq(Char) /\ Len(y) = Held(text)
  <2>1. safe <= Len(text) /\ Len(text) <= Len(text) /\ Len(text) - safe = Held(text)
    BY <1>2, <1>3
  <2>2. SubSeq(text, safe + 1, Len(text)) \in Seq(Char) /\ Len(SubSeq(text, safe + 1, Len(text))) = Len(text) - safe
    BY ONLY <1>1, <1>2, <1>3, <2>1, PartOK
  <2> QED BY <1>y, <2>1, <2>2
<1>6. text = x \o y
  <2>1. text = SubSeq(text, 1, safe) \o SubSeq(text, safe + 1, Len(text))
    BY ONLY <1>1, <1>3, SplitAt
  <2> QED BY <1>x, <1>y, <2>1
<1>7. q = e \o text /\ q = f \o y /\ f \in Seq(Char)
  <2>1. Split(q, e, text)
    BY ONLY e \in Seq(Char), h \in Seq(Char), piece \in Seq(Char), Split(r, e, h), Split(text, h, piece),
       Split(q, r, piece), SplitAgain
  <2>2. Split(text, x, y)
    BY ONLY <1>6 DEF Split
  <2>3. x \in Seq(Char) /\ y \in Seq(Char)
    BY ONLY <1>4, <1>5
  <2>4. Split(q, f, y)
    BY ONLY e \in Seq(Char), <2>1, <2>2, <2>3, <1>s, SplitAgain
  <2>5. f \in Seq(Char)
    BY ONLY <1>d, <2>3, e \in Seq(Char)
  <2> QED BY ONLY <2>1, <2>4, <2>5 DEF Split
<1>8. /\ Len(q) = Len(e) + Len(text) /\ \A k \in 1 .. Len(text) : q[Len(e) + k] = text[k]
      /\ \A k \in 1 .. Len(e) : q[k] = e[k]
  <2>1. q = e \o text
    BY <1>7
  <2> QED BY ONLY <1>1, <2>1, e \in Seq(Char)
<1>9. Len(f) = Len(e) + safe /\ Len(q) = Len(f) + Held(text) /\ \A k \in 1 .. Len(f) : q[k] = f[k]
  <2>1. Len(f) = Len(e) + Len(x)
    BY ONLY <1>d, e \in Seq(Char), <1>4, Both
  <2>2. Len(q) = Len(f) + Len(y) /\ \A k \in 1 .. Len(f) : q[k] = f[k]
    <3>1. q = f \o y /\ f \in Seq(Char) /\ y \in Seq(Char)
      BY <1>5, <1>7
    <3> QED BY ONLY <3>1
  <2> QED BY <1>4, <1>5, <2>1, <2>2
<1>10. /\ Len(r) = Len(e) + Len(h) /\ Len(q) = Len(r) + Len(piece) /\ Len(text) = Len(h) + Len(piece)
       /\ \A k \in 1 .. Len(r) : q[k] = r[k]
       /\ \A k \in 1 .. Len(piece) : q[Len(r) + k] = piece[k]
  <2>1. Len(r) = Len(e) + Len(h)
    BY ONLY <1>a, e \in Seq(Char), h \in Seq(Char), Both
  <2>2. /\ Len(q) = Len(r) + Len(piece) /\ \A k \in 1 .. Len(r) : q[k] = r[k]
        /\ \A k \in 1 .. Len(piece) : q[Len(r) + k] = piece[k]
    BY ONLY <1>c, <1>1, piece \in Seq(Char), Both
  <2>3. Len(text) = Len(h) + Len(piece)
    BY ONLY <1>b, h \in Seq(Char), piece \in Seq(Char), Both
  <2> QED BY <2>1, <2>2, <2>3
<1>11. /\ Len(e) \in Nat /\ Len(h) \in Nat /\ Len(piece) \in Nat /\ Len(piece) >= 1 /\ Len(r) \in Nat
       /\ Len(q) \in Nat /\ Len(f) \in Nat /\ Held(text) \in Nat
  <2>1. Len(piece) >= 1 /\ Len(piece) \in Nat
    BY ONLY piece \in Seq(Char), piece # <<>>
  <2>2. \A s \in Seq(Char) : Len(s) \in Nat
    OBVIOUS
  <2>3. Held(text) \in Nat
    BY ONLY <1>2
  <2> QED BY ONLY <1>1, <1>7, <2>1, <2>2, <2>3, e \in Seq(Char), h \in Seq(Char)
<1> HIDE DEF safe
<1>12. CutsKnown(ch, f, q, sp2)
  <2> SUFFICES ASSUME NEW i \in 1 .. Len(f), Len(f) < i + 4, MayStart(q, i) PROVE <<ch, i>> \in sp2
    BY DEF CutsKnown
  <2>1. /\ q[i] = Open /\ i \in Nat /\ 1 <= i /\ i <= Len(f) /\ i <= Len(q)
        /\ i + 1 <= Len(q) => q[i + 1] = Open
        /\ i + 2 <= Len(q) => q[i + 2] \in Name
        /\ i + 3 <= Len(q) => q[i + 3] = Close
        /\ i + 4 <= Len(q) => q[i + 4] = Close
    BY ONLY <1>9, <1>11, i \in 1 .. Len(f), MayStart(q, i) DEF MayStart
  <2>2. Open # Close /\ Open \notin Name /\ Close \notin Name
    BY CharAssumption
  <2>3. CASE Held(text) # 0
    <3>1. text[safe + 1] = Open /\ text[safe + 2] = Open /\ safe + 2 <= Len(text)
      <4>1. text[Len(text) - Held(text) + 1] = Open /\ text[Len(text) - Held(text) + 1 + 1] = Open
            /\ Held(text) # 1
        BY ONLY <1>1, <2>3, HeldOK
      <4>2. Len(text) - Held(text) + 1 = safe + 1 /\ Len(text) - Held(text) + 1 + 1 = safe + 2 /\ safe + 2 <= Len(text)
        BY ONLY <1>2, <2>3, <4>1 DEF safe
      <4> QED BY ONLY <4>1, <4>2
    <3>2. q[Len(f) + 1] = Open /\ q[Len(f) + 2] = Open /\ Len(f) + 2 <= Len(q)
      <4>1. safe + 1 \in 1 .. Len(text) /\ safe + 2 \in 1 .. Len(text)
            /\ Len(e) + (safe + 1) = Len(f) + 1 /\ Len(e) + (safe + 2) = Len(f) + 2
            /\ Len(f) + 2 <= Len(q)
        <5>1. /\ Len(q) = Len(e) + Len(text) /\ Len(f) = Len(e) + safe
              /\ Len(e) \in Nat /\ Len(text) \in Nat /\ safe \in Nat /\ safe + 2 <= Len(text)
          BY ONLY <1>2, <1>3, <1>8, <1>9, <1>11, <3>1
        <5> QED BY ONLY <5>1
      <4> QED BY ONLY <1>8, <3>1, <4>1
    <3>3. Len(f) + 1 = i + 1 \/ Len(f) + 1 = i + 2 \/ Len(f) + 1 = i + 3 \/ Len(f) + 1 = i + 4
      <4>1. \A a \in Nat, b \in Nat : b <= a /\ a < b + 4 => a + 1 = b + 1 \/ a + 1 = b + 2 \/ a + 1 = b + 3 \/ a + 1 = b + 4
        OBVIOUS
      <4>2. Len(f) \in Nat /\ i \in Nat /\ i <= Len(f) /\ Len(f) < i + 4
        BY ONLY <1>11, <2>1, Len(f) < i + 4
      <4> QED BY ONLY <4>1, <4>2, Zenon
    <3>4. Len(f) + 1 # i + 2 /\ Len(f) + 1 # i + 3 /\ Len(f) + 1 # i + 4
      <4>1. i + 2 <= Len(q) \/ Len(f) + 1 # i + 2
        BY ONLY <1>11, <2>1, <3>2
      <4>2. i + 3 <= Len(q) \/ Len(f) + 1 # i + 3
        BY ONLY <1>11, <2>1, <3>2
      <4>3. i + 4 <= Len(q) \/ Len(f) + 1 # i + 4
        BY ONLY <1>11, <2>1, <3>2
      <4> QED BY ONLY <2>1, <2>2, <3>2, <4>1, <4>2, <4>3
    <3>5. Len(f) + 1 # i + 1
      <4> SUFFICES ASSUME Len(f) + 1 = i + 1 PROVE FALSE
        OBVIOUS
      <4>1. Len(f) + 2 = i + 2
        BY ONLY <1>11, <2>1, Len(f) + 1 = i + 1
      <4> QED BY ONLY <2>1, <2>2, <3>2, <4>1
    <3> QED BY ONLY <3>3, <3>4, <3>5
  <2>4. CASE i <= Len(e)
    <3>1. Len(e) < i + 4 /\ i \in 1 .. Len(r) /\ i \in 1 .. Len(e) /\ Len(r) <= Len(q)
      BY ONLY <1>3, <1>9, <1>10, <1>11, <2>1, <2>4, Len(f) < i + 4
    <3>2. MayStart(r, i)
      <4>1. Begins(r, q)
        BY ONLY <1>10, <3>1 DEF Begins
      <4> QED BY ONLY <1>1, <3>1, <4>1, MayStart(q, i), StartsMayStart
    <3> QED BY <3>1, <3>2 DEF CutsKnown
  <2>5. CASE Held(text) = 0 /\ i = Len(q)
    <3>1. q[Len(q)] = piece[Len(piece)]
      <4>1. Len(piece) \in 1 .. Len(piece) /\ Len(r) + Len(piece) = Len(q)
        BY ONLY <1>10, <1>11
      <4> QED BY ONLY <1>10, <4>1
    <3> QED BY <2>1, <2>5, <3>1
  <2>6. ASSUME Held(text) = 0, ~(i <= Len(e)), i # Len(q) PROVE FALSE
    <3> DEFINE k == i - Len(e)
    <3>1. /\ k \in 1 .. Len(text) - 1 /\ Len(text) < k + 4 /\ k \in Nat /\ Len(text) - k + 1 <= MaxHeld
          /\ Len(q) = Len(f)
      <4>1. Len(q) = Len(f) /\ i <= Len(q)
        BY ONLY <1>9, <1>11, <2>1, <2>6
      <4>2. k \in 1 .. Len(text) - 1 /\ Len(text) < k + 4 /\ k \in Nat
        BY ONLY <1>2, <1>8, <1>11, <2>1, <2>6, <4>1, Len(f) < i + 4
      <4>3. MaxHeld \in Nat /\ MaxHeld >= 5
        BY BoundsAssumption
      <4>4. Len(text) - k + 1 <= MaxHeld
        BY ONLY <1>2, <4>2, <4>3
      <4> QED BY ONLY <4>1, <4>2, <4>4
    <3>2. Len(e) + k = i /\ Len(e) + (k + 1) = i + 1 /\ Len(e) + (k + 2) = i + 2 /\ Len(e) + (k + 3) = i + 3
      BY ONLY <1>11, <2>1
    <3> HIDE DEF k
    <3>3. /\ text[k] = Open /\ text[k + 1] = Open
          /\ k + 2 <= Len(text) => text[k + 2] \in Name
          /\ k + 3 <= Len(text) => text[k + 3] = Close
      <4>1. /\ k \in 1 .. Len(text) /\ k + 1 \in 1 .. Len(text)
            /\ k + 2 <= Len(text) => k + 2 \in 1 .. Len(text) /\ i + 2 <= Len(q)
            /\ k + 3 <= Len(text) => k + 3 \in 1 .. Len(text) /\ i + 3 <= Len(q)
            /\ i + 1 <= Len(q)
        <5>1. /\ Len(q) = Len(e) + Len(text) /\ Len(e) \in Nat /\ Len(text) \in Nat
              /\ k \in Nat /\ k \in 1 .. Len(text) - 1 /\ i = Len(e) + k
          BY ONLY <1>2, <1>8, <1>11, <3>1, <3>2
        <5>2. k \in 1 .. Len(text) /\ k + 1 \in 1 .. Len(text) /\ i + 1 <= Len(q)
          BY ONLY <5>1
        <5>3. k + 2 <= Len(text) => k + 2 \in 1 .. Len(text) /\ i + 2 <= Len(q)
          BY ONLY <5>1
        <5>4. k + 3 <= Len(text) => k + 3 \in 1 .. Len(text) /\ i + 3 <= Len(q)
          BY ONLY <5>1
        <5> QED BY ONLY <5>2, <5>3, <5>4
      <4>2. text[k] = Open /\ text[k + 1] = Open
        BY ONLY <1>8, <2>1, <3>2, <4>1
      <4>3. k + 2 <= Len(text) => text[k + 2] \in Name
        <5> SUFFICES ASSUME k + 2 <= Len(text) PROVE text[k + 2] \in Name
          OBVIOUS
        <5>1. k + 2 \in 1 .. Len(text) /\ i + 2 <= Len(q)
          BY ONLY k + 2 <= Len(text), <4>1
        <5>2. q[Len(e) + (k + 2)] = text[k + 2]
          BY ONLY <1>8, <5>1
        <5>3. q[i + 2] \in Name
          BY ONLY <2>1, <5>1
        <5> QED BY ONLY <3>2, <5>2, <5>3
      <4>4. k + 3 <= Len(text) => text[k + 3] = Close
        BY ONLY <1>8, <2>1, <3>2, <4>1
      <4> QED BY ONLY <4>2, <4>3, <4>4
    <3>4. \A j \in k + 1 .. Len(text) - 1 : ~(text[j] = Open /\ text[j + 1] = Open)
      <4> TAKE j \in k + 1 .. Len(text) - 1
      <4>1. (j = k + 1 /\ j + 1 = k + 2 /\ k + 2 <= Len(text)) \/ (j = k + 2 /\ k + 2 <= Len(text))
        BY ONLY <1>2, <3>1, j \in k + 1 .. Len(text) - 1
      <4> QED BY ONLY <2>2, <3>3, <4>1
    <3>5. \A j \in k .. Len(text) - 1 : ~(text[j] = Close /\ text[j + 1] = Close)
      <4> TAKE j \in k .. Len(text) - 1
      <4>1. j = k \/ j = k + 1 \/ (j = k + 2 /\ k + 2 <= Len(text))
        BY ONLY <1>2, <3>1, j \in k .. Len(text) - 1
      <4> QED BY ONLY <2>2, <3>3, <4>1
    <3>6. Held(text) # 0
      BY ONLY <1>1, <3>1, <3>3, <3>4, <3>5, HeldBack
    <3> QED BY <2>6, <3>6
  <2> QED BY <2>3, <2>4, <2>5, <2>6
<1>13. ASSUME Uncut(ch, q, sp2)
       PROVE  Split(RehydrateText(f), RehydrateText(e), RehydrateText(x))
  <2>1. Uncut(ch, q, sp)
    BY <1>13 DEF Uncut
  <2>2. Len(e) <= Len(r)
    BY ONLY <1>10, <1>11
  <2>3. Begins(r, q) /\ Begins(f, q)
    BY ONLY <1>9, <1>10, <1>11 DEF Begins
  <2>4. x \in Seq(Char) /\ f \in Seq(Char) /\ r \in Seq(Char) /\ q \in Seq(Char)
    BY <1>1, <1>4, <1>7
  <2>5. Split(f, e, x)
    BY ONLY <1>d DEF Split
  <2> QED BY ONLY <2>1, <2>2, <2>3, <2>4, <2>5, e \in Seq(Char), CutsKnown(ch, e, r, sp), EmittedMore
<1>14. Split(q, f, y)
  BY <1>7 DEF Split
<1> QED BY <1>7, <1>12, <1>13, <1>14 DEF x, y

\* What an event of the client's stream can name.
OutChannel == Channel \cup {Unnamed}

\* What is emitted of a text and what is not, together, are the text.
LEMMA EmittedOK ==
  ASSUME NEW t \in Seq(Char)
  PROVE  /\ Emitted(t) \in Seq(Char) /\ Remaining(t) \in Seq(Char)
         /\ Split(t, Emitted(t), Remaining(t))
         /\ Len(Remaining(t)) = Held(t)
         /\ \A i \in 1 .. Held(t) : Remaining(t)[i] = t[Len(t) - Held(t) + i]
<1> DEFINE safe == Len(t) - Held(t)
<1>1. Held(t) \in 0 .. Len(t) /\ Len(t) \in Nat
  BY HeldOK, LenProperties
<1>2. safe \in 0 .. Len(t) /\ safe \in Nat /\ 0 \in Nat /\ 0 <= safe /\ safe <= Len(t) /\ 0 + 1 = 1
      /\ Len(t) - safe = Held(t) /\ Len(t) <= Len(t)
  BY <1>1
<1>3. SubSeq(t, 0 + 1, safe) \in Seq(Char)
  BY ONLY <1>1, <1>2, t \in Seq(Char), PartOK
<1>4. /\ SubSeq(t, safe + 1, Len(t)) \in Seq(Char) /\ Len(SubSeq(t, safe + 1, Len(t))) = Len(t) - safe
      /\ \A i \in 1 .. Len(t) - safe : SubSeq(t, safe + 1, Len(t))[i] = t[safe + i]
  BY ONLY <1>1, <1>2, t \in Seq(Char), PartOK
<1>5. t = SubSeq(t, 1, safe) \o SubSeq(t, safe + 1, Len(t))
  BY ONLY <1>2, t \in Seq(Char), SplitAt
<1> QED BY ONLY <1>2, <1>3, <1>4, <1>5 DEF Emitted, Remaining, Split

\* What is held back may become a placeholder.
LEMMA RemainingOK ==
  ASSUME NEW t \in Seq(Char)
  PROVE  LET y == Remaining(t) IN
         /\ y \in Seq(Char) /\ Len(y) # 1
         /\ y # <<>> =>
              /\ Len(y) <= MaxHeld /\ y[1] = Open /\ y[2] = Open
              /\ \A i \in 1 .. Len(y) - 1 : ~(y[i] = Close /\ y[i + 1] = Close)
<1> DEFINE y == Remaining(t)
           n == Held(t)
           safe == Len(t) - n
<1>1. /\ y \in Seq(Char) /\ Len(y) = n /\ \A i \in 1 .. n : y[i] = t[safe + i]
  BY EmittedOK
<1>2. /\ n \in 0 .. Len(t) /\ n <= MaxHeld /\ n # 1
      /\ n # 0 => /\ t[safe + 1] = Open /\ t[(safe + 1) + 1] = Open
                  /\ \A i \in safe + 1 .. Len(t) - 1 : ~(t[i] = Close /\ t[i + 1] = Close)
  BY HeldOK
<1>3. Len(t) \in Nat
  OBVIOUS
<1>4. y # <<>> => n # 0
  BY ONLY <1>1
<1> HIDE DEF y, n
<1>5. ASSUME n # 0
      PROVE  /\ y[1] = Open /\ y[2] = Open
             /\ \A i \in 1 .. Len(y) - 1 : ~(y[i] = Close /\ y[i + 1] = Close)
  <2>1. n \in Nat /\ n >= 2 /\ 1 \in 1 .. n /\ 2 \in 1 .. n /\ (safe + 1) + 1 = safe + 2 /\ safe \in Nat
    BY ONLY <1>2, <1>3, <1>5
  <2>2. y[1] = Open /\ y[2] = Open
    BY ONLY <1>1, <1>2, <1>5, <2>1
  <2>3. ASSUME NEW i \in 1 .. Len(y) - 1 PROVE ~(y[i] = Close /\ y[i + 1] = Close)
    <3>1. i \in 1 .. n /\ i + 1 \in 1 .. n /\ safe + i \in safe + 1 .. Len(t) - 1 /\ (safe + i) + 1 = safe + (i + 1)
      BY ONLY <1>1, <1>2, <1>3, <2>1, <2>3
    <3>2. ~(t[safe + i] = Close /\ t[(safe + i) + 1] = Close)
      BY ONLY <1>2, <1>5, <3>1
    <3> QED BY ONLY <1>1, <3>1, <3>2
  <2> QED BY ONLY <2>2, <2>3
<1> QED BY ONLY <1>1, <1>2, <1>4, <1>5 DEF y

\* o, sent on, and p, held back, have all the characters of r.
AllOf(o, p, r) == Split(CharsOf(r), Dehydrated(CharsOf(o)), p)

\* What is sent on turns back into what it was made from.
LEMMA SentOn ==
  ASSUME NEW o \in Seq(Pairs(OutChannel, Client)), NEW d \in OutChannel, NEW x \in Seq(Char)
  PROVE  LET z == o \o On(d, RehydrateText(x)) IN
         /\ Split(Dehydrated(CharsOf(z)), Dehydrated(CharsOf(o)), x)
         /\ Dehydrated(CharsOf(o)) \in Seq(Char)
         /\ z \in Seq(Pairs(OutChannel, Client))
<1> DEFINE g == RehydrateText(x)
           h == On(d, g)
           z == o \o h
           a == CharsOf(o)
<1>1. g \in Seq(Client)
  BY RehydrateType
<1>2. a \in Seq(Client)
  BY CharsOfType
<1>3. h \in Seq(Pairs(OutChannel, Client))
  BY <1>1, OnType
<1>4. z \in Seq(Pairs(OutChannel, Client))
  <2> DEFINE D == Pairs(OutChannel, Client)
  <2>1. h \in Seq(D) /\ o \in Seq(D)
    BY <1>3
  <2> HIDE DEF D, h
  <2>2. o \o h \in Seq(D)
    BY ONLY <2>1
  <2> QED BY <2>2 DEF D
<1>5. Dehydrated(g) = x
  BY MadeFromRehydrated
<1> HIDE DEF g
<1>6. CharsOf(z) = a \o g
  BY <1>1, CharsOfAdded
<1> HIDE DEF a, z
<1>7. Dehydrated(a \o g) = Dehydrated(a) \o Dehydrated(g) /\ Dehydrated(a) \in Seq(Char)
  BY ONLY <1>1, <1>2, DehydratedConcat
<1>8. Split(Dehydrated(CharsOf(z)), Dehydrated(a), x)
  BY ONLY <1>5, <1>6, <1>7 DEF Split
<1> QED BY <1>4, <1>7, <1>8 DEF z, a, g

\* A piece of text more, of which a part is sent on and the rest held back.
LEMMA AllOfFed ==
  ASSUME NEW o \in Seq(Pairs(OutChannel, Client)), NEW r \in Seq(Pairs(Channel, Char)),
         NEW p \in Seq(Char), NEW ch \in Channel, NEW piece \in Seq(Char), AllOf(o, p, r),
         NEW text \in Seq(Char), Split(text, p, piece)
  PROVE  AllOf(o \o On(ch, RehydrateText(Emitted(text))), Remaining(text), r \o On(ch, piece))
<1> DEFINE x == Emitted(text)
           y == Remaining(text)
           o2 == o \o On(ch, RehydrateText(x))
           d == Dehydrated(CharsOf(o))
           d2 == Dehydrated(CharsOf(o2))
           c == CharsOf(r)
           c2 == CharsOf(r \o On(ch, piece))
<1>1. x \in Seq(Char) /\ y \in Seq(Char) /\ Split(text, x, y)
  BY EmittedOK
<1>2. Split(d2, d, x) /\ d \in Seq(Char)
  <2>1. ch \in OutChannel
    BY DEF OutChannel
  <2> QED BY <1>1, <2>1, SentOn
<1>3. Split(c2, c, piece)
  BY CharsOfAdded DEF Split
<1>4. Split(c, d, p)
  BY DEF AllOf
<1> HIDE DEF x, y, o2, d, d2, c, c2
<1>5. Split(c2, d, text)
  BY ONLY <1>2, <1>3, <1>4, p \in Seq(Char), piece \in Seq(Char), Split(text, p, piece), SplitAgain
<1>6. Split(c2, d2, y)
  BY ONLY <1>1, <1>2, <1>5, SplitAgain
<1> QED BY <1>6 DEF AllOf, x, y, o2, d, d2, c, c2

\* At the end what is held back is sent on.
LEMMA AllOfFlushed ==
  ASSUME NEW o \in Seq(Pairs(OutChannel, Client)), NEW r, NEW p \in Seq(Char), AllOf(o, p, r)
  PROVE  AllOf(o \o On(Unnamed, RehydrateText(p)), <<>>, r)
<1> DEFINE o2 == o \o On(Unnamed, RehydrateText(p))
           d == Dehydrated(CharsOf(o))
           d2 == Dehydrated(CharsOf(o2))
<1>1. Split(d2, d, p) /\ d \in Seq(Char)
  <2>1. Unnamed \in OutChannel
    BY DEF OutChannel
  <2> QED BY <2>1, SentOn
<1>2. Split(CharsOf(r), d, p)
  BY DEF AllOf
<1> HIDE DEF o2, d, d2
<1>3. d2 = d \o p /\ CharsOf(r) = d \o p
  BY <1>1, <1>2 DEF Split
<1>4. d \o p \in Seq(Char)
  BY ONLY <1>1, p \in Seq(Char)
<1>5. \A s \in Seq(Char) : s \o <<>> = s
  OBVIOUS
<1>6. Split(CharsOf(r), d2, <<>>)
  BY ONLY <1>3, <1>4, <1>5 DEF Split
<1> QED BY <1>6 DEF AllOf, d2, o2

\* What comes on one channel is of that channel alone.
LEMMA OfAdded ==
  ASSUME NEW C, NEW E, NEW s \in Seq(Pairs(C, E)), NEW x \in Seq(E), NEW d \in C, NEW ch
  PROVE  /\ s \o On(d, x) \in Seq(Pairs(C, E)) /\ Of(ch, s) \in Seq(E)
         /\ Split(Of(ch, s \o On(d, x)), Of(ch, s), IF ch = d THEN x ELSE <<>>)
         /\ ch # d => Of(ch, s \o On(d, x)) = Of(ch, s)
<1> DEFINE h == On(d, x)
           D == Pairs(C, E)
<1>1. h \in Seq(D)
  BY OnType
<1>2. Of(ch, s \o h) = Of(ch, s) \o Of(ch, h) /\ Of(ch, s) \in Seq(E)
  <2>1. h \in Seq(Pairs(C, E))
    BY <1>1
  <2> HIDE DEF h
  <2> QED BY ONLY <2>1, s \in Seq(Pairs(C, E)), OfConcat
<1>3. Of(ch, h) = IF ch = d THEN x ELSE <<>>
  BY OfOn
<1>4. s \o h \in Seq(D)
  <2>1. s \in Seq(D)
    OBVIOUS
  <2> HIDE DEF h, D
  <2> QED BY ONLY <1>1, <2>1
<1>5. \A t \in Seq(E) : t \o <<>> = t
  OBVIOUS
<1> HIDE DEF h
<1>6. ch # d => Of(ch, s \o h) = Of(ch, s)
  BY ONLY <1>2, <1>3, <1>5
<1>7. Split(Of(ch, s \o h), Of(ch, s), IF ch = d THEN x ELSE <<>>)
  BY ONLY <1>2, <1>3 DEF Split
<1> QED BY <1>2, <1>4, <1>6, <1>7 DEF h

\* The last character's channel.
LEMMA LastAdded ==
  ASSUME NEW C, NEW E, NEW s \in Seq(Pairs(C, E)), NEW x \in Seq(E), x # <<>>, NEW d \in C
  PROVE  s \o On(d, x) # <<>> /\ Last(s \o On(d, x))[1] = d
<1> DEFINE D == Pairs(C, E)
           h == On(d, x)
           u == s \o h
<1>1. h \in Seq(D) /\ Len(h) = Len(x) /\ \A i \in 1 .. Len(x) : h[i] = <<d, x[i]>>
  BY OnType
<1>2. Len(x) \in Nat /\ Len(x) >= 1 /\ Len(x) \in 1 .. Len(x)
  OBVIOUS
<1>3. s \in Seq(D)
  OBVIOUS
<1>4. h[Len(h)][1] = d
  BY <1>1, <1>2
<1> HIDE DEF h, D
<1>5. u \in Seq(D) /\ Len(u) = Len(s) + Len(h) /\ u[Len(s) + Len(h)] = h[Len(h)] /\ Len(u) # 0 /\ Len(s) \in Nat
  <2>1. /\ u \in Seq(D) /\ Len(u) = Len(s) + Len(h) /\ Len(s) \in Nat
        /\ \A j \in 1 .. Len(h) : u[Len(s) + j] = h[j]
    <3>1. /\ s \o h \in Seq(D) /\ Len(s \o h) = Len(s) + Len(h) /\ Len(s) \in Nat
          /\ \A j \in 1 .. Len(h) : (s \o h)[Len(s) + j] = h[j]
      <4>1. h \in Seq(D)
        BY ONLY <1>1
      <4> QED BY ONLY <1>3, <4>1, Both
    <3> QED BY <3>1
  <2> HIDE DEF u
  <2> QED BY ONLY <1>1, <1>2, <2>1
<1>6. u # <<>>
  BY ONLY <1>5
<1> QED BY <1>4, <1>5, <1>6 DEF h, Last

\* A channel has got o of its text r, made from e, while h is held back of it.
EmittedOf(ch, e, r, o, h, sp) ==
  /\ e \in Seq(Char) /\ Split(r, e, h) /\ CutsKnown(ch, e, r, sp)
  /\ Uncut(ch, r, sp) => o = RehydrateText(e)

\* A further piece of a channel's text.
LEMMA ChannelFed ==
  ASSUME NEW ch, NEW e, NEW r \in Seq(Char), NEW o, NEW h \in Seq(Char), NEW sp, EmittedOf(ch, e, r, o, h, sp),
         NEW sp2, sp \subseteq sp2, NEW piece \in Seq(Char), piece # <<>>,
         NEW text \in Seq(Char), Split(text, h, piece), NEW q \in Seq(Char), Split(q, r, piece),
         piece[Len(piece)] = Open => <<ch, Len(q)>> \in sp2,
         NEW o2, Split(o2, o, RehydrateText(Emitted(text)))
  PROVE  \E f : EmittedOf(ch, f, q, o2, Remaining(text), sp2)
<1>1. PICK f : Split(f, e, Emitted(text))
  BY DEF Split
<1>2. e \in Seq(Char) /\ Split(r, e, h) /\ CutsKnown(ch, e, r, sp)
  BY DEF EmittedOf
<1>3. /\ f \in Seq(Char) /\ Split(q, f, Remaining(text)) /\ CutsKnown(ch, f, q, sp2)
      /\ Uncut(ch, q, sp2) => Split(RehydrateText(f), RehydrateText(e), RehydrateText(Emitted(text)))
  BY <1>1, <1>2, FeedText
<1>4. Begins(r, q)
  <2>1. q = r \o piece
    BY DEF Split
  <2>2. Len(q) = Len(r) + Len(piece) /\ Len(r) \in Nat /\ Len(piece) \in Nat /\ \A k \in 1 .. Len(r) : q[k] = r[k]
    BY ONLY <2>1, r \in Seq(Char), piece \in Seq(Char), Both
  <2> QED BY ONLY <2>2 DEF Begins
<1>5. ASSUME Uncut(ch, q, sp2) PROVE o2 = RehydrateText(f)
  <2>1. \A i \in Starts(r) : i \in 1 .. Len(r)
    BY DEF Starts
  <2>2. Uncut(ch, r, sp)
    BY <1>4, <1>5, <2>1, StartsMayStart DEF Uncut
  <2>3. o = RehydrateText(e)
    BY <2>2 DEF EmittedOf
  <2>4. RehydrateText(f) = RehydrateText(e) \o RehydrateText(Emitted(text))
    BY <1>3, <1>5 DEF Split
  <2>5. o2 = o \o RehydrateText(Emitted(text))
    BY DEF Split
  <2> QED BY ONLY <2>3, <2>4, <2>5
<1> QED BY <1>3, <1>5 DEF EmittedOf

\* What was known of a channel's text stays known.
LEMMA ChannelKept ==
  ASSUME NEW ch, NEW e, NEW r, NEW o, NEW h, NEW sp, EmittedOf(ch, e, r, o, h, sp), NEW sp2, sp \subseteq sp2
  PROVE  EmittedOf(ch, e, r, o, h, sp2)
BY DEF EmittedOf, CutsKnown, Uncut

\* A channel has got what its text is rehydrated to, but for what is held back.
LEMMA ChannelExact ==
  ASSUME NEW ch, NEW e, NEW r \in Seq(Char), NEW o, NEW h \in Seq(Char), NEW sp, EmittedOf(ch, e, r, o, h, sp),
         Uncut(ch, r, sp)
  PROVE  Split(RehydrateText(r), o, RehydrateText(h))
<1>1. e \in Seq(Char) /\ Split(r, e, h) /\ CutsKnown(ch, e, r, sp) /\ o = RehydrateText(e)
  BY DEF EmittedOf
<1>2. Begins(r, r)
  BY DEF Begins
<1>3. Len(e) <= Len(r)
  <2>1. r = e \o h
    BY <1>1 DEF Split
  <2>2. Len(r) = Len(e) + Len(h) /\ Len(e) \in Nat /\ Len(h) \in Nat
    BY ONLY <1>1, <2>1, h \in Seq(Char), Both
  <2> QED BY ONLY <2>2
<1>4. Split(RehydrateText(r), RehydrateText(e), RehydrateText(h))
  BY <1>1, <1>2, <1>3, EmittedMore
<1> QED BY <1>1, <1>4

\* The fragments up to the i-th in one.
Upto(s, i) == FlattenSeq(SubSeq(s, 1, i))

\* No placeholder of the fragments s lies in two of them.
Whole(s) == \A i \in Starts(FlattenSeq(s)) : {Len(Upto(s, k)) : k \in DOMAIN s} \cap i .. i + 3 = {}

\* A further fragment, and no placeholder in two, can be rehydrated by itself.
LEMMA FragmentAdded ==
  ASSUME NEW s \in Seq(Seq(Char)), NEW piece \in Seq(Char), Whole(Append(s, piece))
  PROVE  /\ Whole(s)
         /\ Split(RehydrateText(FlattenSeq(Append(s, piece))), RehydrateText(FlattenSeq(s)), RehydrateText(piece))
<1> DEFINE P == Seq(Char)
           t == Append(s, piece)
           a == FlattenSeq(s)
           u == FlattenSeq(t)
<1>1. a \in P
  BY FlattenType
<1>2. u = a \o piece
  BY FlattenAppend
<1>3. /\ Len(t) = Len(s) + 1 /\ Len(s) \in Nat /\ DOMAIN s = 1 .. Len(s) /\ DOMAIN t = 1 .. Len(s) + 1
      /\ \A k \in 1 .. Len(s) : SubSeq(t, 1, k) = SubSeq(s, 1, k)
  <2>1. s \in Seq(P)
    OBVIOUS
  <2>2. Len(t) = Len(s) + 1 /\ t \in Seq(P) /\ Len(s) \in Nat /\ DOMAIN s = 1 .. Len(s) /\ DOMAIN t = 1 .. Len(s) + 1
        /\ \A k \in 1 .. Len(s) : t[k] = s[k]
    OBVIOUS
  <2>3. ASSUME NEW k \in 1 .. Len(s) PROVE SubSeq(t, 1, k) = SubSeq(s, 1, k)
    BY ONLY <2>2, <2>3
  <2> QED BY <2>2, <2>3
<1>4. \A k \in 1 .. Len(s) : Upto(t, k) = Upto(s, k)
  BY <1>3 DEF Upto
<1>5. \A k \in 1 .. Len(s) : k \in DOMAIN t /\ Upto(t, k) = Upto(s, k)
  BY <1>3, <1>4
<1>6. Len(u) = Len(a) + Len(piece) /\ Len(a) \in Nat /\ Len(piece) \in Nat /\ \A k \in 1 .. Len(a) : u[k] = a[k]
  BY ONLY <1>1, <1>2, piece \in Seq(Char), Both
<1>7. Begins(a, u)
  BY ONLY <1>6 DEF Begins
<1>8. u \in Seq(Char)
  BY ONLY <1>1, <1>2, piece \in Seq(Char)
<1>9. ASSUME NEW i \in Starts(u), NEW k \in DOMAIN s PROVE Len(Upto(s, k)) \notin i .. i + 3
  <2>1. k \in DOMAIN t /\ Upto(t, k) = Upto(s, k)
    BY <1>3, <1>5
  <2>2. {Len(Upto(t, j)) : j \in DOMAIN t} \cap i .. i + 3 = {}
    BY DEF Whole
  <2> QED BY <2>1, <2>2
<1>10. Whole(s)
  <2>1. \A i \in Starts(a) : i \in 1 .. Len(a)
    BY <1>1, <1>6 DEF Starts
  <2>2. \A i \in Starts(a) : i \in Starts(u)
    BY <1>1, <1>7, <1>8, <2>1, StartsMayStart
  <2> QED BY <1>9, <2>2 DEF Whole
<1>11. \A i \in KnownAt(u) : ~(i <= Len(a) /\ Len(a) < i + 4)
  <2> SUFFICES ASSUME NEW i \in KnownAt(u), i <= Len(a), Len(a) < i + 4 PROVE FALSE
    OBVIOUS
  <2>1. i \in Starts(u) /\ i \in Nat /\ 1 <= i
    BY DEF KnownAt, Starts
  <2>2. CASE s = <<>>
    <3>1. Len(a) = 0
      BY <2>2, FlattenEmpty
    <3> QED BY <2>1, <3>1
  <2>3. CASE s # <<>>
    <3>1. Len(s) \in DOMAIN s
      BY <2>3
    <3>2. Upto(s, Len(s)) = a
      <4>1. SubSeq(s, 1, Len(s)) = s
        BY SubSeqFull
      <4> QED BY <4>1 DEF Upto
    <3>3. Len(a) \notin i .. i + 3
      BY <1>9, <2>1, <3>1, <3>2
    <3> QED BY <1>6, <2>1, <3>3
  <2> QED BY <2>2, <2>3
<1> HIDE DEF a, u, t
<1>12. RehydrateText(u) = RehydrateText(a) \o RehydrateText(piece)
  BY <1>1, <1>2, <1>11, RehydrateConcat
<1> QED BY <1>10, <1>12 DEF a, u, t, Split

\* What is held back, if the last text was the channel's.
HeldOf(ch) == IF received # <<>> /\ Last(received)[1] = ch THEN pending ELSE <<>>

\* What is sent on to each channel is made from all its text but what is held back.
ChannelsOK ==
  \A ch \in Channel : \E e : EmittedOf(ch, e, Of(ch, received), Of(ch, out), HeldOf(ch), split)

(***************************************************************************)
(* The inductive invariant.  StreamExact says nothing of a cut that may    *)
(* yet turn out to lie in a placeholder; EmittedOf keeps, for the text a   *)
(* channel has got so far, that every place where that may happen is in    *)
(* split.  That nothing is lost needs that rehydration can be undone.      *)
(***************************************************************************)
StreamInv ==
  /\ StreamTypeOK
  /\ Len(pending) # 1 /\ (pending # <<>> => received # <<>>)
  /\ NothingLost
  /\ ArgumentsExact
  /\ phase = "done" => StreamExact
  /\ phase # "done" => Of(Unnamed, out) = <<>> /\ (~mixed => ChannelsOK)

\* The types of the variables, in this module's words.
LEMMA StreamTypes ==
  ASSUME StreamTypeOK
  PROVE  /\ pending \in Seq(Char) /\ received \in Seq(Pairs(Channel, Char))
         /\ out \in Seq(Pairs(OutChannel, Client)) /\ args \in Seq(Client)
         /\ sent \in Seq(Seq(Char))
<1>1. Fragment \subseteq Seq(Char)
  BY CharAssumption
<1>2. sent \in Seq(Seq(Char))
  <2> DEFINE P == Seq(Char)
  <2>1. Fragment \subseteq P /\ sent \in Seq(Fragment)
    BY <1>1 DEF StreamTypeOK
  <2> HIDE DEF P
  <2>2. sent \in Seq(P)
    BY ONLY <2>1
  <2> QED BY <2>2 DEF P
<1> QED BY <1>2 DEF StreamTypeOK, Pairs, OutChannel, Client

\* NothingLost in this module's words.
LEMMA NothingLostSame == NothingLost <=> AllOf(out, pending, received)
BY DEF NothingLost, AllOf, Split, CharsOf

\* ArgumentsExact in this module's words.
LEMMA ArgumentsExactSame ==
  ArgumentsExact <=> (Whole(sent) => args = RehydrateText(FlattenSeq(sent)))
BY DEF ArgumentsExact, Whole, Upto

\* WellCut in this module's words.
LEMMA WellCutSame == \A ch : WellCut(ch) <=> Uncut(ch, Of(ch, received), split)
BY DEF WellCut, Uncut

\* As long as the stream is not done, what is held back is all that channels lack.
LEMMA ExactUntilDone ==
  ASSUME StreamInv, phase # "done"
  PROVE  StreamExact
<1> SUFFICES ASSUME ~mixed, NEW ch \in Channel, WellCut(ch)
             PROVE  LET rest == IF received # <<>> /\ Last(received)[1] = ch
                                THEN Of(Unnamed, out) \o RehydrateText(pending) ELSE <<>>
                    IN  Of(ch, out) \o rest = RehydrateText(Of(ch, received))
  BY DEF StreamExact
<1> DEFINE rest == IF received # <<>> /\ Last(received)[1] = ch
                   THEN Of(Unnamed, out) \o RehydrateText(pending) ELSE <<>>
           r == Of(ch, received)
           o == Of(ch, out)
           h == HeldOf(ch)
<1>1. /\ pending \in Seq(Char) /\ received \in Seq(Pairs(Channel, Char))
      /\ Of(Unnamed, out) = <<>> /\ ChannelsOK
  BY StreamTypes DEF StreamInv
<1>2. h \in Seq(Char) /\ r \in Seq(Char)
  <2>1. <<>> \in Seq(Char)
    OBVIOUS
  <2> QED BY <1>1, <2>1, OfConcat DEF HeldOf
<1>3. PICK e : EmittedOf(ch, e, r, o, h, split)
  BY <1>1 DEF ChannelsOK
<1>4. Uncut(ch, r, split)
  BY WellCutSame
<1>5. rest = RehydrateText(h)
  <2>1. RehydrateText(pending) \in Seq(Client)
    BY <1>1, RehydrateType
  <2>2. \A s \in Seq(Client) : <<>> \o s = s
    OBVIOUS
  <2> QED BY <1>1, <2>1, <2>2, RehydrateEmpty DEF HeldOf
<1> HIDE DEF r, o, h
<1>6. Split(RehydrateText(r), o, RehydrateText(h))
  BY <1>2, <1>3, <1>4, ChannelExact
<1>7. RehydrateText(r) = o \o rest
  BY ONLY <1>5, <1>6 DEF Split
<1> QED BY <1>7 DEF r, o

\* A stream of which nothing has come.
LEMMA StreamInitInv == StreamInit => StreamInv
<1> SUFFICES ASSUME StreamInit PROVE StreamInv
  OBVIOUS
<1>0. /\ phase = "open" /\ pending = <<>> /\ out = <<>> /\ args = <<>>
      /\ received = <<>> /\ split = {} /\ sent = <<>> /\ mixed = FALSE
  BY DEF StreamInit
<1>1. StreamTypeOK
  <2>1. \A D : <<>> \in Seq(D)
    OBVIOUS
  <2> QED BY ONLY <1>0, <2>1, Zenon DEF StreamTypeOK
<1> USE DEF StreamInit
<1>2. Len(pending) # 1 /\ (pending # <<>> => received # <<>>)
  OBVIOUS
<1>3. NothingLost
  <2>1. Dehydrated(<<>>) = <<>>
    BY FlattenEmpty DEF Dehydrated
  <2>2. <<>> \o <<>> = <<>> /\ CharsOf(<<>>) = <<>>
    BY DEF CharsOf
  <2> QED BY <2>1, <2>2, NothingLostSame DEF AllOf, Split
<1>4. ArgumentsExact
  BY FlattenEmpty, RehydrateEmpty, ArgumentsExactSame
<1>5. Of(Unnamed, out) = <<>>
  BY OfEmpty
<1>6. ChannelsOK
  <2> SUFFICES ASSUME NEW ch \in Channel
               PROVE  \E e : EmittedOf(ch, e, Of(ch, received), Of(ch, out), HeldOf(ch), split)
    BY DEF ChannelsOK
  <2>1. EmittedOf(ch, <<>>, <<>>, <<>>, <<>>, split)
    <3>1. <<>> \in Seq(Char) /\ <<>> \o <<>> = <<>> /\ Len(<<>>) = 0 /\ 1 .. 0 = {}
      OBVIOUS
    <3> QED BY <3>1, RehydrateEmpty DEF EmittedOf, Split, CutsKnown
  <2>2. Of(ch, received) = <<>> /\ Of(ch, out) = <<>> /\ HeldOf(ch) = <<>>
    BY OfEmpty DEF HeldOf
  <2> QED BY <2>1, <2>2
<1> QED BY <1>1, <1>2, <1>3, <1>4, <1>5, <1>6 DEF StreamInv

\* feed: FeedText for the piece's channel; the others' texts stay the same, and
\* unless texts have mixed, none of what is held back was theirs.
LEMMA FeedInv ==
  ASSUME StreamInv, NEW ch \in Channel, NEW n \in 1 .. MaxPiece, NEW piece \in [1 .. n -> Char], Feed(ch, piece)
  PROVE  StreamInv'
<1> DEFINE text == pending \o piece
<1>1. /\ pending \in Seq(Char) /\ received \in Seq(Pairs(Channel, Char))
      /\ out \in Seq(Pairs(OutChannel, Client)) /\ StreamTypeOK /\ NothingLost
  BY StreamTypes DEF StreamInv
<1>2. piece \in Seq(Char) /\ piece # <<>> /\ ch \in OutChannel /\ Last(piece) = piece[Len(piece)]
  BY BoundsAssumption DEF OutChannel, Last
<1>3. text \in Seq(Char) /\ Split(text, pending, piece)
  BY <1>1, <1>2 DEF Split
<1>4. /\ phase = "open" /\ phase' = phase /\ args' = args /\ sent' = sent
      /\ out' = out \o On(ch, RehydrateText(Emitted(text)))
      /\ pending' = Remaining(text)
      /\ received' = received \o On(ch, piece)
      /\ split' = (IF Last(piece) = Open THEN split \cup {<<ch, Len(Of(ch, received'))>>} ELSE split)
      /\ mixed' = (mixed \/ (pending # <<>> /\ Last(received)[1] # ch))
  BY DEF Feed, Emitted, Remaining, Kept
<1> HIDE DEF text
<1>5. /\ out' \in Seq(Pairs(OutChannel, Client)) /\ received' \in Seq(Pairs(Channel, Char))
      /\ RehydrateText(Emitted(text)) \in Seq(Client)
  <2>1. Emitted(text) \in Seq(Char)
    BY <1>3, EmittedOK
  <2>2. RehydrateText(Emitted(text)) \in Seq(Client)
    BY <2>1, RehydrateType
  <2>3. out \o On(ch, RehydrateText(Emitted(text))) \in Seq(Pairs(OutChannel, Client))
    BY <1>1, <1>2, <2>2, OfAdded
  <2>4. received \o On(ch, piece) \in Seq(Pairs(Channel, Char))
    BY <1>1, <1>2, OfAdded
  <2> QED BY ONLY <1>4, <2>2, <2>3, <2>4
<1>6. received' # <<>> /\ Last(received')[1] = ch
  BY <1>1, <1>2, <1>4, LastAdded
<1> DEFINE r == Of(ch, received)
           q == Of(ch, received')
           o == Of(ch, out)
           o2 == Of(ch, out')
<1>7. r \in Seq(Char) /\ q \in Seq(Char) /\ Split(q, r, piece) /\ Split(o2, o, RehydrateText(Emitted(text)))
  <2>1. r \in Seq(Char) /\ Split(Of(ch, received \o On(ch, piece)), r, piece)
    BY <1>1, <1>2, OfAdded
  <2>2. q \in Seq(Char)
    BY <1>5, OfConcat
  <2>3. Split(Of(ch, out \o On(ch, RehydrateText(Emitted(text)))), o, RehydrateText(Emitted(text)))
    BY <1>1, <1>2, <1>5, OfAdded
  <2> QED BY <1>4, <2>1, <2>2, <2>3
<1>8. /\ split \subseteq split' /\ split' \subseteq Channel \X Nat
      /\ piece[Len(piece)] = Open => <<ch, Len(q)>> \in split'
  <2>1. Len(q) \in Nat
    BY <1>7
  <2> QED BY <1>1, <1>2, <1>4, <2>1 DEF StreamTypeOK
<1>9. ASSUME NEW d \in Channel, d # ch
      PROVE  Of(d, received') = Of(d, received) /\ Of(d, out') = Of(d, out)
  <2>1. Of(d, received \o On(ch, piece)) = Of(d, received)
    BY <1>1, <1>2, <1>9, OfAdded
  <2>2. Of(d, out \o On(ch, RehydrateText(Emitted(text)))) = Of(d, out)
    BY <1>1, <1>2, <1>5, <1>9, OfAdded
  <2> QED BY <1>4, <2>1, <2>2
<1>10. Of(Unnamed, out') = <<>>
  <2>1. Unnamed # ch
    BY CharAssumption
  <2>2. Of(Unnamed, out \o On(ch, RehydrateText(Emitted(text)))) = Of(Unnamed, out)
    BY <1>1, <1>2, <1>5, <2>1, OfAdded
  <2> QED BY <1>4, <2>2 DEF StreamInv
<1>11. StreamTypeOK' /\ (Len(pending) # 1)'
  <2>1. /\ pending' \in Seq(Char) /\ Len(pending') # 1
        /\ pending' # <<>> =>
             /\ Len(pending') <= MaxHeld /\ pending'[1] = Open /\ pending'[2] = Open
             /\ \A i \in 1 .. Len(pending') - 1 : ~(pending'[i] = Close /\ pending'[i + 1] = Close)
    BY <1>3, <1>4, RemainingOK
  <2>2. out' \in Seq((Channel \cup {Unnamed}) \X (Char \cup {ValueOf(m) : m \in Known}))
    BY <1>5 DEF Pairs, OutChannel, Client
  <2>3. received' \in Seq(Channel \X Char)
    BY <1>5 DEF Pairs
  <2>4. mixed' \in BOOLEAN
    BY <1>1, <1>4 DEF StreamTypeOK
  <2>5. /\ phase' \in {"open", "done", "broken"} /\ sent' \in Seq(Fragment)
        /\ args' \in Seq(Char \cup {ValueOf(m) : m \in Known})
    BY <1>1, <1>4 DEF StreamTypeOK
  <2> QED BY ONLY <1>8, <2>1, <2>2, <2>3, <2>4, <2>5 DEF StreamTypeOK
<1>12. NothingLost'
  <2>1. AllOf(out, pending, received)
    BY <1>1, NothingLostSame
  <2>2. AllOf(out', pending', received')
    BY <1>1, <1>2, <1>3, <1>4, <2>1, AllOfFed
  <2> QED BY <2>2 DEF NothingLost, AllOf, Split, CharsOf
<1>13. ArgumentsExact'
  BY <1>4 DEF StreamInv, ArgumentsExact
<1>14. ASSUME ~mixed' PROVE ChannelsOK'
  <2>1. ChannelsOK /\ (pending = <<>> \/ Last(received)[1] = ch)
    BY <1>4, <1>14 DEF StreamInv
  <2>2. HeldOf(ch) = pending /\ \A d \in Channel : d # ch => HeldOf(d) = <<>>
    BY <2>1 DEF HeldOf, StreamInv
  <2>3. HeldOf(ch)' = pending' /\ \A d \in Channel : d # ch => HeldOf(d)' = <<>>
    BY <1>6 DEF HeldOf
  <2> SUFFICES ASSUME NEW d \in Channel
               PROVE  \E e : EmittedOf(d, e, Of(d, received'), Of(d, out'), HeldOf(d)', split')
    BY DEF ChannelsOK
  <2>4. CASE d = ch
    <3>1. PICK e : EmittedOf(ch, e, r, o, pending, split)
      BY <2>1, <2>2 DEF ChannelsOK
    <3> HIDE DEF r, q, o, o2
    <3>2. \E f : EmittedOf(ch, f, q, o2, Remaining(text), split')
      BY ONLY <1>1, <1>2, <1>3, <1>7, <1>8, <3>1, ChannelFed
    <3> QED BY <1>4, <2>3, <2>4, <3>2 DEF q, o2
  <2>5. CASE d # ch
    <3>1. PICK e : EmittedOf(d, e, Of(d, received), Of(d, out), <<>>, split)
      BY <2>1, <2>2, <2>5 DEF ChannelsOK
    <3>2. EmittedOf(d, e, Of(d, received), Of(d, out), <<>>, split')
      BY <1>8, <3>1, ChannelKept
    <3> QED BY <1>9, <2>3, <2>5, <3>2
  <2> QED BY <2>4, <2>5
<1> QED BY <1>4, <1>6, <1>10, <1>11, <1>12, <1>13, <1>14 DEF StreamInv

\* Arguments: they never touch what is held back.
LEMMA PassInv ==
  ASSUME StreamInv, NEW piece \in Fragment, Pass(piece)
  PROVE  StreamInv'
<1>1. /\ phase = "open" /\ phase' = phase /\ pending' = pending /\ out' = out /\ received' = received
      /\ split' = split /\ mixed' = mixed
      /\ args' = args \o RehydrateText(piece) /\ sent' = Append(sent, piece)
  BY DEF Pass
<1>2. piece \in Seq(Char) /\ sent \in Seq(Seq(Char)) /\ args \in Seq(Client) /\ StreamTypeOK
  BY CharAssumption, StreamTypes DEF StreamInv
<1>3. StreamTypeOK'
  <2>1. sent' \in Seq(Fragment)
    BY <1>1, <1>2 DEF StreamTypeOK
  <2>2. args' \in Seq(Client)
    <3>1. RehydrateText(piece) \in Seq(Client)
      BY <1>2, RehydrateType
    <3>2. \A a, b \in Seq(Client) : a \o b \in Seq(Client)
      OBVIOUS
    <3> QED BY ONLY <1>1, <1>2, <3>1, <3>2
  <2>3. args' \in Seq(Char \cup {ValueOf(n) : n \in Known})
    BY <2>2 DEF Client
  <2> QED BY <1>1, <1>2, <2>1, <2>3 DEF StreamTypeOK
<1>4. ArgumentsExact'
  <2>1. ASSUME Whole(sent') PROVE args' = RehydrateText(FlattenSeq(sent'))
    <3>1. Whole(sent) /\ Split(RehydrateText(FlattenSeq(sent')), RehydrateText(FlattenSeq(sent)), RehydrateText(piece))
      BY <1>1, <1>2, <2>1, FragmentAdded
    <3>2. args = RehydrateText(FlattenSeq(sent))
      BY <3>1, ArgumentsExactSame DEF StreamInv
    <3> QED BY <1>1, <3>1, <3>2 DEF Split
  <2> QED BY <2>1 DEF ArgumentsExact, Whole, Upto
<1>5. NothingLost' /\ (ChannelsOK => ChannelsOK')
  BY <1>1 DEF StreamInv, NothingLost, ChannelsOK, HeldOf
<1> QED BY <1>1, <1>3, <1>4, <1>5 DEF StreamInv

\* The line [DONE]: what is held back goes out without a name.
LEMMA DoneInv ==
  ASSUME StreamInv, Done
  PROVE  StreamInv'
<1>1. /\ phase = "open" /\ phase' = "done" /\ pending' = <<>>
      /\ out' = out \o On(Unnamed, RehydrateText(pending))
      /\ args' = args /\ received' = received /\ split' = split /\ sent' = sent /\ mixed' = mixed
  BY DEF Done
<1>2. /\ pending \in Seq(Char) /\ received \in Seq(Pairs(Channel, Char))
      /\ out \in Seq(Pairs(OutChannel, Client)) /\ StreamTypeOK /\ NothingLost /\ Of(Unnamed, out) = <<>>
      /\ Unnamed \in OutChannel /\ StreamExact
  BY <1>1, StreamTypes, ExactUntilDone DEF StreamInv, OutChannel
<1>3. RehydrateText(pending) \in Seq(Client)
  BY <1>2, RehydrateType
<1>4. out' \in Seq(Pairs(OutChannel, Client))
  BY <1>1, <1>2, <1>3, OfAdded
<1>5. StreamTypeOK'
  <2>1. out' \in Seq((Channel \cup {Unnamed}) \X (Char \cup {ValueOf(m) : m \in Known}))
    BY <1>4 DEF Pairs, OutChannel, Client
  <2>2. pending' \in Seq(Char) /\ pending' = <<>>
    BY <1>1
  <2> QED BY <1>1, <1>2, <2>1, <2>2 DEF StreamTypeOK
<1>6. NothingLost'
  <2>1. AllOf(out, pending, received)
    BY <1>2, NothingLostSame
  <2>2. AllOf(out', pending', received')
    BY <1>1, <1>2, <2>1, AllOfFlushed
  <2> QED BY <2>2 DEF NothingLost, AllOf, Split, CharsOf
<1>7. ArgumentsExact'
  BY <1>1 DEF StreamInv, ArgumentsExact
<1>8. StreamExact'
  <2>1. Of(Unnamed, out') = RehydrateText(pending)
    <3>1. Split(Of(Unnamed, out'), <<>>, RehydrateText(pending))
      BY <1>1, <1>2, <1>3, OfAdded
    <3> QED BY <1>3, <3>1 DEF Split
  <2>2. Of(Unnamed, out') \o RehydrateText(pending') = Of(Unnamed, out) \o RehydrateText(pending)
    <3>1. \A s \in Seq(Client) : s \o <<>> = s /\ <<>> \o s = s
      OBVIOUS
    <3> QED BY <1>1, <1>2, <1>3, <2>1, <3>1, RehydrateEmpty
  <2>3. \A ch \in Channel : Of(ch, out') = Of(ch, out)
    <3> TAKE ch \in Channel
    <3>1. ch # Unnamed
      BY CharAssumption
    <3> QED BY <1>1, <1>2, <1>3, <3>1, OfAdded
  <2>4. \A ch : WellCut(ch)' <=> WellCut(ch)
    BY <1>1 DEF WellCut
  <2> QED BY <1>1, <1>2, <2>2, <2>3, <2>4 DEF StreamExact
<1>9. Len(pending') # 1
  BY <1>1
<1> QED BY <1>1, <1>5, <1>6, <1>7, <1>8, <1>9 DEF StreamInv

\* Every step.
LEMMA StreamNextInv == StreamInv /\ [StreamNext]_streamVars => StreamInv'
<1> SUFFICES ASSUME StreamInv, [StreamNext]_streamVars PROVE StreamInv'
  OBVIOUS
<1>1. CASE \E ch \in Channel, n \in 1 .. MaxPiece : \E piece \in [1 .. n -> Char] : Feed(ch, piece)
  BY <1>1, FeedInv
<1>2. CASE \E piece \in Fragment : Pass(piece)
  BY <1>2, PassInv
<1>3. CASE Done
  BY <1>3, DoneInv
<1>4. ASSUME \/ Break \/ UNCHANGED streamVars PROVE StreamInv'
  <2>1. /\ UNCHANGED <<pending, out, args, received, split, sent, mixed>>
        /\ phase' \in {"open", "done", "broken"} /\ (phase' = "done" <=> phase = "done")
    BY <1>4 DEF Break, streamVars, StreamInv, StreamTypeOK
  <2>2. StreamTypeOK'
    BY <2>1 DEF StreamInv, StreamTypeOK
  <2>3. NothingLost' /\ ArgumentsExact'
    BY <2>1 DEF StreamInv, NothingLost, ArgumentsExact
  <2>4. StreamExact => StreamExact'
    BY <2>1 DEF StreamExact, WellCut
  <2>5. ChannelsOK => ChannelsOK'
    BY <2>1 DEF ChannelsOK, HeldOf
  <2> QED BY <2>1, <2>2, <2>3, <2>4, <2>5 DEF StreamInv
<1> QED BY <1>1, <1>2, <1>3, <1>4 DEF StreamNext

\* The inductive invariant holds throughout.
THEOREM StreamInvariance == StreamSpec => []StreamInv
BY StreamInitInv, StreamNextInv, PTL DEF StreamSpec

\* Every variable keeps its type, and only what may still become a placeholder
\* is held back: feed keeps from the client no text but that.
THEOREM StreamTypeCorrect == StreamSpec => []StreamTypeOK
<1>1. StreamInv => StreamTypeOK
  BY DEF StreamInv
<1> QED BY <1>1, StreamInvariance, PTL

\* Each channel gets what it would have got in one piece, however the provider
\* cuts the text and whatever else the stream carries: exactness of feed and
\* flush, unless a cut falls between two brackets or texts mix.
THEOREM ChannelsExact == StreamSpec => []StreamExact
<1>1. StreamInv => StreamExact
  BY ExactUntilDone DEF StreamInv
<1> QED BY <1>1, StreamInvariance, PTL

\* Neither feed nor flush loses, doubles or moves a part of the text, wherever
\* it is cut and whichever channels it is of.
THEOREM NoTextLost == StreamSpec => []NothingLost
<1>1. StreamInv => NothingLost
  BY DEF StreamInv
<1> QED BY <1>1, StreamInvariance, PTL

\* Arguments of tool calls are rehydrated by themselves: what is held back of
\* the text never gets into them.
THEOREM ArgumentsApart == StreamSpec => []ArgumentsExact
<1>1. StreamInv => ArgumentsExact
  BY DEF StreamInv
<1> QED BY <1>1, StreamInvariance, PTL
=============================================================================
