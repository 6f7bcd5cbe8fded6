------------------------ MODULE VaultLifecycleProofs ------------------------
(***************************************************************************)
(* For any number of processes, conversations, scans, values and types:    *)
(* the safety properties of VaultLifecycle, and that it implements         *)
(* Pseudonyms.                                                             *)
(***************************************************************************)
EXTENDS VaultLifecycle, VaultProofs

\* A pair that a map holds.
Holds(map, pair) == pair[1] \in DOMAIN map /\ map[pair[1]] = pair[2]

OpenOnce ==
  \A p, q \in Process : conv[p] = conv[q] /\ conv[p] # NoConversation => p = q

AwaitedHere ==
  \A p \in Process, s \in Scan : scan[p][s].conv \in {NoConversation, conv[p]}

CoveredKnown ==
  \A p \in covered :
    /\ conv[p] # NoConversation
    /\ \A pair \in issued[conv[p]] : Holds(vault[p].forward, pair)

IssuedOneToOne ==
  \A c \in Conversation : \A a, b \in issued[c] : (a[1] = b[1]) <=> (a[2] = b[2])

(***************************************************************************)
(* The inductive invariant.  NamesUnambiguous alone is not inductive: that *)
(* a newly issued pair clashes with none issued before follows from the    *)
(* vault being consistent and knowing them all (CoveredKnown), which after *)
(* a resume follows from the file recording them (FileRecords), which      *)
(* holds because no other process has the conversation open (OpenOnce).    *)
(***************************************************************************)
IndInv ==
  /\ TypeOK
  /\ VaultConsistent
  /\ FileOK(file)
  /\ OpenOnce
  /\ AwaitedHere
  /\ CoveredKnown
  /\ FileRecords
  /\ IssuedOneToOne

-----------------------------------------------------------------------------
\* The initial states: nothing is open, minted, saved or issued.
LEMMA InitInv == Init => IndInv
<1> SUFFICES ASSUME Init PROVE IndInv
  OBVIOUS
<1>1. VaultOK(EmptyVault) /\ FileOK(NoFile)
  BY EmptyVaultOK, EmptyFileOK DEF NoFile
<1>2. TypeOK
  BY <1>1, MaxSessionsAssumption
     DEF Init, TypeOK, VaultOK, FileOK, ScanType, Idle, Placeholder
<1>3. VaultConsistent
  BY <1>1 DEF Init, VaultConsistent
<1>4. OpenOnce /\ AwaitedHere
  BY DEF Init, OpenOnce, AwaitedHere, Idle
<1>5. CoveredKnown /\ FileRecords /\ IssuedOneToOne
  BY DEF Init, CoveredKnown, FileRecords, IssuedOneToOne
<1> QED BY <1>1, <1>2, <1>3, <1>4, <1>5 DEF IndInv, Init

\* Opening a session touches no table.
LEMMA SessionStartInv ==
  ASSUME IndInv, NEW p \in Process, NEW c \in Conversation, SessionStart(p, c)
  PROVE  IndInv'
<1> USE NoConversationAssumption
<1>1. /\ vault' = vault /\ file' = file /\ scan' = scan
      /\ issued' = issued /\ saved' = saved /\ blurred' = blurred
      /\ conv[p] = NoConversation
      /\ conv' = [conv EXCEPT ![p] = c]
      /\ sessions < MaxSessions /\ sessions' = sessions + 1
      /\ covered' = IF issued[c] = {} THEN covered \cup {p} ELSE covered
      /\ \A q \in Process : conv[q] # c
  BY DEF SessionStart
<1>2. TypeOK'
  BY <1>1, MaxSessionsAssumption DEF IndInv, TypeOK
<1>3. VaultConsistent' /\ FileOK(file)' /\ FileRecords' /\ IssuedOneToOne'
  BY <1>1 DEF IndInv, VaultConsistent, FileRecords, IssuedOneToOne
<1>4. OpenOnce' /\ AwaitedHere'
  BY <1>1 DEF IndInv, TypeOK, OpenOnce, AwaitedHere
<1>5. CoveredKnown'
  BY <1>1 DEF IndInv, TypeOK, CoveredKnown
<1> QED BY <1>2, <1>3, <1>4, <1>5 DEF IndInv

\* Asking, answering and disowning a scan change the scan alone.
LEMMA ScanInv ==
  ASSUME IndInv, NEW p \in Process, NEW s \in Scan,
         NEW found \in SUBSET (Value \X Type),
         ScanStart(p, s) \/ ScanAnswer(p, s, found) \/ ScanDisowned(p, s)
  PROVE  IndInv'
<1>1. UNCHANGED <<vault, file, conv, sessions, issued, covered, saved, blurred>>
  BY DEF ScanStart, ScanAnswer, ScanDisowned, historyVars
<1>2. PICK r \in ScanType :
        scan' = [scan EXCEPT ![p][s] = r] /\ r.conv \in {NoConversation, conv[p]}
  <2>1. scan[p][s] \in ScanType /\ scan[p][s].conv \in {NoConversation, conv[p]}
    BY DEF IndInv, TypeOK, AwaitedHere
  <2>2. CASE ScanStart(p, s)
    <3> DEFINE r == [st |-> "waiting", conv |-> conv[p], todo |-> {}]
    <3>1. r \in ScanType /\ r.conv = conv[p]
      BY DEF IndInv, TypeOK, ScanType
    <3> QED BY <2>2, <3>1 DEF ScanStart
  <2>3. CASE ScanAnswer(p, s, found)
    <3> DEFINE r == [[scan[p][s] EXCEPT !.st = "substituting"] EXCEPT !.todo = found]
    <3>1. r \in ScanType /\ r.conv = scan[p][s].conv
      BY <2>1 DEF ScanType
    <3>2. Idle \in ScanType /\ Idle.conv = NoConversation
      BY DEF Idle, ScanType
    <3> QED BY <2>1, <2>3, <3>1, <3>2 DEF ScanAnswer
  <2>4. CASE ScanDisowned(p, s)
    <3> DEFINE r == [scan[p][s] EXCEPT !.conv = NoConversation]
    <3>1. r \in ScanType /\ r.conv = NoConversation
      BY <2>1 DEF ScanType
    <3> QED BY <2>4, <3>1 DEF ScanDisowned
  <2> QED BY <2>2, <2>3, <2>4
<1>3. TypeOK' /\ AwaitedHere'
  BY <1>1, <1>2 DEF IndInv, TypeOK, AwaitedHere
<1>4. VaultConsistent' /\ FileOK(file)' /\ OpenOnce' /\ CoveredKnown'
      /\ FileRecords' /\ IssuedOneToOne'
  BY <1>1 DEF IndInv, VaultConsistent, OpenOnce, CoveredKnown, FileRecords, IssuedOneToOne
<1> QED BY <1>1, <1>3, <1>4 DEF IndInv

\* A substitution mints at most one pair.  If the scan is awaited and the
\* process covered, every pair issued before is in the table the new one is
\* drawn from.
LEMMA SubstituteInv ==
  ASSUME IndInv, NEW p \in Process, NEW s \in Scan, NEW x \in Value, NEW t \in Type,
         Substitute(p, s, x, t)
  PROVE  IndInv'
<1> DEFINE v == vault[p]
           w == GetPlaceholder(v, x, t)
           c == scan[p][s].conv
           pair == <<w.reverse[x], x>>
<1>1. /\ VaultOK(w)
      /\ \A n \in DOMAIN v.forward : n \in DOMAIN w.forward /\ w.forward[n] = v.forward[n]
      /\ w.reverse[x] \in DOMAIN w.forward /\ w.forward[w.reverse[x]] = x
  BY GetPlaceholderOK DEF IndInv, VaultConsistent
<1>2. /\ vault' = [vault EXCEPT ![p] = w] /\ vault'[p] = w
      /\ file' = file /\ conv' = conv /\ sessions' = sessions /\ covered' = covered
  BY DEF Substitute, IndInv, TypeOK, Issue, historyVars
<1>3. PICK r \in ScanType :
        scan' = [scan EXCEPT ![p][s] = r] /\ r.conv \in {NoConversation, conv[p]}
  <2> DEFINE left == scan[p][s].todo \ {<<x, t>>}
             r == IF left = {} THEN Idle ELSE [scan[p][s] EXCEPT !.todo = left]
  <2>1. scan[p][s] \in ScanType /\ scan[p][s].conv \in {NoConversation, conv[p]}
    BY DEF IndInv, TypeOK, AwaitedHere
  <2>2. r \in ScanType /\ r.conv \in {NoConversation, conv[p]}
    BY <2>1 DEF Idle, ScanType
  <2> QED BY <2>2 DEF Substitute
<1>4. c \in {NoConversation, conv[p]} /\ c \in Conversation \cup {NoConversation}
  BY DEF IndInv, TypeOK, AwaitedHere, ScanType
<1>5. c # NoConversation => Issue(p, c, pair)
  BY <1>2 DEF Substitute
<1>6. c = NoConversation => UNCHANGED <<issued, saved, blurred>>
  BY DEF Substitute, historyVars
<1>7. pair \in Placeholder \X Value /\ Holds(w.forward, pair)
  BY <1>1 DEF VaultOK, NamesOK, Holds
<1> HIDE DEF v, w, c, pair
<1>8. /\ issued' \in [Conversation -> SUBSET (Placeholder \X Value)]
      /\ saved' \in {saved, NoConversation}
      /\ blurred' \subseteq Conversation
  <2>1. CASE c = NoConversation
    BY <1>6, <2>1 DEF IndInv, TypeOK
  <2>2. CASE c # NoConversation
    BY <1>4, <1>5, <1>7, <2>2 DEF IndInv, TypeOK, Issue
  <2> QED BY <2>1, <2>2
<1>9. \A d \in Conversation :
        \/ issued'[d] = issued[d]
        \/ d = conv[p] /\ p \in covered /\ issued'[d] = issued[d] \cup {pair}
  <2>1. CASE c = NoConversation
    BY <1>6, <2>1
  <2>2. CASE c # NoConversation
    BY <1>4, <1>5, <2>2 DEF IndInv, TypeOK, Issue
  <2> QED BY <2>1, <2>2
<1>10. TypeOK'
  BY <1>1, <1>2, <1>3, <1>8 DEF IndInv, TypeOK, VaultOK
<1>11. VaultConsistent' /\ FileOK(file)' /\ OpenOnce' /\ AwaitedHere'
  BY <1>1, <1>2, <1>3 DEF IndInv, TypeOK, VaultConsistent, OpenOnce, AwaitedHere
<1>12. CoveredKnown'
  <2> SUFFICES ASSUME NEW q \in covered, NEW a \in issued'[conv[q]]
               PROVE  conv[q] # NoConversation /\ Holds(vault'[q].forward, a)
    BY <1>2 DEF IndInv, TypeOK, CoveredKnown
  <2>1. q \in Process /\ conv[q] \in Conversation
    BY DEF IndInv, TypeOK, CoveredKnown
  <2>2. a \in issued[conv[q]] => Holds(vault[q].forward, a)
    BY DEF IndInv, CoveredKnown
  <2>3. CASE q = p
    <3>1. a \in issued[conv[p]] \/ a = pair
      BY <1>9, <2>1, <2>3
    <3>2. Holds(w.forward, a)
      BY <1>1, <1>7, <2>2, <2>3, <3>1 DEF Holds, v
    <3> QED BY <1>2, <2>1, <2>3, <3>2, NoConversationAssumption
  <2>4. CASE q # p
    <3>1. conv[q] # conv[p]
      BY <2>1, <2>4, NoConversationAssumption DEF IndInv, OpenOnce
    <3> QED BY <1>2, <1>9, <2>1, <2>2, <2>4, <3>1, NoConversationAssumption
            DEF IndInv, TypeOK
  <2> QED BY <2>3, <2>4
<1>13. FileRecords'
  <2> SUFFICES ASSUME saved' # NoConversation, NEW a \in issued'[saved']
               PROVE  Holds(file.forward, a)
    BY <1>2 DEF FileRecords, Holds
  <2>1. saved' = saved /\ saved \in Conversation
    BY <1>8 DEF IndInv, TypeOK
  <2>2. issued'[saved] = issued[saved]
    <3>1. CASE c = NoConversation
      BY <1>6, <3>1
    <3>2. CASE c # NoConversation
      <4>1. CASE saved # c
        BY <1>5, <2>1, <3>2, <4>1 DEF IndInv, TypeOK, Issue
      <4>2. CASE saved = c
        <5>1. p \in covered /\ pair \in issued[c]
          BY <1>5, <2>1, <3>2, <4>2 DEF Issue
        <5>2. issued'[c] = issued[c] \cup {pair}
          BY <1>5, <2>1, <3>2, <4>2, <5>1 DEF IndInv, TypeOK, Issue
        <5> QED BY <4>2, <5>1, <5>2
      <4> QED BY <4>1, <4>2
    <3> QED BY <3>1, <3>2
  <2> QED BY <2>1, <2>2 DEF IndInv, FileRecords, Holds
<1>14. IssuedOneToOne'
  <2> SUFFICES ASSUME NEW d \in Conversation, NEW a \in issued'[d], NEW b \in issued'[d]
               PROVE  (a[1] = b[1]) <=> (a[2] = b[2])
    BY DEF IssuedOneToOne
  <2>1. CASE issued'[d] = issued[d]
    BY <2>1 DEF IndInv, IssuedOneToOne
  <2>2. CASE d = conv[p] /\ p \in covered /\ issued'[d] = issued[d] \cup {pair}
    <3>1. \A e \in issued'[d] : Holds(w.forward, e)
      BY <1>1, <1>7, <2>2 DEF IndInv, CoveredKnown, Holds, v
    <3>2. IsInjective(w.forward)
      BY <1>1, ForwardInjective
    <3> QED BY <3>1, <3>2 DEF IsInjective, Holds
  <2> QED BY <1>9, <2>1, <2>2
<1> QED BY <1>10, <1>11, <1>12, <1>13, <1>14 DEF IndInv

\* A resume brings back a table saved earlier; it covers the conversation if
\* the file records all of it, or if there is nothing to record.
LEMMA ResumeInv ==
  ASSUME IndInv, NEW p \in Process, Resume(p)
  PROVE  IndInv'
<1>1. /\ vault' = [vault EXCEPT ![p] = RestoreFrom(file)]
      /\ covered' = IF issued[conv[p]] = {} \/ saved = conv[p]
                    THEN covered \cup {p} ELSE covered \ {p}
      /\ conv[p] # NoConversation
      /\ UNCHANGED <<file, conv, scan, sessions, issued, saved, blurred>>
  BY DEF Resume, Open
<1>2. VaultOK(RestoreFrom(file)) /\ RestoreFrom(file).forward = file.forward
  BY RestoreFromOK DEF IndInv
<1>3. vault'[p] = RestoreFrom(file) /\ \A q \in Process \ {p} : vault'[q] = vault[q]
  BY <1>1 DEF IndInv, TypeOK
<1>4. TypeOK'
  BY <1>1, <1>2 DEF IndInv, TypeOK, VaultOK
<1>5. VaultConsistent' /\ FileOK(file)' /\ OpenOnce' /\ AwaitedHere' /\ FileRecords'
      /\ IssuedOneToOne'
  BY <1>1, <1>2, <1>3 DEF IndInv, VaultConsistent, OpenOnce, AwaitedHere,
                          FileRecords, IssuedOneToOne
<1>6. CoveredKnown'
  <2> SUFFICES ASSUME NEW q \in covered', NEW a \in issued[conv[q]]
               PROVE  conv[q] # NoConversation /\ Holds(vault'[q].forward, a)
    BY <1>1 DEF IndInv, TypeOK, CoveredKnown
  <2>1. CASE q = p
    BY <1>1, <1>2, <1>3, <2>1 DEF IndInv, FileRecords, Holds
  <2>2. CASE q # p
    BY <1>1, <1>3, <2>2 DEF IndInv, TypeOK, CoveredKnown
  <2> QED BY <2>1, <2>2
<1> QED BY <1>4, <1>5, <1>6 DEF IndInv

\* Ending a session, in order or not, leaves an empty table behind.
LEMMA CloseInv ==
  ASSUME IndInv, NEW p \in Process,
         vault' = [vault EXCEPT ![p] = EmptyVault],
         conv' = [conv EXCEPT ![p] = NoConversation],
         scan' \in [Process -> [Scan -> ScanType]],
         \A q \in Process, s \in Scan :
           scan'[q][s].conv \in {NoConversation, IF q = p THEN NoConversation ELSE scan[q][s].conv},
         covered' = covered \ {p},
         UNCHANGED <<sessions, issued, blurred>>,
         FileOK(file)',
         saved' \in Conversation \cup {NoConversation},
         FileRecords'
  PROVE  IndInv'
<1>1. TypeOK'
  BY EmptyVaultOK DEF IndInv, TypeOK, VaultOK, FileOK
<1>2. VaultConsistent' /\ OpenOnce' /\ AwaitedHere' /\ IssuedOneToOne'
  BY EmptyVaultOK DEF IndInv, TypeOK, VaultConsistent, OpenOnce, AwaitedHere, IssuedOneToOne
<1>3. CoveredKnown'
  BY DEF IndInv, TypeOK, CoveredKnown
<1> QED BY <1>1, <1>2, <1>3 DEF IndInv

\* Whatever a shutdown does to the file, the file records what it claims.
LEMMA PersistOK ==
  ASSUME IndInv, NEW p \in Process, Persist(p), conv[p] # NoConversation,
         UNCHANGED issued
  PROVE  /\ FileOK(file)'
         /\ saved' \in Conversation \cup {NoConversation}
         /\ FileRecords'
<1>1. CASE UNCHANGED <<file, saved>>
  BY <1>1 DEF IndInv, TypeOK, FileRecords
<1>2. CASE file' = NoFile /\ saved' = NoConversation
  BY <1>2, EmptyFileOK DEF NoFile, FileRecords
<1>3. CASE SaveVault(p)
  <2>1. FileOK(Serialize(vault[p])) /\ Serialize(vault[p]).forward = vault[p].forward
    BY SerializeOK DEF IndInv, VaultConsistent
  <2>2. conv[p] \in Conversation
    BY DEF IndInv, TypeOK
  <2> QED BY <1>3, <2>1, <2>2 DEF SaveVault, IndInv, CoveredKnown, FileRecords, Holds
<1> QED BY <1>1, <1>2, <1>3, PassphraseAssumption
        DEF Persist, SaveVaultFails, DeleteVaultFile

\* session_shutdown.
LEMMA ShutdownInv ==
  ASSUME IndInv, NEW p \in Process, Shutdown(p)
  PROVE  IndInv'
<1>1. /\ vault' = [vault EXCEPT ![p] = EmptyVault]
      /\ conv' = [conv EXCEPT ![p] = NoConversation]
      /\ covered' = covered \ {p}
      /\ UNCHANGED <<sessions, issued, blurred>>
      /\ Persist(p) /\ conv[p] # NoConversation
  BY DEF Shutdown, Clear, Open
<1> DEFINE left == [s \in Scan |-> IF scan[p][s] = Idle THEN Idle
                                   ELSE [scan[p][s] EXCEPT !.conv = NoConversation]]
<1>2. left \in [Scan -> ScanType] /\ \A s \in Scan : left[s].conv = NoConversation
  <2> SUFFICES ASSUME NEW s \in Scan
               PROVE  left[s] \in ScanType /\ left[s].conv = NoConversation
    OBVIOUS
  <2>1. scan[p][s] \in ScanType
    BY DEF IndInv, TypeOK
  <2>2. [scan[p][s] EXCEPT !.conv = NoConversation] \in ScanType
    BY <2>1 DEF ScanType
  <2>3. [scan[p][s] EXCEPT !.conv = NoConversation].conv = NoConversation
    BY <2>1 DEF ScanType
  <2> QED BY <2>1, <2>2, <2>3 DEF Idle, ScanType
<1>3. scan' = [scan EXCEPT ![p] = left]
  BY DEF Shutdown
<1> HIDE DEF left
<1>4. /\ scan' \in [Process -> [Scan -> ScanType]]
      /\ \A q \in Process, s \in Scan : scan'[q][s].conv \in
           {NoConversation, IF q = p THEN NoConversation ELSE scan[q][s].conv}
  BY <1>2, <1>3 DEF IndInv, TypeOK
<1> QED BY <1>1, <1>4, PersistOK, CloseInv

\* The process dies; the file stays as it is.
LEMMA ProcessDiesInv ==
  ASSUME IndInv, NEW p \in Process, ProcessDies(p)
  PROVE  IndInv'
<1>1. /\ vault' = [vault EXCEPT ![p] = EmptyVault]
      /\ conv' = [conv EXCEPT ![p] = NoConversation]
      /\ scan' = [scan EXCEPT ![p] = [s \in Scan |-> Idle]]
      /\ covered' = covered \ {p}
      /\ UNCHANGED <<file, sessions, issued, saved, blurred>>
  BY DEF ProcessDies
<1>2. Idle \in ScanType /\ Idle.conv = NoConversation
  BY DEF Idle, ScanType
<1>3. /\ scan' \in [Process -> [Scan -> ScanType]]
      /\ \A q \in Process, s \in Scan : scan'[q][s].conv \in
           {NoConversation, IF q = p THEN NoConversation ELSE scan[q][s].conv}
  BY <1>1, <1>2 DEF IndInv, TypeOK
<1>4. FileOK(file)' /\ saved' \in Conversation \cup {NoConversation} /\ FileRecords'
  BY <1>1 DEF IndInv, TypeOK, FileRecords
<1> QED BY <1>1, <1>3, <1>4, CloseInv

-----------------------------------------------------------------------------
\* Every step preserves the inductive invariant.
LEMMA NextInv == IndInv /\ [Next]_vars => IndInv'
<1> SUFFICES ASSUME IndInv, [Next]_vars PROVE IndInv'
  OBVIOUS
<1>1. CASE UNCHANGED vars
  BY <1>1 DEF vars, IndInv, TypeOK, VaultConsistent, OpenOnce, AwaitedHere,
              CoveredKnown, FileRecords, IssuedOneToOne
<1>2. ASSUME NEW p \in Process, Step(p) PROVE IndInv'
  <2>1. ASSUME NEW c \in Conversation, SessionStart(p, c) PROVE IndInv'
    BY <2>1, SessionStartInv
  <2>2. ASSUME NEW s \in Scan, ScanStart(p, s) \/ ScanDisowned(p, s) PROVE IndInv'
    BY <2>2, ScanInv
  <2>3. ASSUME NEW s \in Scan, NEW found \in SUBSET (Value \X Type), ScanAnswer(p, s, found)
        PROVE  IndInv'
    BY <2>3, ScanInv
  <2>4. ASSUME NEW s \in Scan, NEW x \in Value, NEW t \in Type, Substitute(p, s, x, t)
        PROVE  IndInv'
    BY <2>4, SubstituteInv
  <2> QED BY <1>2, <2>1, <2>2, <2>3, <2>4, ResumeInv, ShutdownInv, ProcessDiesInv DEF Step
<1> QED BY <1>1, <1>2 DEF Next

\* The inductive invariant holds throughout.
THEOREM Invariance == Spec => []IndInv
BY InitInv, NextInv, PTL DEF Spec

\* Every variable keeps its type.
THEOREM TypeCorrect == Spec => []TypeOK
<1>1. IndInv => TypeOK
  BY DEF IndInv
<1> QED BY <1>1, Invariance, PTL

\* Every table in memory stays a one-to-one naming with its counters and
\* its count in step (vault.ts).
THEOREM Consistency == Spec => []VaultConsistent
<1>1. IndInv => VaultConsistent
  BY DEF IndInv
<1> QED BY <1>1, Invariance, PTL

\* What rehydration puts into a tool call of a covered conversation is the
\* value the placeholder was issued for.
THEOREM Rehydration == Spec => []CoveredResolves
<1>1. IndInv => CoveredResolves
  BY DEF IndInv, CoveredKnown, Holds, CoveredResolves, Rehydrate
<1> QED BY <1>1, Invariance, PTL

\* A file saved by a covered conversation records all of it.
THEOREM SavedFile == Spec => []FileRecords
<1>1. IndInv => FileRecords
  BY DEF IndInv
<1> QED BY <1>1, Invariance, PTL

\* The placeholders of a conversation that was never blurred are unambiguous.
THEOREM Unambiguity == Spec => []NamesUnambiguous
<1>1. IndInv => NamesUnambiguous
  BY DEF IndInv, IssuedOneToOne, NamesUnambiguous
<1> QED BY <1>1, Invariance, PTL

-----------------------------------------------------------------------------
\* The tables as books, and the file as the archive.
Books == [p \in Process |-> Entries(vault[p])]

\* Changing one table changes one book.
LEMMA BookChange ==
  ASSUME NEW p \in Process, NEW w, DOMAIN vault = Process,
         vault' = [vault EXCEPT ![p] = w]
  PROVE  Books' = [Books EXCEPT ![p] = Entries(w)] /\ Books[p] = Entries(vault[p])
BY DEF Books

\* Every step of the lifecycle is a step of the abstract book, or none.
LEMMA StepSimulation ==
  ASSUME IndInv, [Next]_vars
  PROVE  [Book!Next]_<<Books, Entries(file)>>
<1>1. CASE UNCHANGED <<vault, file>>
  BY <1>1 DEF Books
<1>2. ASSUME NEW p \in Process, NEW s \in Scan, NEW x \in Value, NEW t \in Type,
             Substitute(p, s, x, t)
      PROVE  [Book!Next]_<<Books, Entries(file)>>
  <2> DEFINE v == vault[p]
             w == GetPlaceholder(v, x, t)
             e == <<NextPlaceholder(v, t), x>>
  <2>1. vault' = [vault EXCEPT ![p] = w] /\ file' = file /\ VaultOK(v)
    BY <1>2 DEF Substitute, IndInv, VaultConsistent
  <2>2. CASE x \in DOMAIN v.reverse
    <3>1. w = v
      BY <2>2 DEF GetPlaceholder
    <3>2. Books' = Books /\ Entries(file)' = Entries(file)
      BY <2>1, <3>1 DEF IndInv, TypeOK, Books
    <3> QED BY <3>2
  <2>3. CASE x \notin DOMAIN v.reverse
    <3>1. /\ Entries(w) = Entries(v) \cup {e} /\ e \in Placeholder \X Value
          /\ \A k \in Entries(v) : k[1] # e[1] /\ k[2] # e[2]
      BY <2>1, <2>3, MintedEntry
    <3> HIDE DEF w, e
    <3>2. Books' = [Books EXCEPT ![p] = Entries(w)] /\ Books[p] = Entries(v)
      BY <2>1, BookChange DEF IndInv, TypeOK
    <3>3. Books'[p] = Entries(w) /\ e \in Books'[p] \ Books[p]
      BY <3>1, <3>2 DEF Books
    <3>4. Book!Learn(p)
      BY <2>1, <3>1, <3>2, <3>3 DEF Book!Learn, Book!New, Books
    <3> QED BY <3>4 DEF Book!Next
  <2> QED BY <2>2, <2>3
<1>3. ASSUME NEW p \in Process, Resume(p)
      PROVE  [Book!Next]_<<Books, Entries(file)>>
  <2>1. vault' = [vault EXCEPT ![p] = RestoreFrom(file)] /\ file' = file
    BY <1>3 DEF Resume
  <2>2. Entries(RestoreFrom(file)) = Entries(file)
    BY RestoreFromOK DEF IndInv, Entries
  <2> DEFINE w == RestoreFrom(file)
  <2>3. Books' = [Books EXCEPT ![p] = Entries(file)]
    <3>1. vault' = [vault EXCEPT ![p] = w] /\ DOMAIN vault = Process
      BY <2>1 DEF IndInv, TypeOK
    <3> HIDE DEF w
    <3>2. Books' = [Books EXCEPT ![p] = Entries(w)]
      BY <3>1, BookChange
    <3> QED BY <2>2, <3>2 DEF w
  <2>4. Book!Recall(p)
    BY <2>1, <2>3 DEF Book!Recall, Books
  <2> QED BY <2>4 DEF Book!Next
<1>4. Entries(EmptyVault) = {} /\ Entries(NoFile) = {}
  BY DEF Entries, EmptyVault, EmptyMap, NoFile, Serialize
<1>5. ASSUME NEW p \in Process, vault' = [vault EXCEPT ![p] = EmptyVault],
             Entries(file)' \in {Entries(file), {}, Entries(vault[p])}
      PROVE  [Book!Next]_<<Books, Entries(file)>>
  <2>1. Books' = [Books EXCEPT ![p] = {}] /\ Books[p] = Entries(vault[p])
    <3>1. vault' = [vault EXCEPT ![p] = EmptyVault] /\ DOMAIN vault = Process
      BY <1>5 DEF IndInv, TypeOK
    <3>2. Books' = [Books EXCEPT ![p] = Entries(EmptyVault)] /\ Books[p] = Entries(vault[p])
      BY <3>1, BookChange
    <3> QED BY <1>4, <3>2
  <2>2. Book!Close(p)
    BY <1>5, <2>1 DEF Book!Close, Books
  <2> QED BY <2>2 DEF Book!Next
<1>6. ASSUME NEW p \in Process, Shutdown(p)
      PROVE  [Book!Next]_<<Books, Entries(file)>>
  <2>1. vault' = [vault EXCEPT ![p] = EmptyVault] /\ Persist(p)
    BY <1>6 DEF Shutdown, Clear
  <2>2. file' \in {file, NoFile, Serialize(vault[p])}
    BY <2>1, PassphraseAssumption DEF Persist, SaveVault, SaveVaultFails, DeleteVaultFile
  <2>3. Entries(file)' \in {Entries(file), {}, Entries(vault[p])}
    BY <1>4, <2>2 DEF Entries, Serialize
  <2> QED BY <1>5, <2>1, <2>3
<1>7. ASSUME NEW p \in Process, ProcessDies(p)
      PROVE  [Book!Next]_<<Books, Entries(file)>>
  BY <1>5, <1>7 DEF ProcessDies
<1>8. ASSUME NEW p \in Process, Step(p)
      PROVE  [Book!Next]_<<Books, Entries(file)>>
  <2>1. ASSUME NEW c \in Conversation, SessionStart(p, c) PROVE UNCHANGED <<vault, file>>
    BY <2>1 DEF SessionStart
  <2>2. ASSUME NEW s \in Scan, NEW found \in SUBSET (Value \X Type),
               ScanStart(p, s) \/ ScanDisowned(p, s) \/ ScanAnswer(p, s, found)
        PROVE  UNCHANGED <<vault, file>>
    BY <2>2 DEF ScanStart, ScanDisowned, ScanAnswer
  <2>3. {} \in SUBSET (Value \X Type)
    OBVIOUS
  <2> QED BY <1>1, <1>2, <1>3, <1>6, <1>7, <1>8, <2>1, <2>2, <2>3 DEF Step
<1> QED BY <1>1, <1>8 DEF Next, vars

\* The vaults and their file implement the abstract book of pseudonyms: no
\* name and no value is ever used twice, and nothing is lost or changed but
\* by the end of a session or a resume.
THEOREM Refinement == Spec => PseudonymsSpec
<1>1. Init => Book!Init
  BY DEF Init, Book!Init, Entries, EmptyVault, EmptyMap, NoFile, Serialize
<1>2. IndInv /\ [Next]_vars => [Book!Next]_<<Books, Entries(file)>>
  BY StepSimulation
<1> QED BY <1>1, <1>2, Invariance, PTL DEF Spec, PseudonymsSpec, Book!Spec, Books
=============================================================================
