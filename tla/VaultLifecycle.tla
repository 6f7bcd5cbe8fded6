--------------------------- MODULE VaultLifecycle ---------------------------
(***************************************************************************)
(* The vault over the life of several extension processes that share one   *)
(* encrypted file: sessions open and end, scans of text mint placeholders  *)
(* when the detection service answers, the user runs /sanitize resume, the *)
(* process shuts down in order or dies.                                    *)
(*                                                                         *)
(* A conversation is what the agent keeps in its own session file and can  *)
(* reopen later, in another process; it holds placeholders only (ADR-5),   *)
(* so whether it still makes sense depends on the vault.                   *)
(*                                                                         *)
(* Code runs to completion on one thread per process: a scan waits in an   *)
(* await, and once answered its substitutions run with nothing between.    *)
(***************************************************************************)
EXTENDS Vault

CONSTANTS
  Process,         \* extension processes
  Conversation,    \* conversations the agent keeps
  NoConversation,  \* a process between sessions; a scan nobody waits for
  Scan,            \* scans a process can have in flight
  HasPassphrase,   \* whether SANITIZE_VAULT_KEY is set
  MaxSessions      \* bound: sessions opened, over all processes

ASSUME NoConversationAssumption == NoConversation \notin Conversation
ASSUME PassphraseAssumption == HasPassphrase \in BOOLEAN
ASSUME MaxSessionsAssumption == MaxSessions \in Nat

VARIABLES
  vault,    \* each process's table
  file,     \* the saved table; NoFile when absent or unreadable
  conv,     \* the conversation open in each process
  scan,     \* each process's scans: waiting, substituting or idle
  sessions, \* sessions opened so far, up to MaxSessions
  \* History, read by the properties alone:
  issued,   \* placeholder-value pairs put into each conversation
  covered,  \* processes whose vault knows all their open conversation issued
  saved,    \* the conversation whose every pair is in the file, if any
  blurred   \* conversations issued a pair while not covered

historyVars == <<issued, covered, saved, blurred>>
vars == <<vault, file, conv, scan, sessions, issued, covered, saved, blurred>>

\* A file of no entries is never written, so it stands for none.
NoFile == Serialize(EmptyVault)

Idle == [st |-> "idle", conv |-> NoConversation, todo |-> {}]

\* A process is running its substitutions.  They touch nothing another
\* process reads, so the others' steps come before or after them.
Busy == \E p \in Process, s \in Scan : scan[p][s].st = "substituting"

Open(p) == conv[p] # NoConversation /\ ~Busy

Init ==
  /\ vault = [p \in Process |-> EmptyVault]
  /\ file = NoFile
  /\ conv = [p \in Process |-> NoConversation]
  /\ scan = [p \in Process |-> [s \in Scan |-> Idle]]
  /\ sessions = 0
  /\ issued = [c \in Conversation |-> {}]
  /\ covered = {}
  /\ saved = NoConversation
  /\ blurred = {}

-----------------------------------------------------------------------------
(* session_start: a new conversation or an earlier one.  The handler does  *)
(* not load the saved vault.                                               *)
SessionStart(p, c) ==
  /\ conv[p] = NoConversation /\ ~Busy
  /\ \A q \in Process : conv[q] # c
  /\ sessions < MaxSessions /\ sessions' = sessions + 1
  /\ conv' = [conv EXCEPT ![p] = c]
  /\ covered' = IF issued[c] = {} THEN covered \cup {p} ELSE covered
  /\ UNCHANGED <<vault, file, scan, issued, saved, blurred>>

\* A hook asks the service about a text and awaits the answer.
ScanStart(p, s) ==
  /\ Open(p)
  /\ scan[p][s] = Idle
  /\ scan' = [scan EXCEPT ![p][s] = [st |-> "waiting", conv |-> conv[p], todo |-> {}]]
  /\ UNCHANGED <<vault, file, conv, sessions, historyVars>>

\* The answer.  No finding, an error and a timeout all leave the vault alone.
ScanAnswer(p, s, found) ==
  /\ ~Busy
  /\ scan[p][s].st = "waiting"
  /\ scan' = [scan EXCEPT ![p][s] =
       IF found = {} THEN Idle
                     ELSE [@ EXCEPT !.st = "substituting", !.todo = found]]
  /\ UNCHANGED <<vault, file, conv, sessions, historyVars>>

\* Another block of the same tool result failed: the result is withheld at
\* once, and this block's scan goes on with nobody waiting for it.
ScanDisowned(p, s) ==
  /\ ~Busy
  /\ scan[p][s].st = "waiting"
  /\ scan' = [scan EXCEPT ![p][s] = [@ EXCEPT !.conv = NoConversation]]
  /\ UNCHANGED <<vault, file, conv, sessions, historyVars>>

-----------------------------------------------------------------------------
(* substitute: one finding; spans are replaced from last to first, and the *)
(* model takes them in any order.                                          *)

\* What a conversation was issued is followed as long as it is covered.
Issue(p, c, pair) ==
  /\ IF p \in covered
     THEN issued' = [issued EXCEPT ![c] = @ \cup {pair}] /\ UNCHANGED blurred
     ELSE blurred' = blurred \cup {c} /\ UNCHANGED issued
  /\ saved' = IF saved = c /\ (p \notin covered \/ pair \notin issued[c])
              THEN NoConversation ELSE saved
  /\ UNCHANGED covered

Substitute(p, s, x, t) ==
  /\ scan[p][s].st = "substituting"
  /\ <<x, t>> \in scan[p][s].todo
  /\ vault' = [vault EXCEPT ![p] = GetPlaceholder(@, x, t)]
  /\ LET left == scan[p][s].todo \ {<<x, t>>}
         c == scan[p][s].conv
     IN  /\ scan' = [scan EXCEPT ![p][s] = IF left = {} THEN Idle ELSE [@ EXCEPT !.todo = left]]
         /\ IF c = NoConversation THEN UNCHANGED historyVars
                                  ELSE Issue(p, c, <<vault'[p].reverse[x], x>>)
  /\ UNCHANGED <<file, conv, sessions>>

-----------------------------------------------------------------------------
(* /sanitize resume: the whole table is replaced by the saved one, if one  *)
(* can be read.  The user may run it at any time of a session.             *)
Resume(p) ==
  /\ Open(p)
  /\ HasPassphrase
  /\ file # NoFile
  /\ vault' = [vault EXCEPT ![p] = RestoreFrom(file)]
  /\ covered' = IF issued[conv[p]] = {} \/ saved = conv[p] THEN covered \cup {p} ELSE covered \ {p}
  /\ UNCHANGED <<file, conv, scan, sessions, issued, saved, blurred>>

-----------------------------------------------------------------------------
(* session_shutdown: save a table with entries, else delete the file; then *)
(* clear the table.  Scans in flight are not cancelled.                    *)

\* Bug: the table is cleared before it is serialised.
SaveVaultAfterClear(p) ==
  /\ file' = Serialize(EmptyVault)
  /\ saved' = IF p \in covered THEN conv[p] ELSE NoConversation

SaveVault(p) ==
  /\ file' = Serialize(vault[p])
  /\ saved' = IF p \in covered THEN conv[p] ELSE NoConversation

\* The error is swallowed; the old file is untouched, or cut short.
SaveVaultFails ==
  \/ UNCHANGED <<file, saved>>
  \/ file' = NoFile /\ saved' = NoConversation

\* An error is swallowed, whatever it is; the old file stays.
DeleteVaultFile ==
  \/ file' = NoFile /\ saved' = NoConversation
  \/ UNCHANGED <<file, saved>>

Persist(p) ==
  CASE ~HasPassphrase -> UNCHANGED <<file, saved>>
    [] HasPassphrase /\ vault[p].redactedCount > 0 -> SaveVault(p) \/ SaveVaultFails
    [] OTHER -> DeleteVaultFile

\* Bug: the table survives the session.
ClearNothing(v) == v

Clear(v) == EmptyVault

Shutdown(p) ==
  /\ Open(p)
  /\ Persist(p)
  /\ vault' = [vault EXCEPT ![p] = Clear(@)]
  /\ conv' = [conv EXCEPT ![p] = NoConversation]
  /\ scan' = [scan EXCEPT ![p] =
       [s \in Scan |-> IF @[s] = Idle THEN Idle ELSE [@[s] EXCEPT !.conv = NoConversation]]]
  /\ covered' = covered \ {p}
  /\ UNCHANGED <<sessions, issued, blurred>>

\* The process exits or is killed; another takes its place.
ProcessDies(p) ==
  /\ vault' = [vault EXCEPT ![p] = EmptyVault]
  /\ conv' = [conv EXCEPT ![p] = NoConversation]
  /\ scan' = [scan EXCEPT ![p] = [s \in Scan |-> Idle]]
  /\ covered' = covered \ {p}
  /\ UNCHANGED <<file, sessions, issued, saved, blurred>>

-----------------------------------------------------------------------------
Step(p) ==
  \/ \E c \in Conversation : SessionStart(p, c)
  \/ \E s \in Scan : ScanStart(p, s) \/ ScanDisowned(p, s)
  \/ \E s \in Scan, found \in SUBSET (Value \X Type) : ScanAnswer(p, s, found)
  \/ \E s \in Scan, x \in Value, t \in Type : Substitute(p, s, x, t)
  \/ Resume(p)
  \/ Shutdown(p)
  \/ ProcessDies(p)

Next == \E p \in Process : Step(p)

Spec == Init /\ [][Next]_vars

-----------------------------------------------------------------------------
(* Properties.                                                             *)

ScanType ==
  [st : {"idle", "waiting", "substituting"},
   conv : Conversation \cup {NoConversation},
   todo : SUBSET (Value \X Type)]

\* The variables have their types.
TypeOK ==
  /\ DOMAIN vault = Process /\ \A p \in Process : NamesOK(vault[p])
  /\ NamesOK(file)
  /\ conv \in [Process -> Conversation \cup {NoConversation}]
  /\ scan \in [Process -> [Scan -> ScanType]]
  /\ sessions \in 0 .. MaxSessions
  /\ issued \in [Conversation -> SUBSET (Placeholder \X Value)]
  /\ covered \subseteq Process
  /\ saved \in Conversation \cup {NoConversation}
  /\ blurred \subseteq Conversation

\* Whatever is minted, saved, restored or cleared in whatever order, the two
\* maps of every table are mutual inverses, every number was given out by a
\* counter, and the count shown is the number of values (vault.ts).
VaultConsistent == \A p \in Process : VaultOK(vault[p])

\* In a conversation opened fresh, or resumed from a file that records all
\* of it, every placeholder it was ever issued rehydrates to the value it
\* replaced, if its type is one the pattern of rehydrate matches (ADR-5).
CoveredResolves ==
  \A p \in covered : \A pair \in issued[conv[p]] :
    pair[1][1] \in Rehydratable => Rehydrate(vault[p], pair[1]) = pair[2]

\* A file saved by a covered conversation records all it was ever issued,
\* until the conversation goes on or another session replaces the file: so
\* a resume brings back exactly what the conversation needs.
FileRecords ==
  saved # NoConversation =>
    \A pair \in issued[saved] :
      pair[1] \in DOMAIN file.forward /\ file.forward[pair[1]] = pair[2]

\* Unless a conversation went on with a vault that did not cover it, each of
\* its placeholders stands for one value and each value has one placeholder,
\* over all its sessions and processes (ADR-4, "Stable").
NamesUnambiguous ==
  \A c \in Conversation \ blurred : \A a, b \in issued[c] :
    (a[1] = b[1]) <=> (a[2] = b[2])

\* The vaults and the file implement the abstract book of pseudonyms.
Book == INSTANCE Pseudonyms WITH
  Name <- Placeholder,
  book <- [p \in Process |-> Entries(vault[p])],
  archive <- Entries(file)

PseudonymsSpec == Book!Spec
=============================================================================
