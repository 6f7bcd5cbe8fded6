# Verification of sanitize

TLA+ models of sanitize: the agent extension (TypeScript), the detection
service (Python) and the gateway (Python). TLC checks them on small instances,
TLAPS proves the main results for all values of the constants. Paths below are
relative to the repository root; line numbers are those `PROJECT.json` maps
each definition to.

Contents: [1 The system](#1-the-system) · [2 The modules](#2-the-modules) ·
[3 The runs](#3-the-runs) · [4 The proofs](#4-the-proofs) ·
[5 Where code and documents disagree](#5-where-code-and-documents-disagree) ·
[6 What is abstracted, assumed or left out](#6-what-is-abstracted-assumed-or-left-out) ·
[7 Plan](#7-plan)

## 1 The system

Text on its way to a model provider is searched for secrets by a local service
and the values found are replaced by placeholders such as `[[EMAIL_1]]`. A
vault remembers which placeholder stands for which value, so that tool
arguments and displayed text can be turned back. If anything fails, nothing is
sent ("fail closed").

| Component | Source | State | Operations | What makes it correct |
|---|---|---|---|---|
| Vault | `vault.ts` | two maps, a counter per type, a count | mint, rehydrate, serialize, restore, clear | the maps are inverse; a name never changes its value in a conversation |
| Persistence | `vault-persistence.ts`, `index.ts` | one encrypted file, shared by all processes | save, load, delete, `/sanitize resume` | a resumed conversation gets back exactly what it was issued |
| Hooks | `index.ts`, `egress.ts` | policy-failed flag, vault, requests in flight | `session_start`, `input`, `tool_result`, `context`, `session_before_compact`, `before_provider_request` | nothing detected leaves raw; an event is shown or withheld whole; every call is settled |
| Client | `client.ts` | none | detect with a timer, health, fetchPolicy | ends in an answer or an error |
| Chunker and cache | `chunker.ts`, `chunk-cache.ts` | clean chunks with times, at most 256 for 5 minutes | cut, skip, scan, merge, expire, evict | a word that fits in the overlap is found whole; skipping is bounded in time |
| Substitution | `substitute.ts` | the vault | replace spans, last first | exactly the reported values are replaced; the text can be restored |
| Detection | `engine.py` | an analyzer per policy; a cache of clean chunks, without age | search, merge, additive language model | nothing is missed because of a cut, a cache entry or another policy; placeholders stay whole; no overlaps, nothing invented |
| Recognizers | `recognizers/*.py` | GLiNER's model and what it was loaded with; whether the language model is there | search a text, load or give up, probe, lose and probe again | report what the policy asks for, and are only given up where they cannot be had |
| HTTP service | `app.py` | policy, version, signature, counters | detect, health, policy, metrics | serves under the policy it names |
| Policy | `policy.py`, `config.ts`, `scripts/sign-policy.py` | key pairs, signed directory, local files, the extension's configuration | sign, merge, load, serve, fetch, verify | local files only tighten; an answer whose signature is not of the trusted key is refused (one without a signature is accepted, see section 5) |
| Gateway | `gateway.py` | a vault per session with its last use; a buffer per stream | scrub, refuse, forward, pass through, rehydrate (also in streams), expire | the strings of answers are turned back with the right vault; streams lose nothing |
| Deny list, audit, commands, display, evals | see `PROJECT.json` | none that others depend on | | not modelled |

**How they interact.** The agent calls the hooks and awaits them; a hook sends
each text block to the service in a request of its own (concurrently:
`Promise.all`), and long blocks in chunks. Code runs to completion between
awaits, on one thread, so everything that can go wrong goes wrong at an await:
other handlers run, the session may end, the vault may be replaced, the policy
may change, requests fail. Several agent processes share one vault file and one
service. The service has no await inside `detect`; its requests follow one
another. The gateway scrubs a body without an await, then awaits the provider.

**What is hard.** Concurrent blocks of one event of which some fail; values
found by a scan whose result was withheld; a conversation that is reopened in
another process with a vault saved by a third; answers computed under an older
policy; values that lie across a cut, or overlap one another; signed files that
are written one after the other, with one key or another; models that fail to
load or vanish; text that was scrubbed before and is scanned again; sessions
that expire while an answer is on its way; placeholders cut by a stream whose
buffer several channels share. `PROJECT.json` lists each of these hazards at
its line, with the properties that would catch it.

## 2 The modules

| Module | Models | Builds on |
|---|---|---|
| `Vault` | the data structure of `vault.ts`, and of `GatewayVault` | |
| `Pseudonyms` | what a vault promises, abstractly: a book of pairs in which no name and no value occurs twice | |
| `VaultLifecycle` | vaults of several processes and their file, over sessions, resumes, failed saves and crashes | `Vault`; implements `Pseudonyms` |
| `ScrubSession` | the hooks of one session with concurrent events, blocks and failures | |
| `Spans` | overlaps and preference, and `IsMerge`: what a merge promises | |
| `Chunker` | cutting a text, moving spans, `mergeSpans` | `Spans` |
| `ChunkScan` | concurrent scans over the shared cache, with time and policy changes | `Chunker` |
| `Recognizers` | what each layer finds under a policy, and what the engine drops of it | |
| `DetectService` | the service's search: short texts by all layers and the language model, long ones in line-aligned chunks through prefilter and clean cache; models that are loaded, fail or vanish | `Recognizers` |
| `SpanMerge` | the service's `merge_spans`, step by step, and the additive language model | `Spans` |
| `Substitution` | `substitute` on UTF-16 units, text after text with one vault | `Vault` |
| `Policy` | the merges of `policy.py` | |
| `PolicyDistribution` | signing with one of several keys, loading, serving, fetching and verifying a policy | `Policy` |
| `Gateway` | sessions, vaults, requests (served, refused, failing, passed through), expiry, restart | `Vault` |
| `GatewayStream` | `StreamRehydrator` under several channels, the tool-call fragments that bypass it, and the stream's end | |
| `*Proofs` | theorems about the module of that name; `DetectServiceProofs` also about `SpanMerge`, `GatewayProofs` about `GatewayStream`, `ChunkScanProofs` about `Chunker` | |
| `MC*` | constants of the small instances | |

**How they fit together.** The modules follow a text from end to end, and each
hands the next one a promise, not an implementation. `DetectService` ends with
the set of reports that `SpanMerge` begins with (its `Analyze` takes any set,
and its `AddLlm` any answer of the language model).
`SpanMerge` shows that the service's answer satisfies `IsMerge`; `ChunkScan`
takes *every* answer with that property (`Answers`) and so does not depend on
the recognizers, and `Substitution` takes every set of spans that lie apart.
`IsMerge` says more than that a strongest report stays covered: no merged span
goes on behind the end of a chain of overlaps (`Uncrossed`). Without this the
merge of the chunks would not keep what the chunks found: TLC found a text on
which a chunk's own answer, allowed to run across such an end, displaced a word
that the chunk before had reported. `Substitution` and `VaultLifecycle` share the
operators of `Vault` with `Gateway`. `ScrubSession` keeps of the vault the set
of values it knows, which grows as `Pseudonyms` says until a saved vault takes its
place (`Resume`), and
`VaultLifecycle` is shown to implement `Pseudonyms` with
`book <- Entries(vault[p])`. `PolicyDistribution` ends where the extension's
`policyVerificationFailed` flag is set; `SessionStart` of `ScrubSession` takes
either outcome.

**State and actions.** Variables keep the names of the code's state where it
has names (`cache`, `pending`, `sessions`, `known` for the keys of
`vault.reverse`). A handler is split exactly at its awaits: `ScanStart` /
`ScanAnswer` (tool_result), `InputHook`, `ToolResultHook` or `RescanHook` /
`Answer`, `Unavailable` or `Malformed` / `Deliver` (the hooks of `index.ts`, each
with its own check of the policy flag), `Start` / `Serve` / `Receive`
(`detectChunked`), `SessionStart` / `ServePolicy` / `Receive` (fetchPolicy),
`Arrive` / `BodyRead` / `Answer` (the gateway's `proxy`). The service's `detect`
has no await; `DetectService` splits it where its calls may go different ways,
at each chunk and at the language model's probe and answer (`DetectShort`,
`ProbeLlm`, `AskLlm`, `DetectLong`, `SkipChunk`, `SearchChunk`, `Return`), and
begins no request before the last one is over. Loops that mint
placeholders run one substitution per step, and `Busy` keeps everything else
from running in between, as the event loop does. History variables (`issued`,
`covered`, `saved`, `blurred`, `detected`, `refused`, `barred`, `since`, `latest`, `told`, `signed`,
`tainted`, `lacking`, `received`, `split`, `sent`, `mixed`, and the service's `read`)
are read by properties only. Operators called *Bug* are the mutants: what the
neighbouring definition would be with a plausible mistake; no specification
uses them.

## 3 The runs

| Run | Instance | Properties |
|---|---|---|
| `vault_lifecycle` | 2 processes, 2 conversations, 1 scan each, 2 values, 1 type, up to 3 sessions | `VaultConsistent`, `CoveredResolves`, `FileRecords`, `NamesUnambiguous`, `PseudonymsSpec` |
| `hooks` | an input of 1 block, a tool result of 2, a rescan, a value of each kind, 1 saved vault, any number of session starts and resumes | `FailClosed`, `AllOrNothing`, `PolicyFailedWithholds`, `DetectedNeverSent`, `EventsAnswered` |
| `chunk_scan` | 2 scans, chunks of 4 sharing 1, a text cut through a word and one of a single chunk, a cache of 1 entry, a clock up to 3 | `SkippedFresh`, `FoundWhole`, `SpansExact` |
| `detect_service` | 4 short texts and 7 of 5 characters, words of every layer, 2 policies, chunks of 3, a cache of 1 | `SpansReal`, `PlaceholdersLeft`, `NothingMissed`, `LayersTried` |
| `span_merge` | every set of up to 3 reports over 4 characters with 3 scores, up to 2 of the language model | `FirmIsMerge`, `AnswerDisjoint`, `OnlyReported` |
| `substitution` | all texts of up to 3 characters, one of them wide, every answer, two types of which one is rehydrated, two texts with one vault | `RoundTrip`, `ExactIfNarrow` |
| `policy_distribution` | 2 policies (one without labels), 2 keys, 3 local files, one service, one extension with either key or none | `VersionHolds`, `VersionDenied`, `VersionSigned` |
| `gateway_sessions` | 2 sessions, 3 requests, 2 values, a clock up to 3 and a lifetime of 1 | `RepliesExact`, `Isolation`, `FreshKept` |
| `gateway_stream` | 2 channels, every text of up to 7 characters in pieces of up to 4, with fragments of arguments in between | `StreamExact`, `NothingLost`, `ArgumentsExact` |

Each of these also checks its module's `TypeOK` (`MergingTypeOK` and
`StreamTypeOK` in `SpanMerge` and `GatewayStream`), passes, and has for every
property a mutant that breaks it. Three runs are expected to find a violation:
`offsets_exact`, `secrets_reported`, `honest_verifies` (section 5).

**Bounds, and why they are enough.**
- *vault_lifecycle.* `MaxSessions` = 3 lets a conversation be opened, saved and
  reopened elsewhere, with another conversation's session in between, which is
  what it takes to overwrite the file. With two values a name can clash.
  Processes, conversations and values are symmetric. The proofs cover the rest.
- *hooks.* An input, a tool result of two blocks and a rescan over the log are
  the smallest instance in which a block fails beside its sibling, a late block
  reports into the vault, and a payload built earlier is then checked. The saved
  vault holds one of the three values, so that a resume takes others away. The
  values are one per class of what `egress.ts` and the vault check can
  recognise.
- *chunk_scan.* The word `<<1, 2>>` of length 2 = overlap + 1 lies across the
  first chunk's end. In front of it stand two weaker words that overlap each
  other and its first half, so that the chunk that sees only this half reports
  something in its place, and a stronger word that has nothing to do with them.
  A second text is a chunk of its own. `MaxTime` = 3 exceeds `MaxAge` +
  `Timeout` by one, so entries expire and late answers arrive.
- *detect_service.* Texts of five characters make two or three chunks of a
  target of 3, with the line end at several places and a word of a gitleaks
  rule, of a custom list, of the language pipeline, of the entropy layer and of
  GLiNER on either side of it; a block of lines and something like a
  placeholder lie across a border or within a chunk. Words share the
  prefilter's hint or not. The cache is full after one entry. The two policies
  differ in everything a layer looks at: one takes all defaults and GLiNER's
  default model, whose fallback changes threshold and labels, the other allows
  a secret and has the language model. Texts, policies, failures and restarts
  follow one another without limit. The proofs cover the rest.
- *span_merge.* A chain of three spans is what the loop's last span can be
  extended over and replaced by. The proof covers every number.
- *policy_distribution.* The files' actions may recur without limit; the three
  local files are none, one on which the merge raises, and one that adds a label,
  sets the thresholds to zero and tries to loosen the rest: under the policy with
  a list of labels and a threshold below the default one the zero loosens, under
  the one without labels the label does. Two policies and two keys (which
  are symmetric) suffice to pair one's file with the other's signature, and to
  meet an extension that trusts a key no longer in use.
- *gateway_sessions.* `MaxTime` = 3 lets a session expire while its request
  is upstream and be made anew with another vault. Of an answer the last name is
  kept, wherever it stands; what `RepliesExact` and `Isolation` say of a name
  does not depend on the others.
- *gateway_stream.* A placeholder takes 5 characters; 7 leave room for what may
  stand before and after it. `MaxHeld` = 5 stands for the 64 characters of the
  code and is exceeded by brackets that open nothing. Two channels (symmetric)
  suffice to take each other's text. Fragments are a whole placeholder or
  either half.

**Deadlock** is not checked (`CHECK_DEADLOCK FALSE`): sessions, events, texts
and the clocks are finite in number here, and the system is at rest when all
are used up. In `DetectService` and `PolicyDistribution` there is always a
step, and the check would show nothing.

**Fairness.** Only `EventsAnswered` needs it. `FairSpec` assumes weak fairness
of `Progress(e)` for each event: its requests end and its pending work runs.
The code justifies it: `client.ts` aborts every request by its own timer
(55-57), so each promise settles though the service hangs, and the event
loop runs work that is ready. Nothing is assumed of the service, the user or the
agent.

## 4 The proofs

`tlapm` proves the following for every value of the constants, from the
assumptions named in the modules: constants have their types, bounds are natural
numbers, and those given below.

| Module | Theorems |
|---|---|
| `VaultProofs` | lemmas: minting, restoring and emptying keep a table consistent and only add names; a sequence of pieces is flattened piece by piece (used for texts in two of the modules below) |
| `VaultLifecycleProofs` | `TypeCorrect`, `Consistency`, `Rehydration`, `SavedFile`, `Unambiguity`, `Refinement` (of `Pseudonyms`) |
| `ScrubSessionProofs` | `TypeCorrect`, `FailsClosed`, `Wholeness`, `PolicyGate`, `ReportedNeverSent` |
| `ChunkScanProofs` | `ShortSpanInOneChunk` (cutting), `MergeSpansOK` (what `mergeSpans` returns, for every set of spans), `TypeCorrect`, `Freshness`, `Exactness`, `NothingLostToChunks` |
| `DetectServiceProofs` | of the search: `TypeCorrect`, `Real`, `PlaceholdersKept`, `Completeness`, `Tried`; of the merge: `MergingTypeCorrect`, `MergePromise`, `Disjointness`, `NothingInvented` |
| `SubstitutionProofs` | `TypeCorrect`, `RestoredExactly`, `ReportedIsRecorded` |
| `PolicyProofs` | `OnlyTightens`, `TypeCorrect`, `VersionKept`, `PathsDenied`, `OnlySigned` |
| `GatewayProofs` | of the sessions: `TypeCorrect`, `Exactness`, `Isolated`, `FreshSessionsKept`; of the streams: `StreamTypeCorrect`, `ChannelsExact`, `NoTextLost`, `ArgumentsApart` |

Every invariant that a passing run checks, and the refinement of `Pseudonyms`,
is stated by one of these theorems.

**Why the inductive invariants are as they are.**
- *VaultLifecycle.* `NamesUnambiguous` alone is not inductive: a new pair may
  clash with one issued before unless the vault is consistent and knows all of
  them (`CoveredKnown`). After a resume that follows from the file recording
  them (`FileRecords`), which in turn needs that no other process has the
  conversation open (`OpenOnce`) and that answers are only awaited where their
  conversation is open (`AwaitedHere`).
- *ScrubSession.* `DetectedNeverSent` needs that whatever a scan reported is in
  the vault or about to be put there by the substitutions now running
  (`Reported`), to which a resume, which comes between substitutions, does no
  harm. `PolicyFailedWithholds` needs that the code's flag still says what the
  history does (`refused = policyFailed`), whatever later session starts bring;
  the others need what a block's and an event's record may say (`BlockClean`,
  `ResultOK`).
- *ChunkScan.* That a skipped chunk is fresh follows from the age of the entry
  it was skipped for (`CacheClean`) and of the answer that entry came from
  (`RepliesClean`). `FoundWhole` speaks of the end of a scan, so `AllAnswered`
  says of every scan on its way what its answers are: each is a merge of the
  words found in its chunk, among them all that were in force since before the
  scan began, and the spans gathered so far are such answers, one for each chunk
  heard of. At the end this suffices. A word that is the strongest around it
  in the text is so in every chunk that contains it (`DominantIn`), is therefore
  reported from its own start (`Reported`), and no reported span reaches across
  an end of a chain (`Uncrossed`, `CutBelow`). What `mergeSpans` keeps of several
  reports of it is again one that covers it (`StrongestStands`): this is where
  the overlap, the merge in each chunk and the merge of the chunks meet.
- *DetectService.* `NothingMissed` is about the end of a search that began many
  steps, and whose cache began many requests, before. Its invariant says three
  things. Wherever the search stands is a border that falls into no short line
  (`Aligned`; `AlignedStep` shows that `ChunkEnd` keeps it so), hence a place in
  such a line lies whole in one chunk (`WholeInChunk`), where the recognizers
  find it (`PlacesOfChunk`) and the engine keeps it if it would in the text
  (`KeptOfChunk`). An entry that was recorded without a failure is of a chunk
  that is clean under its policy (`CacheOK`), whose GLiNER was decided by then
  and stays what it is (`EnginesOK`). And all places the search has passed are
  reported (`LongFound`), or a failure or a stale entry explains why not.
  `SpansReal` needs that what the recognizers find under their configuration is
  what may be sought at all (`FoundSought`): there the raised threshold of the
  fallback model is used.
- *SpanMerge* (in `DetectServiceProofs`). A dominant report stays covered when the span that covers it is
  replaced because no merged span reaches across a place where nothing overlaps
  (`Uncrossed`), and because the merged spans stay sorted.
- *Substitution.* Spans are replaced from the last to the first, so up to the
  end of any that is left the text is still the original (`Untouched`), and what
  is cut out is what was reported (`Recorded`). That the text can be restored is
  said of every moment in between (`Restorable`): turned back, the text made so
  far is the original text, as long as every name in it is of a type that
  `rehydrate` recognises. For this a name must stay what it is while later ones
  are minted.
- *PolicyDistribution.* `VersionDenied` and `VersionSigned` are about answers
  accepted after the files they came from have changed, so what holds of the
  service is carried by the answers it sent (`ReplyHolds`), and a signature
  names its key from the signing to the verification. `VersionHolds` is
  `OnlyTightens` of the policy and the local file the service read when it
  started (`read`); the file may change later.
- *Gateway.* `RepliesExact` rests on the vault a request holds knowing all
  names sent with it, whichever vault its session has by now; `Isolation` on
  every vault having values of one session only.
- *GatewayStream.* `StreamExact` says nothing of a cut that may still turn out
  to lie in a placeholder when more text comes. `StreamInv` keeps for each
  channel how its text was divided into pieces that were rehydrated one by one,
  and that the end of a piece can lie in a placeholder only at a place named in
  `split` (`EmittedOf`). Then rehydrating the pieces and rehydrating the whole
  come to the same (`RehydrateConcat`), since a placeholder either ends before a
  border or begins behind it.

**Induction over texts and spans.** Texts are sequences of any length, and
`FlattenSeq` and the model of `mergeSpans` are recursive functions. The
library's induction rules take an operator as a parameter, which the installed
provers do not accept; the proofs use a rule about *sets* in its place
(`NatSetInduction`: a set of numbers that has 0, and with each number the next,
has all of them) and put the claim in a set comprehension. `MergeSpansOK` takes
the spans in the order of the sort this way, the texts are taken piece by piece.

**Only model-checked.** `EventsAnswered`: liveness under fairness is out of the
prover's reach. The three runs that find a violation are counterexamples and
have nothing to prove.

## 5 Where code and documents disagree

Checked by a run that finds a counterexample:
- **Offsets** (`offsets_exact`). The service counts code points, the extension
  slices UTF-16 units. In the run's trace the text is one character outside the
  basic plane, reported as [0,1): the first of its two units is replaced and put
  into the vault, the second stays. Behind such a character all offsets are one
  short. ADR-3:59: "Offsets must be exact."
- **Secrets beside lookalikes** (`secrets_reported`). Whatever overlaps
  something that looks like a format-preserving placeholder is dropped whole
  (`engine.py:172-192`, 340): a private address `10.0.x.x` in
  a database URL with a password hides the URL. `docs/architecture.md:43`: such a
  secret "must never leave the machine". Chunks of long texts that match no
  prefilter pattern break the same property.
- **Signed policy** (`honest_verifies`). The service serves the configuration
  it made of the signed file (`fail_open` set, the local file merged) with the
  signature of the file. An extension with the key refuses it and blocks.
  `scripts/sign-policy.py:15`: "this is what clients receive".

Met while modelling, readable in the models, not run:
- A span extended over a lower-scored one is replaced whole by a third of a
  higher score (`engine.py:51`): [0,1) of score 2, [0,2) of 1 and [1,2) of 3
  leave only [1,2), though [0,1) outscored all it overlapped. `engine.py:34`:
  "keep the one with highest score". `FirmIsMerge` says what does hold.
- One recognizer that raises makes a short text's answer empty
  (`engine.py:325`), which the caller takes for clean; `docs/architecture.md:46`
  says that if the scrubber "errors, nothing is sent". `NothingMissed` excepts
  such requests (`failed`).
- The language model's spans are held against neither the allow list nor
  placeholders (`engine.py:414`), and blocks found by the pre-scan are not
  either (`engine.py:235`); `PlaceholdersLeft` is stated for the rest.
- A local file can loosen the org's policy in two ways (`Loosens`). A GLiNER
  threshold of 0 counts as none configured and becomes 0.5 (`engine.py:95`), so
  that a file that lowers 0.3 to 0 raises it. No or an empty list of labels
  means the default ones (`engine.py:93`, `gliner.py:127`), so that a file that
  lists one label narrows a policy that lists none, as the signed one of
  `test_app_org.py:150-155` does. `docs/usage.md:206`: "local configs can only
  make the policy stricter". `VersionHolds` and `OnlyTightens` say that there is
  no third way.
- An extension with a public key accepts an answer that has no signature
  (`client.ts:117`), records its version and denies its paths. `README.md:166`
  calls the policy "verified by the extension"; ADR-6:68 warns that it "must be
  signed and verified, or it becomes the bypass this ADR exists to prevent".
  `VersionSigned` is about versions that name a signed policy.
- The last check of a payload looks for the vault's raw values in its JSON
  (`index.ts:278`, 293), where a quote, a backslash or a line end is escaped: a
  value that has one is never found. `docs/usage.md:46` calls the check "a final
  safety net"; `docs/enterprise-readiness-plan.md:78` names the gap. It also
  knows only what the vault does, which a `/sanitize resume` in mid-session
  replaces by what was saved. `DetectedNeverSent` is stated for values in
  `Verbatim` and up to the next resume.
- An answer with status 200 that lists no spans is taken for one that does
  (`client.ts:73`). The hook then rejects in place of returning the marker for
  withheld content (`index.ts:211`, 273, 382). `docs/architecture.md:46`: if the
  scrubber "is down, slow, or errors, nothing is sent". Where an ingress hook
  rejects, `FailClosed` rests on the rescan, which searches the content again;
  where a rescan does, the checks of the payload are all that is left.
- The gateway turns names back only in the strings of an answer it can parse.
  They stay names in an answer or a line of a stream that is no JSON
  (`gateway.py:316`, 351-353, 368-370), in the keys of objects (141), in strings
  beside the text of a streamed event (372-377), and in the choices of an event
  behind the first (205). `docs/usage.md:361`: "all strings are rehydrated".
  `RepliesExact` says so for each place.
- Values put into fragments of streamed tool-call arguments are not escaped
  for JSON (`gateway.py:222-230`, 380); `docs/enterprise-readiness-plan.md:64`
  lists it. What JSON makes of a text is outside the model; `ArgumentsExact` is
  about the characters.
- A session that redacted nothing deletes the file of an earlier one when it
  shuts down (`index.ts:445`); `DeleteVaultFile` does the same, and no property
  says that a file stays.
- `detectors_run` names GLiNER, and the language model where it is configured,
  whether they run or not (`engine.py:100`, 165).
- A GLiNER model that fails to load, or a language model that fails a probe,
  stays off under that policy until the process ends (`gliner.py:190`,
  `llm.py:123`). A lost connection makes the next request probe again
  (`llm.py:165`), so one that comes while the model is still away turns it off
  for good too. `LayersTried` says that nothing else does.
- All choices or blocks of a stream share one buffer: text held back of one
  comes out as another's (`gateway.py:346`). `StreamExact` excepts such streams
  (`mixed`). An event whose text is held back whole is dropped with all else
  that it carries (378), what `[DONE]` flushes names no choice (358), and a
  placeholder cut by fragments of tool-call arguments is not rehydrated (380;
  `ArgumentsExact` excepts it).
- The gateway removes expired sessions only when `/health` is called
  (`gateway.py:264`); nothing bounds their number.
- `/sanitize resume` in mid-session replaces the vault, so a placeholder in use
  may change its value (`ui.ts:108`); ADR-4:50 says it "maps back to exactly
  one value". `NamesUnambiguous` leaves such conversations out (`blurred`).
- A scan answered after `session_shutdown` refills the cleared vault
  (`index.ts:448`); `docs/architecture.md:118` says it is wiped.
- A value longer than the overlap can lie whole in no chunk; `chunker.ts:8-10`
  says it is "fully contained in at least one chunk". `FoundWhole` and
  `ShortSpanInOneChunk` are stated for values that fit.
- A placeholder cut between its first two brackets is sent on in halves
  (`gateway.py:159`; the comment at 150 promises otherwise). `StreamExact`
  excepts it (`WellCut`).
- A stream that ends without `[DONE]` loses what is held back
  (`gateway.py:355`); `Break` models it.
- A failing fast recognizer lets the chunk be recorded as clean until the
  process ends (`engine.py:270`, 399); ADR-6:51 says there are "no time-based
  holes". `NothingMissed` excepts requests that meet such an entry (`stale`).
- A local file whose `labels` are null makes the tightening merge raise after
  the signature was set (`policy.py:126`, `app.py:60-67`): the service detects
  under the personal policy. `docs/usage.md:135` says local files "can only
  tighten". The model has this file; `VersionHolds` holds because the version
  is not set then.
- A rescan's hits are not logged when a sibling block fails (`index.ts:357`).

## 6 What is abstracted, assumed or left out

Abstracted:
- Values, words and names are model values or short sequences; formats of
  placeholders do not matter beyond type and number. A type matches the
  pattern of `rehydrate` or not (`Rehydratable`). Texts that hold what looks
  like a placeholder before anything was replaced in them are left out of
  `Substitution`.
- Encryption: a file is readable or it is not. A signature is the policy it is
  of and the key it was made with. Hashes do not collide.
- `egress.ts`: which values its patterns recognise (`Recognisable`), which are
  long enough for the check against the vault (`Long`), and which JSON writes as
  they are (`Verbatim`).
- Entries of one clock tick may be evicted in any order (`ChunkCache.evict`
  sorts by time; equal times are in insertion order).
- Policies list things in one order without repetition, except the literals;
  `allow` is sorted by the merge, which can only make verification fail more
  often. In `Policy` patterns and literals are one list. A signed policy may lack
  any of its lists; one that is missing counts as empty, but for the labels.
  Lists other than these that are null are not modelled.
- A recognizer's rules and models are the words it finds, wherever they stand:
  context that a rule or a model takes into account is left out. Places are
  reported, not types; scores matter where they decide whether a word is
  reported (`Recognizers`) and in the merge (`SpanMerge`).
  Presidio's own removal of results that lie in one another and have the same
  type is part of this: it takes no place away that another result does not
  cover.
- The service's chunked path is reached by the gateway and by direct callers
  only: the extension's chunks are shorter than its threshold.

Assumed of the surroundings (marked external in the map):
- The agent sends what the rescan hooks returned. Where a hook rejects it goes on
  with the content it had called the hook with.
- A value in `Detectable` is reported in every answer that arrives. When the
  service does report a word is what `DetectService` is about.
- Requests to the service follow one another: `detect` has no await.
- One conversation is open in at most one process at a time.
- What the gateway's provider writes may use any name it has ever been sent.

Left out, with the reason:
- Format-preserving placeholders and the reveal command: the former rewrite
  plain words one after the other, a text algorithm of its own beside the
  bracket mode that is the default.
- Audit records, metrics, display, headers and status codes: nothing reads them
  back into the state modelled here.
- The deny list's match of one path against patterns, the extension's `allow`
  list (nothing reads it), the choice of configuration files and environment
  overrides: stateless, or read once. A wrong token makes a request fail, as
  any other failure does.
- Images and other blocks without text, which pass.
- The evals and the benchmark, which measure the program from outside.

## 7 Plan

Order of the work, by importance; all of it is done: 1. The vault over sessions
and crashes, and its refinement. 2. The hooks. 3. Chunks and cache. 4. The
service's merge. 5. Substitution. 6. The gateway. 7. The service's search, its
recognizers and their models, with proofs. 8. Policies, their keys and their
distribution. 9. Streams of several channels.

What could follow:
- *Modules.* Format-preserving mode (names that occur inside other words, and
  the round trip without brackets). Audit records and rescan hits in
  `ScrubSession`.
- *Composition.* A module that runs the hooks over `Vault` itself in place of
  the set `known`, and shows that `ScrubSession` is implemented by it; the
  thresholds of `Policy` as those of `Recognizers`.
- *Proofs.* That the answers of `DetectService`, merged as `SpanMerge` does it,
  are among those `ChunkScan` takes, as a refinement in place of a promise; and
  that `ChunkScan` ends in spans `Substitution` takes.
