------------------------- MODULE PolicyDistribution -------------------------
(***************************************************************************)
(* How a policy the org signed reaches the detection and the extension:    *)
(* the signing tool writes its files one after another, the service reads  *)
(* them when it starts and serves what it made of them, and the extension  *)
(* fetches that at every session_start, verifies it if it has a public     *)
(* key, and adds its paths to those it denies.  The org may sign with one  *)
(* key pair and later with another; local files may change at any time;    *)
(* every process may end and begin anew.                                   *)
(*                                                                         *)
(* A signature names its policy and its key pair: it verifies exactly that *)
(* policy with exactly that key.                                           *)
(***************************************************************************)
EXTENDS Policy

CONSTANTS
  Central,   \* the policies the org may sign
  Torn,      \* a policy.json that is not written to its end
  Dated,     \* a version that names no policy, only the day
  Key,       \* the key pairs that the org has made
  Local,     \* the service's local files, Absent if there is none
  ExtraDeny  \* what a user's or a project's file may add to the denied paths

ASSUME FilesAssumption ==
  /\ Central \subseteq Config /\ Local \subseteq {Absent} \cup LocalFile
  /\ ExtraDeny \subseteq SUBSET Path
ASSUME KeyAssumption == Absent \notin Key

Signature == [of : Central, by : Key]
ASSUME SignatureAssumption == Absent \notin Signature
ASSUME TornAssumption == Torn # Absent /\ Torn \notin Central
ASSUME DatedAssumption == Dated # Absent /\ Dated \notin Central

VARIABLES
  dir,      \* the directory of the signed policy
  signing,  \* the signature the tool is about to write
  signed,   \* history: the signatures written
  local,    \* the service's local file
  service,  \* the service's globals
  ext,      \* the extension
  reply     \* the answer on its way to the extension

vars == <<dir, signing, signed, local, service, ext, reply>>

\* The service before any request and without a signed policy.  Its history:
\* the local file that was merged with a signed policy.
Fresh == [up |-> TRUE, config |-> Absent, version |-> Dated, signature |-> Absent, read |-> Absent]

\* A process that is not there.
Down == [Fresh EXCEPT !.up = FALSE]
NoExtension == [st |-> "down", key |-> Absent, deny |-> {}, version |-> Absent, failed |-> FALSE]

Init ==
  /\ dir = [blob |-> Absent, signature |-> Absent]
  /\ signing = Absent /\ signed = {}
  /\ local \in Local
  /\ service = Down
  /\ ext = NoExtension
  /\ reply = Absent

-----------------------------------------------------------------------------
(* The org (sign-policy.py sign) and the service's host.                   *)

\* The tool begins to write policy.json.  An earlier run may have ended before
\* its end.
BeginPolicy ==
  /\ dir' = [dir EXCEPT !.blob = Torn]
  /\ signing' = Absent
  /\ UNCHANGED <<signed, local, service, ext, reply>>

\* The file is written.  The tool has signed it with the key it was given.
Sign(policy, key) ==
  /\ dir.blob = Torn
  /\ dir' = [dir EXCEPT !.blob = policy]
  /\ signing' = [of |-> policy, by |-> key]
  /\ UNCHANGED <<signed, local, service, ext, reply>>

\* Then policy.sig.
WriteSignature ==
  /\ signing # Absent
  /\ dir' = [dir EXCEPT !.signature = signing]
  /\ signed' = signed \cup {signing}
  /\ signing' = Absent
  /\ UNCHANGED <<local, service, ext, reply>>

EditLocal(file) ==
  /\ local' = file
  /\ UNCHANGED <<dir, signing, signed, service, ext, reply>>

-----------------------------------------------------------------------------
(* The service (app.py).                                                   *)

\* The files are there, and the policy can be parsed and merged.
Present == dir.blob # Absent /\ dir.signature # Absent
Loadable == dir.blob # Torn /\ Mergeable(dir.blob, local)

\* Bug: the version is set before the merge is tried.
LoadSignedPolicyVersionFirst ==
  IF ~Present THEN Fresh
  ELSE [Fresh EXCEPT !.signature = dir.signature, !.version = IF dir.blob = Torn THEN Dated ELSE dir.blob,
                     !.config = IF Loadable THEN UnderCentral(dir.blob, local) ELSE Absent, !.read = local]

\* _load_signed_policy.  When the parser or the merge raises, the signature is
\* set, and neither the configuration nor the version.
LoadSignedPolicy ==
  IF ~Present THEN Fresh
  ELSE IF Loadable
       THEN [Fresh EXCEPT !.signature = dir.signature, !.version = dir.blob,
                          !.config = UnderCentral(dir.blob, local), !.read = local]
       ELSE [Fresh EXCEPT !.signature = dir.signature]

ServiceStart ==
  /\ ~service.up
  /\ service' = LoadSignedPolicy
  /\ UNCHANGED <<dir, signing, signed, local, ext, reply>>

ServiceEnd ==
  /\ service.up
  /\ service' = Down
  /\ UNCHANGED <<dir, signing, signed, local, ext, reply>>

\* Bug: the policy is loaded at the start only, if it is signed.
GetPolicyLoaded == service.config

\* _get_policy: the personal policy if there is no other, from the first
\* request on.
GetPolicy == IF service.config = Absent THEN Personal(local) ELSE service.config

\* A request for a detection, or for the service's health.
Detect ==
  /\ service.up
  /\ service' = [service EXCEPT !.config = GetPolicy]
  /\ UNCHANGED <<dir, signing, signed, local, ext, reply>>

\* The service answers a request for the policy.
ServePolicy ==
  /\ service.up /\ ext.st = "fetching" /\ reply = Absent
  /\ service' = [service EXCEPT !.config = GetPolicy]
  /\ reply' = [policy |-> GetPolicy, version |-> service.version, signature |-> service.signature]
  /\ UNCHANGED <<dir, signing, signed, local, ext>>

-----------------------------------------------------------------------------
(* The extension (config.ts, client.ts, index.ts).                         *)

\* loadConfig: the defaults and one layer; a public key of the org's, be it one
\* of the past, may be configured.
ExtensionStart(layer, key) ==
  /\ ext.st = "down"
  /\ ext' = [NoExtension EXCEPT !.st = "idle", !.key = key, !.deny = Default.deny \cup layer]
  /\ UNCHANGED <<dir, signing, signed, local, service, reply>>

\* session_start up to the await of fetchPolicy.
SessionStart ==
  /\ ext.st = "idle"
  /\ ext' = [ext EXCEPT !.st = "fetching"]
  /\ UNCHANGED <<dir, signing, signed, local, service, reply>>

\* Bug: any key of the org's will do.
VerifiedByAnyKey ==
  ext.key # Absent /\ reply.signature # Absent => reply.signature.of = reply.policy

\* fetchPolicy: with a key, a policy that has a signature is verified.
Verified ==
  ext.key # Absent /\ reply.signature # Absent =>
    reply.signature = [of |-> reply.policy, by |-> ext.key]

\* session_start after the await: an accepted policy's paths are denied from
\* now on, a refused one blocks everything.  The project's paths follow.
Receive(project) ==
  /\ ext.st = "fetching" /\ reply # Absent
  /\ reply' = Absent
  /\ ext' = IF Verified
            THEN [ext EXCEPT !.st = "idle", !.version = reply.version,
                             !.deny = ext.deny \cup reply.policy.deny \cup project]
            ELSE [ext EXCEPT !.st = "idle", !.failed = TRUE, !.deny = ext.deny \cup project]
  /\ UNCHANGED <<dir, signing, signed, local, service>>

\* No answer, an error or the client's timer: only a notice is shown, and an
\* answer on its way is dropped.
FetchFails(project) ==
  /\ ext.st = "fetching"
  /\ reply' = Absent
  /\ ext' = [ext EXCEPT !.st = "idle", !.deny = ext.deny \cup project]
  /\ UNCHANGED <<dir, signing, signed, local, service>>

ExtensionEnd ==
  /\ ext.st # "down"
  /\ ext' = NoExtension
  /\ reply' = Absent
  /\ UNCHANGED <<dir, signing, signed, local, service>>

-----------------------------------------------------------------------------
Next ==
  \/ BeginPolicy
  \/ \E policy \in Central, key \in Key : Sign(policy, key)
  \/ WriteSignature
  \/ \E file \in Local : EditLocal(file)
  \/ ServiceStart
  \/ ServiceEnd
  \/ Detect
  \/ ServePolicy
  \/ \E layer \in ExtraDeny, key \in {Absent} \cup Key : ExtensionStart(layer, key)
  \/ SessionStart
  \/ \E project \in ExtraDeny : Receive(project)
  \/ \E project \in ExtraDeny : FetchFails(project)
  \/ ExtensionEnd

Spec == Init /\ [][Next]_vars

-----------------------------------------------------------------------------
(* Properties.                                                             *)

\* The variables have their types.
TypeOK ==
  /\ dir \in [blob : {Absent, Torn} \cup Central, signature : {Absent} \cup Signature]
  /\ signing \in {Absent} \cup Signature /\ signed \subseteq Signature
  /\ local \in Local
  /\ service \in [up : BOOLEAN, config : {Absent} \cup Config,
                  version : {Dated} \cup Central, signature : {Absent} \cup Signature,
                  read : {Absent} \cup Local]
  /\ ext \in [st : {"down", "idle", "fetching"}, key : {Absent} \cup Key, deny : SUBSET Path,
              version : {Absent, Dated} \cup Central, failed : BOOLEAN]
  /\ reply \in [policy : Config, version : {Dated} \cup Central, signature : {Absent} \cup Signature]
               \cup {Absent}

\* usage.md:206, "local configs can only make the policy stricter": while the
\* service names a signed policy as its version it denies and reports by rule
\* all that policy does, and GLiNER looks for no less, unless the local file
\* it read when it started loosens that in one of the two ways the merge has.
VersionHolds ==
  service.version \in Central =>
    /\ StricterRules(service.config, service.version)
    /\ StricterGliner(service.config, service.version) <=> ~Loosens(service.version, service.read)

\* The extension denies all paths of the policy whose version it records, and
\* those of its defaults, whichever fetches have failed since.
VersionDenied ==
  /\ ext.version \in Central => ext.version.deny \subseteq ext.deny
  /\ ext.st # "down" => Default.deny \subseteq ext.deny

\* An extension that has a public key and records the version of a signed
\* policy denies all paths of a policy that was signed with that key's secret
\* and whose rules are as strict as the version's, however the files, the key
\* in use and the service changed since.  (An answer without a signature is
\* accepted with or without a key: its version is then a date.)
VersionSigned ==
  ext.key # Absent /\ ext.version \in Central =>
    \E s \in signed : s.by = ext.key /\ StricterRules(s.of, ext.version) /\ s.of.deny \subseteq ext.deny

\* sign-policy.py:15, "policy.json - canonical JSON (this is what clients
\* receive)": the policy of a service that read a whole pair of files, signed
\* with the key the extension trusts, is not refused.
HonestVerifies ==
  [][~ext.failed /\ ext'.failed => reply.signature # [of |-> reply.version, by |-> ext.key]]_vars
=============================================================================
