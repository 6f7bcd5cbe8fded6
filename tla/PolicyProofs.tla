---------------------------- MODULE PolicyProofs ----------------------------
(***************************************************************************)
(* For any policies an org may sign, any local files and any paths: when a *)
(* local file loosens a policy, and the safety properties of               *)
(* PolicyDistribution.                                                     *)
(***************************************************************************)
EXTENDS PolicyDistribution, TLAPS

\* The directory and the service hold only signatures that were written.
SignaturesWritten ==
  /\ dir.signature # Absent => dir.signature \in signed
  /\ service.signature # Absent => service.signature \in signed

\* The version names a signed policy only where that was merged.
VersionLoaded ==
  service.version \in Central => service.config \in Config /\ service.signature # Absent

\* What the service says of itself is true of the answers it has sent.
ReplyHolds ==
  reply # Absent =>
    /\ reply.version \in Central =>
         StricterRules(reply.policy, reply.version) /\ reply.signature # Absent
    /\ reply.signature # Absent => reply.signature \in signed

(***************************************************************************)
(* The inductive invariant.  VersionDenied and VersionSigned are about     *)
(* answers accepted long after the files they were made of have changed,   *)
(* so that what holds of the service has to be carried by its answers.     *)
(***************************************************************************)
IndInv ==
  /\ TypeOK
  /\ SignaturesWritten
  /\ VersionLoaded /\ VersionHolds
  /\ ReplyHolds
  /\ VersionDenied /\ VersionSigned

ServiceType ==
  [up : BOOLEAN, config : {Absent} \cup Config, version : {Dated} \cup Central,
   signature : {Absent} \cup Signature, read : {Absent} \cup Local]
ExtType ==
  [st : {"down", "idle", "fetching"}, key : {Absent} \cup Key, deny : SUBSET Path,
   version : {Absent, Dated} \cup Central, failed : BOOLEAN]

-----------------------------------------------------------------------------
(* Lemmas about the merges.                                                *)

LEMMA ConfigIsThere == \A c \in Config : c # Absent
BY AbsentAssumption

LEMMA CentralType == \A p \in Central : p \in Config /\ p # Absent /\ p # Torn /\ p # Dated
BY ConfigIsThere, FilesAssumption, TornAssumption, DatedAssumption

\* What a file may say of each field.
LEMMA LocalFields ==
  ASSUME NEW f \in LocalFile
  PROVE  /\ f.deny \in SUBSET Path /\ f.literals \in Seq(Literal) /\ f.labels \in Labels
         /\ f.allow \in {Absent} \cup SUBSET Value
         /\ f.threshold \in Threshold /\ f.entropy \in Threshold /\ f.fail_open \in FailOpen
BY DEF LocalFile

LEMMA ConfigFields ==
  ASSUME NEW c \in Config
  PROVE  /\ c.deny \in SUBSET Path /\ c.literals \in Seq(Literal) /\ c.labels \in Labels
         /\ c.allow \in SUBSET Value
         /\ c.threshold \in Threshold /\ c.entropy \in Threshold /\ c.fail_open \in FailOpen
BY DEF Config

\* Appending keeps what is there.
LEMMA Appended ==
  ASSUME NEW a \in Seq(Literal), NEW b \in Seq(Literal)
  PROVE  /\ a \o b \in Seq(Literal) /\ Len(a) <= Len(a \o b)
         /\ \A i \in 1 .. Len(a) : (a \o b)[i] = a[i]
OBVIOUS

\* Labels: the merge loses some exactly where the policy lists none and the
\* file's do not have all the default ones.
LEMMA LabelsLoosened ==
  ASSUME NEW c \in Config, NEW f \in LocalFile, Mergeable(c, f), NEW m,
         m.labels = LabelsOfBoth(c, f)
  PROVE  /\ m.labels \in Labels
         /\ LabelsOf(c) \subseteq LabelsOf(m) <=>
              ~(/\ c.labels \in {Absent, {}} /\ f.labels \notin {Absent, Null, {}}
                /\ ~(DefaultLabels \subseteq f.labels))
<1>1. c.labels \in Labels /\ f.labels \in Labels
  BY LocalFields, ConfigFields
<1>2. /\ \A s \in SUBSET Label : s # Absent /\ s # Null
      /\ Null # Absent /\ f # Absent
  BY AbsentAssumption, NullAssumption
<1>3. CASE f.labels \in {Absent, {}}
  BY <1>1, <1>3 DEF LabelsOfBoth, LabelsOf
<1>4. CASE f.labels \notin {Absent, {}}
  <2>1. f.labels \in (SUBSET Label) \ {{}} /\ c.labels \in {Absent} \cup SUBSET Label
    BY <1>1, <1>2, <1>4 DEF Mergeable, Labels
  <2>2. m.labels = Given(c.labels, {}) \cup f.labels
    BY <1>4 DEF LabelsOfBoth
  <2>3. CASE c.labels \in {Absent, {}}
    <3>1. m.labels = f.labels
      BY <1>2, <2>2, <2>3 DEF Given
    <3> QED BY <1>2, <2>1, <2>3, <3>1 DEF LabelsOf, Labels
  <2>4. CASE c.labels \notin {Absent, {}}
    <3>1. c.labels \in (SUBSET Label) \ {{}} /\ m.labels = c.labels \cup f.labels
      BY <1>2, <2>1, <2>2, <2>4 DEF Given
    <3>2. m.labels \in (SUBSET Label) \ {{}}
      BY <2>1, <3>1
    <3> QED BY <1>2, <3>1, <3>2, <2>4 DEF LabelsOf, Labels
  <2> QED BY <2>3, <2>4
<1> QED BY <1>3, <1>4

\* Thresholds: the lower of two is no higher; as GLiNER takes it, it is higher
\* exactly where a zero replaced a threshold below the default one.
LEMMA LoweredOK ==
  ASSUME NEW a \in Threshold, NEW b \in Threshold
  PROVE  /\ Lowered(a, b) \in Threshold
         /\ Given(Lowered(a, b), DefaultEntropy) <= Given(a, DefaultEntropy)
<1>1. a # Absent => a \in Nat
  BY DEF Threshold
<1>2. b # Absent => b \in Nat
  BY DEF Threshold
<1>3. CASE b # Absent /\ a # Absent /\ b < a
  <2>1. Lowered(a, b) = b
    BY <1>3 DEF Lowered
  <2> QED BY <1>1, <1>2, <1>3, <2>1 DEF Given
<1>4. CASE ~(b # Absent /\ a # Absent /\ b < a)
  <2>1. Lowered(a, b) = a
    BY <1>4 DEF Lowered
  <2>2. Given(a, DefaultEntropy) \in Nat
    BY <1>1, DetectorAssumption DEF Given
  <2> QED BY <2>1, <2>2
<1> QED BY <1>3, <1>4

LEMMA ThresholdLoosened ==
  ASSUME NEW c \in Config, NEW f \in LocalFile, NEW m,
         m.threshold = Lowered(c.threshold, f.threshold)
  PROVE  ThresholdOf(m) <= ThresholdOf(c) <=>
           ~(f.threshold = 0 /\ c.threshold \notin {Absent, 0} /\ c.threshold < DefaultThreshold)
<1>1. c.threshold \in Threshold /\ f.threshold \in Threshold
  BY LocalFields, ConfigFields
<1> QED BY <1>1, AbsentAssumption, DetectorAssumption DEF Threshold, Lowered, ThresholdOf

\* What a local file may do to a central policy, whatever both say: the rules
\* deny and report no less, nothing fails open, and GLiNER looks for no less
\* but in the two cases of Loosens (_tighten_merge, "local configs can only
\* tighten the central policy").
THEOREM OnlyTightens ==
  ASSUME NEW c \in Config, NEW f \in {Absent} \cup LocalFile, Mergeable(c, f)
  PROVE  /\ UnderCentral(c, f) \in Config
         /\ StricterRules(UnderCentral(c, f), c)
         /\ StricterGliner(UnderCentral(c, f), c) <=> ~Loosens(c, f)
<1> DEFINE closed == [c EXCEPT !.fail_open = FALSE]
<1>1. /\ closed \in Config
      /\ closed.deny = c.deny /\ closed.literals = c.literals /\ closed.labels = c.labels
      /\ closed.allow = c.allow /\ closed.threshold = c.threshold /\ closed.entropy = c.entropy
      /\ closed.fail_open = FALSE
  BY DEF Config, FailOpen
<1> HIDE DEF closed
<1>2. CASE f = Absent
  <2>1. UnderCentral(c, f) = closed
    BY <1>2 DEF UnderCentral, closed
  <2>2. ThresholdOf(c) \in Nat /\ EntropyOf(c) \in Nat /\ Len(c.literals) \in Nat
    BY ConfigFields, DetectorAssumption DEF Threshold, ThresholdOf, EntropyOf, Given
  <2>3. StricterRules(closed, c)
    BY <1>1, <2>2 DEF StricterRules, EntropyOf
  <2>4. StricterGliner(closed, c)
    BY <1>1, <2>2 DEF StricterGliner, LabelsOf, ThresholdOf
  <2> QED BY <1>1, <1>2, <2>1, <2>3, <2>4 DEF Loosens
<1>3. CASE f # Absent
  <2>1. f \in LocalFile
    BY <1>3
  <2> DEFINE m == Tighten(closed, f)
  <2>2. /\ m = [deny |-> c.deny \cup f.deny, literals |-> c.literals \o f.literals,
                labels |-> LabelsOfBoth(c, f), allow |-> AllowBoth(c, f),
                threshold |-> Lowered(c.threshold, f.threshold),
                entropy |-> Lowered(c.entropy, f.entropy), fail_open |-> FALSE]
    BY <1>1 DEF Tighten, LabelsOfBoth, AllowBoth
  <2> HIDE DEF m
  <2>3. /\ m.deny = c.deny \cup f.deny /\ m.literals = c.literals \o f.literals
        /\ m.labels = LabelsOfBoth(c, f) /\ m.allow = AllowBoth(c, f)
        /\ m.threshold = Lowered(c.threshold, f.threshold)
        /\ m.entropy = Lowered(c.entropy, f.entropy) /\ m.fail_open = FALSE
    BY <2>2
  <2>4. m.allow \in SUBSET Value /\ m.allow \subseteq c.allow
    BY <2>3, ConfigFields DEF AllowBoth
  <2>5. /\ m.literals \in Seq(Literal) /\ Len(c.literals) <= Len(m.literals)
        /\ \A i \in 1 .. Len(c.literals) : m.literals[i] = c.literals[i]
    <3> DEFINE own == c.literals
               more == f.literals
    <3>1. own \in Seq(Literal) /\ more \in Seq(Literal)
      BY <2>1, LocalFields, ConfigFields
    <3> HIDE DEF own, more
    <3>2. /\ own \o more \in Seq(Literal) /\ Len(own) <= Len(own \o more)
          /\ \A i \in 1 .. Len(own) : (own \o more)[i] = own[i]
      BY <3>1, Appended
    <3> QED BY <2>3, <3>2 DEF own, more
  <2>6. /\ m.threshold \in Threshold /\ m.entropy \in Threshold
        /\ EntropyOf(m) <= EntropyOf(c)
    BY <2>1, <2>3, LoweredOK, LocalFields, ConfigFields DEF EntropyOf
  <2>7. /\ m.labels \in Labels
        /\ LabelsOf(c) \subseteq LabelsOf(m) <=>
             ~(/\ c.labels \in {Absent, {}} /\ f.labels \notin {Absent, Null, {}}
               /\ ~(DefaultLabels \subseteq f.labels))
    BY <2>1, <2>3, LabelsLoosened
  <2>8. ThresholdOf(m) <= ThresholdOf(c) <=>
          ~(f.threshold = 0 /\ c.threshold \notin {Absent, 0} /\ c.threshold < DefaultThreshold)
    BY <2>1, <2>3, ThresholdLoosened
  <2>9. m \in Config
    <3>1. m.deny \in SUBSET Path
      BY <2>1, <2>3, LocalFields, ConfigFields
    <3> QED BY <2>2, <2>3, <2>4, <2>5, <2>6, <2>7, <3>1 DEF Config, FailOpen
  <2>10. StricterRules(m, c)
    BY <2>3, <2>4, <2>5, <2>6 DEF StricterRules
  <2>11. StricterGliner(m, c) <=> ~Loosens(c, f)
    BY <1>3, <2>7, <2>8 DEF StricterGliner, Loosens
  <2> QED BY <1>3, <2>9, <2>10, <2>11 DEF UnderCentral, m, closed
<1> QED BY <1>2, <1>3

LEMMA PersonalType ==
  ASSUME NEW f \in Local PROVE Personal(f) \in Config
<1>1. Default \in Config /\ Default.labels \in SUBSET Label
  BY DefaultAssumption
<1>2. CASE f = Absent
  BY <1>1, <1>2 DEF Personal
<1>3. CASE f # Absent
  <2>1. f \in LocalFile
    BY <1>3, FilesAssumption
  <2>2. /\ Default.deny \in SUBSET Path /\ Default.literals \in Seq(Literal)
        /\ Default.allow \in SUBSET Value /\ Default.threshold \in Threshold
        /\ Default.entropy \in Threshold /\ Default.fail_open \in FailOpen
    BY <1>1, ConfigFields
  <2>3. Default.literals \o f.literals \in Seq(Literal)
    BY <2>1, <2>2, LocalFields
  <2>4. IF f.labels = Null THEN Null \in Labels ELSE Default.labels \cup Given(f.labels, {}) \in Labels
    BY <1>1, <2>1, LocalFields DEF Given, Labels
  <2>5. DeepMerge(Default, f) \in Config
    BY <1>1, <2>1, <2>2, <2>3, <2>4, LocalFields DEF DeepMerge, Given, Config
  <2> QED BY <1>3, <2>5 DEF Personal
<1> QED BY <1>2, <1>3

-----------------------------------------------------------------------------
(* The initial states and the steps.                                       *)

LEMMA InitInv == Init => IndInv
<1> SUFFICES ASSUME Init PROVE IndInv
  OBVIOUS
<1>1. TypeOK
  BY DEF Init, TypeOK, Down, Fresh, NoExtension
<1>2. SignaturesWritten /\ VersionLoaded /\ VersionHolds /\ ReplyHolds
  BY DatedAssumption DEF Init, SignaturesWritten, VersionLoaded, VersionHolds, ReplyHolds, Down, Fresh
<1>3. VersionDenied /\ VersionSigned
  BY CentralType DEF Init, VersionDenied, VersionSigned, NoExtension
<1> QED BY <1>1, <1>2, <1>3 DEF IndInv

\* What the service loads keeps the invariant's promises.
LEMMA LoadedOK ==
  ASSUME IndInv
  PROVE  /\ LoadSignedPolicy \in ServiceType
         /\ LoadSignedPolicy.signature # Absent => LoadSignedPolicy.signature \in signed
         /\ LoadSignedPolicy.version \in Central =>
              /\ LoadSignedPolicy.config \in Config /\ LoadSignedPolicy.signature # Absent
              /\ StricterRules(LoadSignedPolicy.config, LoadSignedPolicy.version)
              /\ StricterGliner(LoadSignedPolicy.config, LoadSignedPolicy.version)
                   <=> ~Loosens(LoadSignedPolicy.version, LoadSignedPolicy.read)
<1> DEFINE merged == UnderCentral(dir.blob, local)
<1>1. /\ dir \in [blob : {Absent, Torn} \cup Central, signature : {Absent} \cup Signature]
      /\ local \in Local /\ local \in {Absent} \cup LocalFile
  BY FilesAssumption DEF IndInv, TypeOK
<1>2. dir.signature # Absent => dir.signature \in signed
  BY DEF IndInv, SignaturesWritten
<1>3. Present /\ Loadable =>
        /\ dir.blob \in Central /\ merged \in Config
        /\ StricterRules(merged, dir.blob)
        /\ StricterGliner(merged, dir.blob) <=> ~Loosens(dir.blob, local)
  BY <1>1, CentralType, OnlyTightens DEF Present, Loadable
<1> HIDE DEF merged
<1>4. CASE ~Present
  BY <1>4, DatedAssumption DEF LoadSignedPolicy, Fresh, ServiceType
<1>5. CASE Present /\ Loadable
  <2>1. LoadSignedPolicy = [up |-> TRUE, config |-> merged, version |-> dir.blob,
                            signature |-> dir.signature, read |-> local]
    BY <1>5 DEF LoadSignedPolicy, Fresh, merged
  <2> QED BY <1>1, <1>2, <1>3, <1>5, <2>1 DEF ServiceType, Present
<1>6. CASE Present /\ ~Loadable
  <2>1. LoadSignedPolicy = [up |-> TRUE, config |-> Absent, version |-> Dated,
                            signature |-> dir.signature, read |-> Absent]
    BY <1>6 DEF LoadSignedPolicy, Fresh
  <2> QED BY <1>1, <1>2, <2>1, DatedAssumption DEF ServiceType
<1> QED BY <1>4, <1>5, <1>6

\* The configuration a request is served with.
LEMMA PolicyInForce ==
  ASSUME IndInv
  PROVE  /\ GetPolicy \in Config
         /\ service.version \in Central => GetPolicy = service.config
<1>1. service.config \in {Absent} \cup Config /\ local \in Local
  BY DEF IndInv, TypeOK
<1>2. Personal(local) \in Config
  BY <1>1, PersonalType
<1>3. service.version \in Central => service.config # Absent
  BY ConfigIsThere DEF IndInv, VersionLoaded
<1> QED BY <1>1, <1>2, <1>3 DEF GetPolicy

\* Paths are only added to those the extension denies.
LEMMA DeniesMore ==
  ASSUME IndInv, ext.st # "down", NEW more \in SUBSET Path,
         ext' \in ExtType,
         ext'.key = ext.key, ext'.version = ext.version, ext'.deny = ext.deny \cup more,
         UNCHANGED signed
  PROVE  VersionDenied' /\ VersionSigned'
<1>1. VersionDenied'
  BY DEF IndInv, VersionDenied
<1>2. VersionSigned'
  <2> SUFFICES ASSUME ext.key # Absent, ext.version \in Central PROVE VersionSigned'
    BY DEF VersionSigned
  <2>1. PICK s \in signed :
                 s.by = ext.key /\ StricterRules(s.of, ext.version) /\ s.of.deny \subseteq ext.deny
    BY DEF IndInv, VersionSigned
  <2> QED BY <2>1 DEF VersionSigned
<1> QED BY <1>1, <1>2

LEMMA StepInv == IndInv /\ [Next]_vars => IndInv'
<1> SUFFICES ASSUME IndInv, [Next]_vars PROVE IndInv'
  OBVIOUS
<1>t. /\ ext \in ExtType /\ service \in ServiceType
      /\ signed \subseteq Signature /\ local \in Local
      /\ Default.deny \subseteq Path
  BY DefaultAssumption DEF IndInv, TypeOK, ExtType, ServiceType, Config
<1>0. CASE BeginPolicy
  BY <1>0 DEF BeginPolicy, IndInv, TypeOK, SignaturesWritten, VersionLoaded, VersionHolds, ReplyHolds,
              VersionDenied, VersionSigned
<1>1. ASSUME NEW policy \in Central, NEW key \in Key, Sign(policy, key) PROVE IndInv'
  BY <1>1 DEF Sign, Signature, IndInv, TypeOK, SignaturesWritten, VersionLoaded, VersionHolds, ReplyHolds,
              VersionDenied, VersionSigned
<1>2. CASE WriteSignature
  <2>1. signing \in Signature
    BY <1>2 DEF WriteSignature, IndInv, TypeOK
  <2>2. TypeOK' /\ SignaturesWritten'
    BY <1>2, <2>1 DEF WriteSignature, IndInv, TypeOK, SignaturesWritten
  <2>3. VersionLoaded' /\ VersionHolds' /\ ReplyHolds' /\ VersionDenied'
    BY <1>2 DEF WriteSignature, IndInv, VersionLoaded, VersionHolds, ReplyHolds, VersionDenied
  <2>4. VersionSigned'
    BY <1>2 DEF WriteSignature, IndInv, VersionSigned
  <2> QED BY <2>2, <2>3, <2>4 DEF IndInv
<1>3. ASSUME NEW file \in Local, EditLocal(file) PROVE IndInv'
  BY <1>3 DEF EditLocal, IndInv, TypeOK, SignaturesWritten, VersionLoaded, VersionHolds, ReplyHolds,
              VersionDenied, VersionSigned
<1>4. CASE ServiceStart
  <2>1. TypeOK'
    BY <1>4, LoadedOK DEF ServiceStart, ServiceType, IndInv, TypeOK
  <2>2. SignaturesWritten' /\ VersionLoaded' /\ VersionHolds'
    BY <1>4, LoadedOK DEF ServiceStart, IndInv, SignaturesWritten, VersionLoaded, VersionHolds
  <2>3. ReplyHolds' /\ VersionDenied' /\ VersionSigned'
    BY <1>4 DEF ServiceStart, IndInv, ReplyHolds, VersionDenied, VersionSigned
  <2> QED BY <2>1, <2>2, <2>3 DEF IndInv
<1>5. CASE ServiceEnd
  <2>1. service' = [up |-> FALSE, config |-> Absent, version |-> Dated, signature |-> Absent, read |-> Absent]
    BY <1>5 DEF ServiceEnd, Down, Fresh
  <2>2. TypeOK'
    BY <1>5, <2>1 DEF ServiceEnd, IndInv, TypeOK
  <2>3. SignaturesWritten' /\ VersionLoaded' /\ VersionHolds'
    BY <1>5, <2>1, DatedAssumption DEF ServiceEnd, IndInv, SignaturesWritten, VersionLoaded, VersionHolds
  <2>4. ReplyHolds' /\ VersionDenied' /\ VersionSigned'
    BY <1>5 DEF ServiceEnd, IndInv, ReplyHolds, VersionDenied, VersionSigned
  <2> QED BY <2>2, <2>3, <2>4 DEF IndInv
\* A request changes the configuration only where no version is named.
<1>6. ASSUME service' = [service EXCEPT !.config = GetPolicy], UNCHANGED <<dir, signed>>
      PROVE  service' \in ServiceType /\ SignaturesWritten' /\ VersionLoaded' /\ VersionHolds'
  <2>1. /\ service' \in ServiceType
        /\ service'.version = service.version /\ service'.signature = service.signature
        /\ service'.read = service.read
        /\ service'.config = GetPolicy
    BY <1>t, <1>6, PolicyInForce DEF ServiceType
  <2>2. SignaturesWritten'
    BY <1>6, <2>1 DEF IndInv, SignaturesWritten
  <2>3. VersionLoaded' /\ VersionHolds'
    BY <2>1, PolicyInForce DEF IndInv, VersionLoaded, VersionHolds
  <2> QED BY <2>1, <2>2, <2>3
<1>7. CASE Detect
  <2>1. service' \in ServiceType /\ SignaturesWritten' /\ VersionLoaded' /\ VersionHolds'
    BY <1>6, <1>7 DEF Detect
  <2>2. TypeOK' /\ ReplyHolds' /\ VersionDenied' /\ VersionSigned'
    BY <1>7, <2>1 DEF Detect, ServiceType, IndInv, TypeOK, ReplyHolds, VersionDenied, VersionSigned
  <2> QED BY <2>1, <2>2 DEF IndInv
<1>8. CASE ServePolicy
  <2>1. service' \in ServiceType /\ SignaturesWritten' /\ VersionLoaded' /\ VersionHolds'
    BY <1>6, <1>8 DEF ServePolicy
  <2>2. /\ reply' \in [policy : Config, version : {Dated} \cup Central, signature : {Absent} \cup Signature]
        /\ reply'.policy = GetPolicy
        /\ reply'.version = service.version /\ reply'.signature = service.signature
    BY <1>t, <1>8, PolicyInForce DEF ServePolicy, ServiceType
  <2>3. ReplyHolds'
    BY <1>8, <2>2, PolicyInForce
    DEF ServePolicy, IndInv, VersionHolds, VersionLoaded, SignaturesWritten, ReplyHolds
  <2>4. TypeOK' /\ VersionDenied' /\ VersionSigned'
    BY <1>8, <2>1, <2>2 DEF ServePolicy, ServiceType, IndInv, TypeOK, VersionDenied, VersionSigned
  <2> QED BY <2>1, <2>3, <2>4 DEF IndInv
\* The extension acts, and the service knows nothing of it.
<1>9. ASSUME ext' \in ExtType, reply' \in {Absent, reply},
              UNCHANGED <<dir, signing, signed, local, service>>
       PROVE  TypeOK' /\ SignaturesWritten' /\ VersionLoaded' /\ VersionHolds' /\ ReplyHolds'
  BY <1>9 DEF ExtType, IndInv, TypeOK, SignaturesWritten, VersionLoaded, VersionHolds, ReplyHolds
<1>10. ASSUME NEW layer \in ExtraDeny, NEW key \in {Absent} \cup Key, ExtensionStart(layer, key) PROVE IndInv'
  <2>1. layer \subseteq Path
    BY FilesAssumption
  <2>2. ext' \in ExtType
    BY <1>10, <1>t, <2>1 DEF ExtensionStart, NoExtension, ExtType
  <2>3. VersionDenied' /\ VersionSigned'
    BY <1>10, CentralType DEF ExtensionStart, NoExtension, VersionDenied, VersionSigned
  <2> QED BY <1>9, <1>10, <2>2, <2>3 DEF ExtensionStart, IndInv
<1>11. CASE SessionStart
  <2>1. ext' \in ExtType /\ ext'.deny = ext.deny /\ ext'.version = ext.version /\ ext'.key = ext.key
    BY <1>t, <1>11 DEF SessionStart, ExtType
  <2>2. VersionDenied' /\ VersionSigned'
    BY <1>11, <2>1 DEF SessionStart, IndInv, VersionDenied, VersionSigned
  <2> QED BY <1>9, <1>11, <2>1, <2>2 DEF SessionStart, IndInv
<1>12. ASSUME NEW project \in ExtraDeny, Receive(project) PROVE IndInv'
  <2>1. project \subseteq Path /\ reply # Absent /\ ext.st # "down"
    BY <1>12, FilesAssumption DEF Receive
  <2>2. /\ reply.policy \in Config /\ reply.version \in {Dated} \cup Central
        /\ reply.policy.deny \subseteq Path
    BY <2>1 DEF IndInv, TypeOK, Config
  <2>3. CASE Verified
    <3>1. /\ ext' \in ExtType /\ ext'.st = "idle" /\ ext'.key = ext.key /\ ext'.version = reply.version
          /\ ext'.deny = ext.deny \cup reply.policy.deny \cup project
      BY <1>t, <1>12, <2>1, <2>2, <2>3 DEF Receive, ExtType
    <3>2. reply.version \in Central =>
            StricterRules(reply.policy, reply.version) /\ reply.signature # Absent /\ reply.signature \in signed
      BY <2>1 DEF IndInv, ReplyHolds
    <3>3. VersionDenied'
      <4>1. reply.version \in Central => reply.version.deny \subseteq reply.policy.deny
        BY <3>2 DEF StricterRules
      <4>2. Default.deny \subseteq ext.deny
        BY <2>1 DEF IndInv, VersionDenied
      <4> QED BY <3>1, <4>1, <4>2 DEF VersionDenied
    <3>4. VersionSigned'
      <4> SUFFICES ASSUME ext.key # Absent, reply.version \in Central PROVE VersionSigned'
        BY <3>1 DEF VersionSigned
      <4>1. [of |-> reply.policy, by |-> ext.key] \in signed
        BY <2>3, <3>2 DEF Verified
      <4>2. reply.policy.deny \subseteq ext'.deny /\ StricterRules(reply.policy, ext'.version)
        BY <3>1, <3>2
      <4> QED BY <1>12, <4>1, <4>2 DEF VersionSigned, Receive
    <3> QED BY <1>9, <1>12, <3>1, <3>3, <3>4 DEF Receive, IndInv
  <2>4. CASE ~Verified
    <3>1. /\ ext' \in ExtType /\ ext'.key = ext.key /\ ext'.version = ext.version
          /\ ext'.deny = ext.deny \cup project
      BY <1>t, <1>12, <2>1, <2>4 DEF Receive, ExtType
    <3>2. VersionDenied' /\ VersionSigned'
      BY <1>12, <2>1, <3>1, DeniesMore DEF Receive
    <3> QED BY <1>9, <1>12, <3>1, <3>2 DEF Receive, IndInv
  <2> QED BY <2>3, <2>4
<1>13. ASSUME NEW project \in ExtraDeny, FetchFails(project) PROVE IndInv'
  <2>1. /\ project \subseteq Path /\ ext.st # "down"
        /\ ext' \in ExtType /\ ext'.key = ext.key /\ ext'.version = ext.version
        /\ ext'.deny = ext.deny \cup project
    BY <1>t, <1>13, FilesAssumption DEF FetchFails, ExtType
  <2>2. VersionDenied' /\ VersionSigned'
    BY <1>13, <2>1, DeniesMore DEF FetchFails
  <2> QED BY <1>9, <1>13, <2>1, <2>2 DEF FetchFails, IndInv
<1>14. CASE ExtensionEnd
  <2>1. ext' \in ExtType
    BY <1>14 DEF ExtensionEnd, NoExtension, ExtType
  <2>2. VersionDenied' /\ VersionSigned'
    BY <1>14, CentralType DEF ExtensionEnd, NoExtension, VersionDenied, VersionSigned
  <2> QED BY <1>9, <1>14, <2>1, <2>2 DEF ExtensionEnd, IndInv
<1>15. CASE UNCHANGED vars
  BY <1>15 DEF vars, IndInv, TypeOK, SignaturesWritten, VersionLoaded, VersionHolds, ReplyHolds,
               VersionDenied, VersionSigned
<1> QED BY <1>0, <1>1, <1>2, <1>3, <1>4, <1>5, <1>7, <1>8, <1>10, <1>11, <1>12, <1>13, <1>14, <1>15 DEF Next

-----------------------------------------------------------------------------
(* The theorems.                                                           *)

\* The inductive invariant holds in every reachable state.
THEOREM Invariance == Spec => []IndInv
BY InitInv, StepInv, PTL DEF Spec

\* The variables have their types (the state of app.py and index.ts).
THEOREM TypeCorrect == Spec => []TypeOK
<1>1. IndInv => TypeOK
  BY DEF IndInv
<1> QED BY <1>1, Invariance, PTL

\* A service that names a signed policy as its version denies and reports by
\* rule all that policy does, and its GLiNER looks for no less exactly unless
\* the local file loosened that (_load_signed_policy, _tighten_merge,
\* _build_analyzer).
THEOREM VersionKept == Spec => []VersionHolds
<1>1. IndInv => VersionHolds
  BY DEF IndInv
<1> QED BY <1>1, Invariance, PTL

\* The extension denies all paths of the policy whose version it records
\* (session_start).
THEOREM PathsDenied == Spec => []VersionDenied
<1>1. IndInv => VersionDenied
  BY DEF IndInv
<1> QED BY <1>1, Invariance, PTL

\* An extension with the org's key that records the version of a signed policy
\* denies the paths of one signed with that key and as strict (fetchPolicy).
\* It says nothing of an answer without a signature, which is accepted.
THEOREM OnlySigned == Spec => []VersionSigned
<1>1. IndInv => VersionSigned
  BY DEF IndInv
<1> QED BY <1>1, Invariance, PTL
=============================================================================
