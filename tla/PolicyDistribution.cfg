SPECIFICATION Spec
CONSTANTS
  ssh = ssh
  env = env
  pem = pem
  host = host
  person = person
  iban = iban
  acme = acme
  Path = {ssh, env, pem}
  Value = {host, acme}
  Label = {person, iban}
  Literal = {acme}
  Absent = Absent
  Null = Null
  Torn = Torn
  Dated = Dated
  Default <- MCDefault
  DefaultLabels = {person, iban}
  DefaultThreshold = 2
  DefaultEntropy = 4
  Central <- MCCentral
  Local <- MCLocal
  Key = {k1, k2}
  ExtraDeny <- MCExtraDeny
SYMMETRY Symmetric
INVARIANTS
  TypeOK
  VersionHolds
  VersionDenied
  
CHECK_DEADLOCK FALSE
