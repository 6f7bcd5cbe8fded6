SPECIFICATION Spec
CONSTANTS
  Value = {x, y}
  Type = {T}
  Rehydratable = {T}
  Process = {p, q}
  Conversation = {c, d}
  NoConversation = NoConversation
  Scan = {s1}
  HasPassphrase = TRUE
  MaxSessions = 3
SYMMETRY Symmetry
INVARIANTS
  TypeOK
  VaultConsistent
  CoveredResolves
  FileRecords
  NamesUnambiguous
CHECK_DEADLOCK FALSE
PROPERTIES
  PseudonymsSpec
