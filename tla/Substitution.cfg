SPECIFICATION Spec
CONSTANTS
  a = a
  b = b
  w = w
  Wide = {w}
  Text <- MCText
  Value <- MCValue
  Type = {T, U}
  Rehydratable = {T}
  MaxTexts = 2
INVARIANTS
  TypeOK
  RoundTrip
  ExactIfNarrow
CHECK_DEADLOCK FALSE
