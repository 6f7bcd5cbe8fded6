SPECIFICATION Spec
CONSTANTS
  a = a
  b = b
  w = w
  Wide = {w}
  Text <- MCText
  Value <- MCValue
  Type = {T, U}
  Rehydratable = {T}
  MaxTexts = 2
INVARIANT OffsetsExact
CHECK_DEADLOCK FALSE
