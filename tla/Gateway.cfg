SPECIFICATION Spec
CONSTANTS
  a = a
  b = b
  r1 = r1
  r2 = r2
  r3 = r3
  Value = {x, y}
  Type = {T}
  Rehydratable = {T}
  Session = {a, b}
  Request = {r1, r2, r3}
  SessionOf <- MCSessionOf
  Body <- MCBody
  SessionTtl = 1
  MaxTime = 3
SYMMETRY Symmetry
INVARIANTS
  TypeOK
  RepliesExact
  Isolation
  FreshKept
CHECK_DEADLOCK FALSE
