SPECIFICATION FairSpec
CONSTANTS
  d = d
  u = u
  r = r
  Value = {d, u, r}
  Detectable = {d}
  Long = {d, u}
  Verbatim = {u, r}
  Recognisable = {r}
  Input = {e1}
  ToolResult = {e2}
  Rescan = {c1}
  Text = {{d, u}}
  Results <- MCResults
  Saved = {{u}}
INVARIANTS
  TypeOK
  FailClosed
  AllOrNothing
  PolicyFailedWithholds
PROPERTIES
  DetectedNeverSent
  EventsAnswered
CHECK_DEADLOCK FALSE
