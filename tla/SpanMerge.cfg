SPECIFICATION MergingSpec
CONSTANTS
  Length = 4
  Score = {1, 2, 3}
  LlmScore = 1
  Span <- MCAllSpan
  LayerReports <- MCReports
  LlmReports <- MCLlmReports
  NoSpan = NoSpan
INVARIANTS
  MergingTypeOK
  FirmIsMerge
  AnswerDisjoint
  OnlyReported
CHECK_DEADLOCK FALSE
