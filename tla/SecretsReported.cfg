SPECIFICATION Spec
CONSTANTS
  Newline = 0
  Text <- MCText
  Word <- MCWord
  By <- MCBy
  Score <- MCScore
  ScoreV1 <- MCScoreV1
  Entropy <- MCEntropy
  Label <- MCLabel
  DefaultLabels = {"person"}
  V2Only = {"secret"}
  Nlp <- MCNlp
  Lookalike <- MCLookalike
  Block <- MCBlock
  Hint <- MCHint
  Policy <- MCPolicy
  NoPolicy = NoPolicy
  LlmAnswer <- MCLlmAnswer
  ShortMax = 3
  Target = 3
  CacheMax = 1
INVARIANT
  SecretsReported
CHECK_DEADLOCK FALSE
