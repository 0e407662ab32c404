SPECIFICATION Spec
CONSTANTS
  PromptLen = 1
  ObsLens <- MCObsLens
  MaxActionLen = 6
  ContextSize = 9
  MaxTurns = 4
  AnswerOnlyLen = 2
  MaxContext = 9
  MaxAttempts = 2
  Configs <- MCConfigs
INVARIANTS
  SandboxReleased
  JudgedLast
  WithinBudget
  SameOutcomes
PROPERTY
  RolloutEnds
