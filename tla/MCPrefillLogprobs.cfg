SPECIFICATION PartsSpec
CONSTANTS
  Parts = {"prefill"}
  pa = pa
  pb = pb
  Pages = {pa, pb}
  Prompts <- MCPrompts
  Limit = 3
  Target = 2
  MaxLanes = 2
  MaxClock = 3
  Lanes = {l1, l2, l3}
  NBlocks = 7
  Width = 3
  la = la
  lb = lb
  lc = lc
  Sources <- MCSources
  Bytes <- MCBytes
  Filter <- MCFilter
  Closed = Closed
  Nothing = Nothing
  Ended = Ended
  Raised = Raised
  j1 = j1
  j2 = j2
  j3 = j3
  i1 = i1
  i2 = i2
  ta = ta
  tb = tb
  Tests = {ta, tb}
  Jobs = {j1, j2, j3}
  FirstWord <- MCFirstWord
  DataSets <- MCDataSets
  InstanceOf <- MCInstanceOf
  PatchOf <- MCPatchOf
  Files <- MCFiles
  Strict <- MCStrict
  Loose <- MCLoose
  ApplyCmds <- MCApplyCmds
  InitCmds <- MCInitCmds
  TestParser <- MCTestParser
  RepoParser <- MCRepoParser
  F2P <- MCF2P
  P2P <- MCP2P
  Logs <- MCLogs
  MaxWorkers = 2
  NoJob = NoJob
  NoLog = NoLog
  MaxRuns = 1
  Tools = {"bash", "plugin", "submit"}
  MaxCreates = 2
  MaxWaits = 1
  MaxCommands = 2
  Problems <- MCProblems
  Answers <- MCAnswers
  Number <- MCNumber
  JudgeAttempts = 2
  EndThink = "think end"
  Box = "box"
  EndBox = "end box"
  Thinks = TRUE
  StrictParsing = FALSE
  UseThinkTag = TRUE
  MathAttempts = 2
  Truths <- MCTruths
  Replies <- MCReplies
  LatexValue <- MCLatexValue
  Normalized <- MCNormalized
  Lowered <- MCLowered
  Symbolized <- MCSymbolized
  Expanded <- MCExpanded
  Evaluated <- MCEvaluated
  Float <- MCFloat
  Diverges <- MCDiverges
  Parses <- MCParses
  Meaning <- MCMeaning
  NSamples = 3
  Asks <- MCAsks
  Outcome <- MCOutcome
  NoAnswer = "none"
  ToolSets <- MCToolSets
  Outputs <- MCOutputs
  Words = {"bash", "edit", "look", "cat"}
  MaxTurns = 2
  MaxChoices = 1
  Batches <- MCLogprobBatches
  MaxPrefill = 4
  PageTokens = 2
  Garbage = Garbage
  EpisodeSteps = 2
  ActionLens = {1, 2}
  ReplyLens = {0, 1}
  Rewards = {0, 1}
  MaxSeqLen = 4
INVARIANT PrefillsOwnTokens
CHECK_DEADLOCK FALSE
