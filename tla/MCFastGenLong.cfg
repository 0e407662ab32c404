SPECIFICATION FairSpec
CONSTANTS
  r1 = r1
  r2 = r2
  r3 = r3
  Reqs <- TwoReqs
  EOQ = EOQ
  NoReq = NoReq
  PromptLen <- LongPromptLen
  MaxGen <- LongMaxGen
  TopP = {r2}
  NBlocks = 4
  PageLen = 2
  SyncFreq = 1
  MaxBatch = 3
  Buffer = 2
  MinPrefill = 3
  MinPrefillBatch = 2
PROPERTY GenerateReturns
