SPECIFICATION HSpec
CONSTANTS
  r1 = r1
  r2 = r2
  r3 = r3
  Reqs <- ThreeReqs
  EOQ = EOQ
  NoReq = NoReq
  PromptLen <- TightPromptLen
  MaxGen <- TightMaxGen
  TopP = {}
  NBlocks = 4
  PageLen = 3
  SyncFreq = 2
  MaxBatch = 2
  Buffer = 1
  MinPrefill = 0
  MinPrefillBatch = 1
INVARIANT CopiesNotTorn
