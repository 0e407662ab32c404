SPECIFICATION HFairSpec
CONSTANTS
  r1 = r1
  r2 = r2
  r3 = r3
  Reqs <- ThreeReqs
  EOQ = EOQ
  NoReq = NoReq
  PromptLen <- MCPromptLen
  MaxGen <- MCMaxGen
  TopP = {r2}
  NBlocks = 4
  PageLen = 3
  SyncFreq = 2
  MaxBatch = 3
  Buffer = 1
  MinPrefill = 3
  MinPrefillBatch = 2
INVARIANTS
  TypeOK
  BlocksPartitioned
  DeviceMirrorsHost
  WritesInBlocks
  PrefillFindsCoherentCache
PROPERTIES
  EvictShortFirst
  EveryPacketAnswered
  GenerateReturns
