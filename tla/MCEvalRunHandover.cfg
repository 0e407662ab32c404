SPECIFICATION Spec
CONSTANTS
  t0 = t0
  t1 = t1
  TpSize = 2
  Threads = {t0, t1}
  Home <- MCHome
  HandoverFrequency = 4
  MaxHandovers = 1
  MaxIdle = 1
  NProblems = 1
  Needed <- MCNeeded
  MaxAttempts = 1
  MaxQueue = 0
  MaxSteps = 1
  MaxCrashes = 1
INVARIANT StopsClean
