SPECIFICATION Spec
CONSTANTS
  t0 = t0
  t1 = t1
  TpSize = 2
  Threads = {t0, t1}
  Home <- MCHome
  HandoverFrequency = 0
  MaxHandovers = 1
  MaxIdle = 1
  NProblems = 1
  Needed <- MCNeeded
  MaxAttempts = 2
  MaxQueue = 0
  MaxSteps = 1
  MaxCrashes = 1
INVARIANTS
  CallsPending
  SameInputs
  StopsClean
  Accounted
  TrajectoriesFollow
PROPERTY RunEnds
