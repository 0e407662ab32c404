SPECIFICATION Spec
CONSTANTS
  t1 = t1
  t2 = t2
  Threads = {t1, t2}
  Reusers = {t1}
  ExecutorsOf <- Asked
  LimitsOf <- SameLimits
  MaxTries = 2
  MaxDone = 2
  MaxCalls <- Calls
  MaxVpid = 3
INVARIANTS
  ServersNotShared
  KilledIsDead
  AnswerOfCall
CHECK_DEADLOCK FALSE
