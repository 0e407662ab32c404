SPECIFICATION Spec
CONSTANTS
  c1 = c1
  c2 = c2
  b1 = b1
  Conns = {c1, c2}
  BgConns = {b1}
  Slots = 1
  MaxCommands = 3
  MaxSessions = 2
  MaxTasks = 1
INVARIANT TaskRunsItsCommand
CHECK_DEADLOCK FALSE
