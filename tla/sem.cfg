SPECIFICATION SemSpec
CONSTANTS
  a = a  b = b  z = z  s1 = s1
  Task = {a, b, z}
  NoTask = NoTask
  Prio <- MCPrio
  StaticTask = {a}
  Waitable = {a, z}
  LOWEST = 1
  TickMod = 16
  Delays = {0, 15}
  BootTick = 1
  MaxTick = 1
  SlowCallbacks = FALSE
  WaitObj = {s1}
  NoObj = NoObj
  CountMod = 2
  MaxTokens = 2
INVARIANTS SemTypeOK WaitListsMatch WaitOnlyAtZero NoTokenInvented
PROPERTIES BestWaiterFirst
