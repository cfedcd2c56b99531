SPECIFICATION SemSpec
CONSTANTS
  a = a  b = b  z = z  s1 = s1
  Task = {a, z}
  NoTask = NoTask
  Prio <- MCPrio
  StaticTask = {}
  Waitable = {a, z}
  LOWEST = 1
  TickMod = 16
  Delays = {1}
  BootTick = 1
  MaxTick = 2
  SlowCallbacks = FALSE
  WaitObj = {s1}
  NoObj = NoObj
  CountMod = 256
  MaxTokens = 1
PROPERTIES WokenTakes
