SPECIFICATION Spec
CONSTANTS
  a = a  b = b  z = z
  Task = {a, b}
  NoTask = NoTask
  Prio <- MCPrio
  StaticTask = {b}
  Waitable = {}
  LOWEST = 1
  TickMod = 16
  Delays = {1, 2, 15}
  BootTick = 1
  MaxTick = 4
  SlowCallbacks = FALSE
INVARIANTS SleepSafe
PROPERTIES NoPeerStarvation DelayEnds TopRuns
