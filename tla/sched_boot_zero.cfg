SPECIFICATION Spec
CONSTANTS
  a = a  b = b  z = z
  Task = {a, b}
  NoTask = NoTask
  Prio <- MCPrio
  StaticTask = {}
  Waitable = {}
  LOWEST = 1
  TickMod = 16
  Delays = {1, 2}
  BootTick = 0
  MaxTick = 3
  SlowCallbacks = FALSE
INVARIANTS SleepSafe
