SPECIFICATION Spec
CONSTANTS
  a = a  b = b  z = z
  Task = {a, b, z}
  NoTask = NoTask
  Prio <- MCPrio
  StaticTask = {b}
  Waitable = {z}
  LOWEST = 1
  TickMod = 16
  Delays = {0, 2, 15}
  BootTick = 1
  MaxTick = 3
  SlowCallbacks = TRUE
INVARIANTS TypeOK Consistent BlockSorted
PROPERTIES HighestDueRuns DelayRespected InTurn
