SPECIFICATION MsgSpec
CONSTANTS
  a = a  b = b  z = z  m1 = m1
  Task = {a, b, z}
  NoTask = NoTask
  Prio <- MCPrio
  StaticTask = {}
  Waitable = {a, b, z}
  LOWEST = 1
  TickMod = 16
  Delays = {1}
  BootTick = 1
  MaxTick = 2
  SlowCallbacks = FALSE
  WaitObj <- MCWaitObj
  NoObj = NoObj
  Msg = {m1}
  Cap = 2
  Managed = {z}
INVARIANTS MsgTypeOK WaitListsMatch NoLostRecvWakeup NoLostSendWakeup
PROPERTIES BestWaiterFirst WaitersInTurn
SYMMETRY SamePrio
