SPECIFICATION EvokeSpec
CONSTANTS
  t1 = t1  t2 = t2  e1 = e1  q1 = q1  q2 = q2
  Task = {t1, t2}
  Event = {e1}
  NoTask = NoTask
  NoEvent = NoEvent
  Req = {q1, q2}
  IsrCap = 3
  TickMod = 5
  MinDeepSleep = 2
  Delays = {3}
  IsrDelays = {0, 2}
  MaxEvents = 3
  MaxLock = 1
INVARIANTS EvokeTypeOK EvConsistent EventsConserved PoolConserved DeferSorted ArmedWhenAsleep
SYMMETRY Names
