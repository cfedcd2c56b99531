SPECIFICATION LibrarySpec
CONSTANTS
  x = x  y = y  t1 = t1  t2 = t2  t3 = t3
  Item = {x, y}
  Torn = Torn
  cap = 4
  Thread = {t1, t2, t3}
  NoThread = NoThread
  rb_cap = 3
  st_cap = 3
  Producer = {t1, t2}
  IdOf <- MCIdOf
  AppEntry <- MCAppEntry
  Object <- MCObject
  FirstCap = 2
  Threshold = 4
  MaxAmount = 5
  MaxAdd = 3
  MaxLen = 9
INVARIANTS LibraryTypeOK NoSharedSlot LockLeaksOnlyOnNoData BootComplete StrSound
PROPERTIES IsFifo RingbufIsFifo StackIsLifo SnapshotIsRegister VecIsList
SYMMETRY AnyItem
