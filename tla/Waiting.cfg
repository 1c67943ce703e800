SPECIFICATION WaitingSpec
CONSTANTS
  t1 = t1
  t2 = t2
  t3 = t3
  Thread = {t1, t2, t3}
  VERSION_MAX = 2
  Serial = FALSE
  NoThread = NoThread
  a = a
  b = b
  p1 = p1
  p2 = p2
  Task = {a,b}
  NoTask = NoTask
  CPU = {p1, p2}
  TS_THREADS = 2
  SCALE = 2
  Watched = {p1}
  MaxReloads = 1
  Fts = 7
  Machines <- TheMachines
  Pools <- ThePools
  MaxPool = 4
  Starts = 2
INVARIANTS
  CountsThreads IrrevocableExclusive
  KernelKeepsTime UnloadRestores RoundsApart
PROPERTIES
  RolloverAlone BarrierOpens CallbackInApp StretchingEnds PoolsEnd
