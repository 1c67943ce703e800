SPECIFICATION FairSpec
CONSTANTS
  Thread = {t1, t2}
  VERSION_MAX = 2
  Serial = TRUE
  NoThread = NoThread
PROPERTY BarrierReleased
