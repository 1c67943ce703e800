SPECIFICATION FairClientsSpec
CONSTANTS
  t1 = t1
  t2 = t2
  x = x
  y = y
  z = z
  Clients = {"plain"}
  kx = kx
  ky = ky
  b0 = b0
  b1 = b1
  v0 = v0
  Thread = {t1, t2}
  Addr = {x}
  Lock = {kx}
  LockOf <- XLock
  Byte = {b0}
  Value = {v0, t1, t2}
  InitValue = v0
  VERSION_MAX = 2
  Attr <- ReadWrite
  Loads <- ReaderOfX
  Stores <- OnlyX
  StoreWords <- OwnWords
  Masks <- FullMask
  UnitMasks = {}
  Bounds = {}
  EarlyAbort = TRUE
  MaxNesting = 1
  NoOwner = NoOwner
  UnitOwner = UnitOwner
INVARIANT ClockOvershoot
PROPERTIES DoomedAborted LocksReleased
