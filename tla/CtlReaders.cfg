SPECIFICATION ClientsSpec
CONSTANTS
  t1 = t1
  t2 = t2
  x = x
  y = y
  z = z
  Clients = {"reader", "ticked", "stripe"}
  kx = kx
  ky = ky
  b0 = b0
  b1 = b1
  v0 = v0
  Thread = {t1, t2}
  Addr = {x, y, z}
  Lock = {kx, ky}
  LockOf <- SharedLock
  Byte = {b0, b1}
  Value = {v0, t1, t2}
  InitValue = v0
  VERSION_MAX = 2
  Attr <- ReadWrite
  Loads <- JustX
  Stores <- JustY
  StoreWords <- OwnWords
  Masks <- FullMask
  UnitMasks = {}
  Bounds = {}
  EarlyAbort = FALSE
  MaxNesting = 1
  NoOwner = NoOwner
  UnitOwner = UnitOwner
VIEW ClientsView
INVARIANTS Opacity MemoryCommitted
