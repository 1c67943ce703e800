SPECIFICATION ClientsSpec
CONSTANTS
  t1 = t1
  t2 = t2
  x = x
  y = y
  z = z
  Clients = {"plain", "word"}
  kx = kx
  ky = ky
  b0 = b0
  b1 = b1
  v0 = v0
  Thread = {t1, t2}
  Addr = {x, y}
  Lock = {kx, ky}
  LockOf <- TwoLocks
  Byte = {b0}
  Value = {v0, t1, t2}
  InitValue = v0
  VERSION_MAX = 2
  Attr <- ReadWrite
  Loads <- JustX
  Stores <- JustY
  StoreWords <- OwnWords
  Masks <- FullMask
  UnitMasks = {}
  Bounds = {}
  EarlyAbort = FALSE
  MaxNesting = 2
  NoOwner = NoOwner
  UnitOwner = UnitOwner
VIEW ClientsView
INVARIANTS
  TypeOK CommitSerializable LockOwnership VersionsCoverWrites UnitLoadAtomic
PROPERTY Refinement
