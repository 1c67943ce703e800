SPECIFICATION Spec
CONSTANTS
  t1 = t1
  t2 = t2
  x = x
  y = y
  kx = kx
  ky = ky
  b0 = b0
  b1 = b1
  v0 = v0
  Thread = {t1, t2}
  Addr = {x, y}
  Lock = {kx, ky}
  Byte = {b0, b1}
  Value = {v0, t1, t2}
  InitValue = v0
  StoreWords <- OwnWords
  Rank <- ThreadOrder
  Builds <- GrowingStripe
  NoOwner = NoOwner
VIEW SnapView
INVARIANT RepeatableReads
