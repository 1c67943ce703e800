SPECIFICATION SnapSpec
CONSTANTS
  Tx = {t1, t2}
  Word = {x, y}
  UPD_BITS = 2
  TMP_BITS = 2
  VERSION_MAX = 3
INVARIANT LoadsConsistent
