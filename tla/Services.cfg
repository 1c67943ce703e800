SPECIFICATION AllSpec
VIEW PartView
CHECK_DEADLOCK FALSE
CONSTANTS
  Thread = {t1, t2}
  Block = {b1, b2, b3, b4, b5}
  Slots = 2
  MaxClock = 3
  EpochMax = 9
  Uses <- GcPrograms
  Blk = {1, 2, 3, 4}
  Wd = {x, y}
  Val = {0, 1, 2}
  Size = 16
  Programs <- ServicePrograms
  Kinds = {"rbtree", "avltree", "hashtable", "hashtable_resizable", "queue", "vector", "heap", "bitmap", "pool"}
  RbKeys = {1, 2, 3, 4, 5, 6, 7, 8, 9, 10}
  AvlKeys = {1, 2, 3, 4, 5, 6, 7}
  HtKeys = {1, 2, 3, 4, 5}
  Vals = {1, 2}
  RbVals = {1}
  Items = {1, 2}
  MaxItems = 5
  NumBits = 5
  Sizes = {1, 8, 30}
  MaxGets = 4
  User = {u1, u2}
  Requests <- TheRequests
  MaxRequests = 2
  MaxPools = 2
  POOL_SIZE = 2
  TVAL = 4
  UNIT = 2
  INDEX_BITS = 1
  BINSEARCH_THS = 1
  NoEntry = NoEntry
  Profile = {p0, p1}
  S_WINDOW_SIZE = 2
  Steps = {1, 2}
  MaxTsc = 4
  Far = 100
  Counter = {w1, w2}
  MaxTx = 2
  MaxAborts = 2
  MaxWork = 1
  SAMPLING_INTERVAL = 1
  ULONG_MAX = 9
  NumDistricts = 2
  NumCustomers = 2
  Delivered = 1
  Recent = 2
  ItemIds = {1}
  Price <- ThePrices
  LastName <- TheNames
  LineCounts = {2}
  Quantities = {9}
  Amounts = {25}
  Deliverers = {v1, v2}
  RowWarehouses = {0, 1}
  MaxOrders = 3
  FloatBits = 7
  MaxPayments = 3
INVARIANTS
  CollectorSafe AttemptExact StructuresBehave StructuresSound TablesConsistent
  TableSound PacingExact StatisticsExact
PROPERTY PeriodsWithinAttempt
