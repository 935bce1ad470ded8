\* Two requests for images that overtake each other, with room for one, three
\* claims and a download; the other parts are given in the module.
CONSTANTS
  Turns = {t1, t2}
  Digests = {d1}
  Archives = {a1}
  NoTurn = NoTurn
  NoArchive = NoArchive
  Lease = 1
  Retention = 1
  MaxLag = 0
  PruneBatch = 1
  MaxRecords = 2
  MaxAssets = 1
  MaxTokens = 3
  Readers = {r1}
  Room = 1
  PendingLease = 1
  ReadLease = 1
  Handlers = {h1, h2}
  Digests2 = {d1, d2}
  Archives2 = {a1, a2}
  Readers2 = {r1, r2}
  None = None
SPECIFICATION PartsSpec
SYMMETRY Symmetry
INVARIANTS
  StoreInv
  FilesAreKept
  PaidOnce
  BytesFitAnswers
  StoresAreKept
PROPERTIES
  KeepsPurchases
  PurchaseIsProved
CHECK_DEADLOCK FALSE
