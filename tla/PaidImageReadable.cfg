\* The same key is used again after its purchase was acknowledged and expired.
CONSTANTS
  Turns = {t1}
  Digests = {d1}
  Archives = {a1}
  NoTurn = NoTurn
  NoArchive = NoArchive
  Lease = 1
  Retention = 1
  MaxLag = 0
  PruneBatch = 1
  MaxRecords = 1
  MaxAssets = 1
  MaxTokens = 2
  Readers = {}
  Room = 1
  PendingLease = 1
  ReadLease = 1
  Handlers = {h1, h2}
SPECIFICATION ImageSpec
INVARIANTS
  AnswerIsReadable
CHECK_DEADLOCK FALSE
