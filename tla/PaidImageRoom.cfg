\* A late request releases the room of the one that took its place.
CONSTANTS
  Turns = {t1}
  Digests = {d1}
  Archives = {a1}
  NoTurn = NoTurn
  NoArchive = NoArchive
  Lease = 1
  Retention = 1
  MaxLag = 0
  PruneBatch = 1
  MaxRecords = 1
  MaxAssets = 1
  MaxTokens = 2
  Readers = {}
  Room = 1
  PendingLease = 1
  ReadLease = 1
  Handlers = {h1, h2}
SPECIFICATION ImageSpec
INVARIANTS
  NoChargeWithoutRoom
CHECK_DEADLOCK FALSE
