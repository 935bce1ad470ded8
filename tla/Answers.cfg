\* Two clients that repeat one message for ever; the others are given in the
\* module.
CONSTANTS
  h1 = h1
  h2 = h2
  Turns = {t1}
  Models = {m1}
  Handlers = {h1, h2}
  TurnOf <- OneTurn
  None = None
  Required = FALSE
  MaxRecords = 1
  MaxResponses = 1
  MaxReceipts = 1
  MaxFaults = 2
SPECIFICATION PartsSpec
PROPERTIES
  TurnsAreAnswered
  VideosEnd
  LeasesEnd
CHECK_DEADLOCK FALSE
