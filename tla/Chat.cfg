\* Two owners of one message whose model may change; two messages for one row;
\* four callers of feedback.
CONSTANTS
  h1 = h1
  h2 = h2
  g1 = g1
  g2 = g2
  t2 = t2
  q1 = q1
  q2 = q2
  None = None
  Turns = {t1}
  Models = {m1, m2}
  Handlers = {h1, h2}
  TurnOf <- OneTurn
  Required = FALSE
  MaxRecords = 1
  MaxResponses = 1
  MaxReceipts = 1
  MaxFaults = 4
SPECIFICATION PartsSpec
SYMMETRY Symmetry
INVARIANTS
  TurnRunsOnce
  ToldTheSame
PROPERTIES
  KeepsPromise
  OnceInRoom
CHECK_DEADLOCK FALSE
