\* One job of three steps under any calls, and two runs of it, in a ledger that
\* cannot hold the largest records of all its steps; two writes of a file of two
\* contents, and their undoing.
CONSTANTS
  NoOwner = NoOwner
  Jobs = {j1}
  Owners = {o1, o2}
  NumSteps = 3
  Deps <- Fork
  Durations = {1, 2}
  MaxText = 1
  JobRow = 1
  JobHeadroom = 1
  StepHeadroom = 1
  MaxPayload = 4
  MaxEpoch = 2
  MaxTokens = 4
  Lease = 1
  MaxAttempts = 1
  Writes = {w1, w2}
  Contents = {c1, c2}
  Absent = Absent
SPECIFICATION PartsSpec
SYMMETRY Symmetry
INVARIANTS
  LedgerInv
  TerminalFits
  JobIsGivenBack
PROPERTIES
  NoLeaseIsStolen
  KeepsPromise
  NeverStuck
  UndoIsHonest
CHECK_DEADLOCK FALSE
