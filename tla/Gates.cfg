\* Four requests of two keys, two slots, two in a window and in a day; three
\* videos for two slots; two components and two epochs, three purchases, two of
\* which the ledger has room for, three faults.  The bounds on inspections and
\* calls are the code's but for MaxCas, four there.
CONSTANTS
  k1 = k1
  k2 = k2
  z = z
  None = None
  Requests = {a, b, c, z}
  Keys = {k1, k2}
  KeyOf <- TwoKeys
  PerKey = 2
  Global = 2
  Rolling = 2
  Daily = 2
  Days = 1
  MaxFaults = 1
  Videos = {a, b, c}
  MaxGlobal = 2
  MaxPoolFaults = 3
  Components = {"gateway", "channel_media"}
  Gateway = "gateway"
  Addition = "channel_media"
  Operations = {"op1", "op2"}
  Claims = {a, b, c}
  MaxEpoch = 2
  MaxFloor = 2
  MaxOther = 1
  MaxCas = 2
  MaxLooks = 2
  MaxInspections = 5
  MaxRootFaults = 3
SPECIFICATION PartsSpec
SYMMETRY Symmetry
INVARIANTS
  CountsExact
  CapacityIsKept
  OutboundOnce
PROPERTIES
  WindowIsExact
  RootIsKept
CHECK_DEADLOCK FALSE
