\* One run of an operation with a backup model, of which one is remembered; two
\* messages at Feishu, the answer of the first brings a picture; the other parts are
\* given in the module.
CONSTANTS
  Quotes <- OneQuote
  NoQuote = NoQuote
  Fundings = {"f"}
  Amounts = {4}
  Models = {"m", "backup"}
  ErrThreshold = 2
  MaxTracked = 1
  Operations = {"o"}
  Runs = {"run"}
  Order <- WithBackup
  alice = alice
  Chats = {alice}
  ChatOf <- TwoMessages
  Workers = {"worker"}
  Pictures = {1}
  InRoom = 1
  OutRoom = 2
  MaxAttempts = 2
  MaxSends = 2
  MaxFaults = 1
SPECIFICATION PartsSpec
INVARIANTS
  CallsAreAccounted
  DeliveriesAreSent
PROPERTIES
  EveryRunEnds
  NothingIsHeldForever
  BridgesComeToRest
  OrderKept
CHECK_DEADLOCK FALSE
