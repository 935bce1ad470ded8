\* Two messages of a chat and two workers, the first asks for a video; three
\* videos, of which one cannot be generated; two claims of a row.
CONSTANTS
  alice = alice
  MaxClaims = 2
  MaxAttempts = 2
  Tries = 2
  MaxFaults = 2
  Chats = {alice}
  ChatOf <- TwoMessages
  Workers = {w1, w2}
  Chunks = 1
  Videos = {1}
  Pictures = {}
  VideoRoom = 1
  MaxFailures = 2
  MaxSends = 2
  MaxMishaps = 2
  Outages = 0
  Prunes = 0
  QueueLength = 3
  Pollers = {w1, w2}
  Broken = {3}
  MaxPolls = 1
  MaxQueueFaults = 3
SPECIFICATION PartsSpec
SYMMETRY Symmetry
INVARIANTS
  RepliesAreSent
  VideosAreSent
  LeaseIsTrue
PROPERTIES
  OrderIsKept
  WritesFollowClaims
CHECK_DEADLOCK FALSE
