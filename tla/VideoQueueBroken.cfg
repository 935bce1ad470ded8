\* A video whose generation fails.
CONSTANTS
  QueueLength = 1
  Pollers = {w1}
  Broken = {1}
  MaxPolls = 1
  MaxQueueFaults = 0
SPECIFICATION QueueFairSpec
PROPERTIES VideosEnd
CHECK_DEADLOCK FALSE
