SPECIFICATION FairSpec
CONSTANTS
  Consumers = {a, b}
  Published <- Mixed
  Undecodable = {3}
  Notifiable = {1}
  OptedOut = {}
  MaxRetries = 0
  DLQSuffix = ""
  MaxLog = 7
  MaxFaults = 2
INVARIANTS JobsAreRight AcknowledgedIsDone
PROPERTIES EventuallyNotified
CHECK_DEADLOCK FALSE
