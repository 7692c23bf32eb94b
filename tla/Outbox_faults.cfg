SPECIFICATION FairSpec
CONSTANTS
  NumEvents = 3
  Publishers = {p1, p2}
  Invalid = {1, 2}
  Filters <- AllOrOne
  MaxRetries = 2
  BatchSize = 2
  MaxFaults = 1
  MaxRequeues = 1
INVARIANTS StatusIsTrue ExclusiveClaim DuplicatesNeedFaults
PROPERTIES EventuallySettled
CHECK_DEADLOCK FALSE
