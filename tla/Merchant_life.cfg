SPECIFICATION FairSpec
CONSTANTS
  Procs = {p1, p2}
  MaxAudit = 5
  MaxAppeals = 2
  MaxFaults = 1
INVARIANTS TrailIsTrue OnlyAdminsReadmit
PROPERTIES DeletedStays EveryRequestEnds
CHECK_DEADLOCK FALSE
