SPECIFICATION FairSpec
CONSTANTS
  Regs = {r1, r2}
  Roles = {"USER", "DELIVERY_PARTNER"}
  Procs = {p1, p2}
  Verifiers = {v1}
  Codes = {"a", "b"}
  MaxTokens = 3
  MaxFaults = 1
INVARIANTS AccountsAreRight OneSession
PROPERTIES EventuallyVerified
CHECK_DEADLOCK FALSE
