SPECIFICATION Spec
CONSTANTS
  Target = {a}
  Capacity = 2  Ttl = 1  DuplicateTtl = 1  MaxRequeues = 1  MaxAttempts = 2
  RejectionCapacity = 2  CompletedCapacity = 2  DrainAttempts = 2  MaxDrain = 2
  MaxClicks = 2  MaxSessions = 2  MaxClock = 1  MaxFaults = 0
INVARIANTS NoticeOnce
CHECK_DEADLOCK FALSE
