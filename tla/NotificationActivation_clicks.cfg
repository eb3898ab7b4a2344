SPECIFICATION FairSpec
CONSTANTS
  Target = {a}
  Capacity = 2  Ttl = 1  DuplicateTtl = 1  MaxRequeues = 1  MaxAttempts = 2
  RejectionCapacity = 2  CompletedCapacity = 2  DrainAttempts = 2  MaxDrain = 2
  MaxClicks = 3  MaxSessions = 3  MaxClock = 1  MaxFaults = 1
INVARIANTS Accounted InClickOrder OnlyTheListenerHolds
PROPERTY Settles
CHECK_DEADLOCK FALSE
