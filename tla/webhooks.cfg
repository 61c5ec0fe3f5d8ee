CONSTANTS
  NumEndpoints = 1
  NumRows = 1
  Workers = {w1, w2}
  MaxAttempts = 2
  Window = 1
  MinFailures = 1
  MaxTime = 1
  MaxFaults = 1
SPECIFICATION FairSpec
INVARIANTS
  DeliveredMeansAccepted
  AcceptedOnce
  EveryAttemptRecorded
  LogAgreesWithQueue
PROPERTIES
  SweepOnlyDead
  Resolves
CHECK_DEADLOCK FALSE
