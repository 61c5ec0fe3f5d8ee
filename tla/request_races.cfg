CONSTANTS
  NumSigners = 3
  Calls = {c1, c2}
  Envelopes <- Raced
  Ops = {"open", "sign", "decline", "cancel"}
  MaxFaults = 1
SPECIFICATION Spec
ACTION_CONSTRAINT CancelsInParallel
SYMMETRY CallSymmetry
INVARIANTS
  InOrder
  ReleasedInOrder
  CompleteMeansAllSigned
PROPERTIES
  ImplementsLedger
CHECK_DEADLOCK FALSE
