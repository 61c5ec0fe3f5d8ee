CONSTANTS
  NumSigners = 3
  Calls = {c1}
  Envelopes <- FirstSigns
  Ops = {"open", "sign", "decline", "cancel", "handOver"}
  MaxFaults = 0
SPECIFICATION Spec
INVARIANTS
  NeverStalls
  ExpiredMeansUnsigned
PROPERTIES
  DeclineStopsRouting
  CancelledNotReopened
CHECK_DEADLOCK FALSE
