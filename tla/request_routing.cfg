CONSTANTS
  NumSigners = 3
  Calls = {c1, c2}
  Envelopes <- Routed
  Ops = {"sign", "handOver"}
  MaxFaults = 0
SPECIFICATION FairSpec
PROPERTIES
  LastSignatureCompletes
CHECK_DEADLOCK FALSE
