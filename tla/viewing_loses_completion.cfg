CONSTANTS
  NumSigners = 2
  Calls = {c1, c2}
  Envelopes <- SignerThenApprovers
  Ops = {"open", "sign"}
  MaxFaults = 0
SPECIFICATION FairSpec
PROPERTIES
  LastSignatureCompletes
CHECK_DEADLOCK FALSE
