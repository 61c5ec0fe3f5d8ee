CONSTANTS
  Drafts <- Templates
  Recipients <- InOrder
  Sends = {s1}
  Rooms = {r1, r2}
  Certs = {a, b}
  Serial <- OneSerial
  Names = {n1}
  Ops = {p1, p2}
  Signers = {x}
  MaxPolls = 2
  Visitors = {v1, v2}
  MaxSessions = 3
  Stores = {minio, onyx}
  Objects = {d1, d2}
  MaxFaults = 1
SYMMETRY Symmetry
SPECIFICATION Spec
INVARIANTS
  PlacedWhole
  EvidenceWhole
  DnsClean
  SignatureVerifies
  DemoHeals
  NothingLost
CHECK_DEADLOCK FALSE
