CONSTANTS
  Fetches = {f1, f2}
  NumSessions = 4
  Users = {u1, u2}
  Orgs = {o1, o2}
  Calls = {c1, c2}
  Roles = {"OWNER", "ADMIN", "MEMBER"}
  Checkouts = {k1, k2}
  Payers = {o1, o2, o3}
  Plans = {p1}
  MaxRedemptions = 1
  MaxSubscriptions = 1
  MaxFaults = 1
SYMMETRY Symmetry
SPECIFICATION Spec
INVARIANTS
  NoFork
  BrowserHoldsLive
  OwnerLostOnlyByDemotion
  BillingAgrees
CHECK_DEADLOCK FALSE
