CONSTANTS
  Calls = {c1, c2}
  Writers = {c1, c2}
  f1 = f1
  f2 = f2
  f3 = f3
  Files = {f1, f2}
  Extensions = {"pdf", "docx"}
  Extension <- TwoTypes
  Titles = {t1, t2}
  None = None
  MaxVersion = 3
  MaxChanges = 3
  MaxRequests = 3
  MaxFaults = 1
SPECIFICATION Spec
INVARIANTS
  PointerIsLatest
  NoDanglingKey
  IndexCurrent
PROPERTIES
  VersionsImmutable
