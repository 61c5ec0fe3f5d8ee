CONSTANTS
  Calls = {c1, c2}
  Writers = {c1}
  f1 = f1
  f2 = f2
  f3 = f3
  Files = {f1, f2, f3}
  Extensions = {"pdf", "docx"}
  Extension <- TwoTypes
  Titles = {t1}
  None = None
  MaxVersion = 4
  MaxChanges = 4
  MaxRequests = 1
  MaxFaults = 1
SPECIFICATION Spec
PROPERTIES
  ImplementsHistory
