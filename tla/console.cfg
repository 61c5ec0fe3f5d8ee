CONSTANTS
  Templates = {t1, t2}
  FieldIds = {a}
  Pages = {1, 2}
  Emails = {x, y, z}
  MaxSigners = 3
  MaxRequests = 1
  Tabs = {tab1, tab2}
  RoomCalls = {c1, c2}
  RoomFields = {f}
  Required = {f}
  Answers = {yes}
  Slots = {c1, c2, c3, c4}
  Requests = {c1, c2, c3, c4}
  Tasks = {c1, c2, c3, c4}
  Colleagues = {o, m}
  Owner = o
  Limit = 2
SPECIFICATION Spec
INVARIANTS
  DraftFollowsEditor
  RequestsRoutable
  
  PagesCurrent
CHECK_DEADLOCK FALSE
