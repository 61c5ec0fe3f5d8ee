CONSTANTS
  NumSigners = 2
  Workers = {w1, w2}
  Calls = {c1, c2}
  AfterDays = 1
  MaxReminders = 1
  MaxJobs = 5
  MaxTime = 1
  MaxAttempts = 2
  MaxFaults = 1
SYMMETRY Symmetry
SPECIFICATION MCSpec
INVARIANTS
  TrailBacked
  ThrottleOvershoot
  CapOvershoot
  MailedOnce
  
CHECK_DEADLOCK FALSE
