CONSTANTS
  FirstDay = 2
  LastDay = 4
  Span = 2
  Week = 3
  Month = 4
  e1 = e1
  e2 = e2
  c1 = c1
  c2 = c2
  Recruiter = {e1, e2}
  Client = {c1, c2}
  r1 = r1
  r2 = r2
  Resume = {r1, r2}
  Application = {a1}
  None = none
  Daily <- Targets
  Window = 1
  Retention = 2
  MaxWrite = 3
SYMMETRY SameRows
SPECIFICATION Spec
INVARIANTS CountsAgree 
PROPERTIES DaysStand
CHECK_DEADLOCK FALSE
