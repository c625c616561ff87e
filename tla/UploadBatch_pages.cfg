CONSTANTS
  c1 = c1
  c2 = c2
  Client = {c1, c2}
  Nobody = nobody
  f1 = f1
  f2 = f2
  f3 = f3
  File = {f1, f2, f3}
  Name <- Names
  Legible = {f1, f3}
  MaxQueue = 2
  MaxCommit = 2
  MaxEdit = 3
SPECIFICATION Spec
  
PROPERTIES Released
CHECK_DEADLOCK FALSE
