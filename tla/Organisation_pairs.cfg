CONSTANTS
  Admin = admin
  SubAdmin = {s1, s2}
  Recruiter = {u1}
  Client = {c1}
  Nobody = nobody
  Request = {r1, r2}
  MaxRequest = 2
  StatusAsked = {"same", "inactive"}
  ActiveAsked = {"same", "yes"}
  Fault = {"request", "object", "opening"}
SPECIFICATION Spec
SYMMETRY Symmetry
INVARIANTS  RestingWithoutTargets  
CHECK_DEADLOCK FALSE
