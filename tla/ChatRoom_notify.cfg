\* Two handlers that post, change members and the status while a socket comes and
\* goes, calls of the object fail, handlers are lost and the object restarts.
CONSTANTS
  Admin = {a1}
  SubAdmin = {}
  Recruiter = {e1}
  Request = {r1, r2}
  Socket = {s1}
  MaxMessage = 1
  MaxPayload = 3
  ReplayLimit = 1
  Handler = {"text", "assign", "status", "read"}
  Fault = {"database", "object", "request", "restart"}
SPECIFICATION Spec
SYMMETRY Symmetry
CHECK_DEADLOCK FALSE
INVARIANTS
  TypeOK
  NobodyOverlooked
  SweepArmed
  NothingAfterRevocation
