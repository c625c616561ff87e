\* The viewer and the admin post, the connection breaks, a handler is lost.
CONSTANTS
  Admin = {a1}
  SubAdmin = {}
  Recruiter = {e1}
  Viewer = {e1}
  Request = {r1}
  Socket = {s1, s2}
  MaxMessage = 2
  MaxPayload = 1
  ReplayLimit = 2
  Handler = {"text", "delete"}
  Fault = {"request"}
  Sends = TRUE
  HistoryFirst = TRUE
SPECIFICATION ClientSpec
SYMMETRY Symmetry
CHECK_DEADLOCK FALSE
INVARIANTS
  ClientTypeOK
  NothingMissedAfterFirst
  ShownOnceUnlessEchoed
