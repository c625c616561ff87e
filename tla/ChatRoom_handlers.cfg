\* Posting, deleting, unassigning and replays, while the storage fails and the object restarts.
CONSTANTS
  Admin = {a1}
  SubAdmin = {}
  Recruiter = {e1}
  Request = {r1}
  Socket = {s1}
  MaxMessage = 2
  MaxPayload = 2
  ReplayLimit = 1
  Handler = {"text", "delete", "assign"}
  Fault = {"storage", "restart"}
SPECIFICATION FairSpec
CHECK_DEADLOCK FALSE
INVARIANTS
  LiveTextWithdrawn
PROPERTIES
  DeadSocketSwept
  KeepsPromise
