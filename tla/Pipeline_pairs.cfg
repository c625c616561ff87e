CONSTANTS
  Admin = admin
  Client = {c1, c2}
  ActiveClient = {c1}
  Opening = {o1}
  Resume = {m1}
  MaxApplication = 2
  Nobody = nobody
  Request = {r1, r2}
  MaxRequest = 2
  RoundAsked = {"screening", "round 2"}
  Fault = {"request", "column"}
SPECIFICATION Spec
SYMMETRY Symmetry
INVARIANTS MailsAccounted TimelineTellsRound 
PROPERTIES OpeningsKept
CHECK_DEADLOCK FALSE
