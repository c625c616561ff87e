CONSTANTS
  a = a
  b = b
  Account = {a, b}
  First = a
  Nobody = nobody
  Page = {"clients", "admin"}
  Opens <- Everything
  Filter = {1, 2}
  Default = 1
  Plain = 0
  MaxAct = 4
  MaxPress = 1
  MaxEvent = 2
  MaxStep = 5
SPECIFICATION Spec
INVARIANTS OwnWritesShown ShownBelongs LogoutHolds
PROPERTIES SignedOutWhenDue
CHECK_DEADLOCK FALSE
