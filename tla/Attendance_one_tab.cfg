\* One request of a recruiter at a time.
CONSTANTS
  Employee = {e1, e2}
  Tab = {t1}
  MaxDay = 2
  MaxRecord = 3
SPECIFICATION Spec
INVARIANTS
  TypeOK
  OneOpenSession
PROPERTY CheckOutFinal
