CONSTANTS
  t1 = t1
  t2 = t2
  strange = strange
  Tab <- MCTab
  Strange <- MCStrange
  Request <- MCRequest
  MaxFlows = 2
  MaxMails = 2
  MaxFollows = 1
  Faults = {"fetch"}

SPECIFICATION Spec
\* The sign-ins the bounds allow may all be over.
CHECK_DEADLOCK FALSE
INVARIANTS TypeOK RequestSurvives LinkSpendsOneAttempt
PROPERTIES Settles
