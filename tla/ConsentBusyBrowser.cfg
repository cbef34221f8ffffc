CONSTANTS
  ann = ann
  bob = bob
  ours = ours
  theirs = theirs
  plain = plain
  admin = admin
  h1 = h1
  h2 = h2
  k1 = k1
  k2 = k2
  Person <- MCPerson
  Client <- MCClient
  FirstParty <- MCFirstParty
  Role <- MCRole
  Unstaffed = plain
  Challenge <- MCChallenge
  Handler <- MCHandler
  MaxChanges = 1
  MaxSubmits = 2

SPECIFICATION Spec
\* The changes the bound allows may have suspended everybody.
CHECK_DEADLOCK FALSE
SYMMETRY MCSymmetry
INVARIANTS TypeOK TokenSpeaksForItsSubject RowsAgree
