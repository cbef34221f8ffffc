CONSTANTS
  t1 = t1
  t2 = t2
  seeded = seeded
  fresh = fresh
  v1 = v1
  v2 = v2
  Blank = Blank
  Tab <- MCTab
  Client <- MCClient
  Seeded <- MCSeeded
  Value <- MCValue
  MaxChanges = 2
  MaxRows = 2
  Faults = {"hydra", "answer", "audit", "view"}
SYMMETRY MCSymmetry
SPECIFICATION Spec
INVARIANTS
  TypeOK
  CodeFollowsGrants
  SecretIsHeld
  TrailIsTrue
PROPERTY NothingElseChanges
CHECK_DEADLOCK FALSE
