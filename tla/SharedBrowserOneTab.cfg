CONSTANTS
  alice = alice
  bob = bob
  t1 = t1
  t2 = t2
  Nobody = Nobody
  Person <- MCPeople
  Tab <- MCOneTab
  App = {"console", "id"}
  Faults = {}
  Lapsing = {"access", "session"}
  MaxLapses = 2
SPECIFICATION FairSpec
INVARIANTS
  TypeOK
PROPERTIES
  VisitEnds
