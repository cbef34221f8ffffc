CONSTANTS
  alice = alice
  bob = bob
  t1 = t1
  t2 = t2
  Nobody = Nobody
  Person <- MCPeople
  Tab <- MCTwoTabs
  App = {"console"}
  Faults = {"hydra", "kratos"}
  Lapsing = {"access", "session"}
  MaxLapses = 1
SYMMETRY MCSymmetries
SPECIFICATION Spec
INVARIANTS
  AssuranceEarned
  
PROPERTIES
  OwnPage
