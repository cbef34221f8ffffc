SPECIFICATION Spec
CONSTANTS
  alice = alice
  bob = bob
  h1 = h1
  h2 = h2
  Nobody = Nobody
  Person <- MCPerson
  Handler <- MCHandler
  Late = {"POST", "DELETE"}
  MaxLate = 2
SYMMETRY Interchangeable
INVARIANTS
  TypeOK
  OwnersReachable
  NoOrphanProfile
  RowsAreTheirOwn
