CONSTANTS
  root = root
  alice = alice
  bob = bob
  o1 = o1
  o2 = o2
  Nobody = Nobody
  Person <- MCPair
  Roots <- MCRoots
  First = alice
  Op <- MCTwoOps
  Kind = {"create", "delete", "activate", "deactivate", "revoke", "access"}
SPECIFICATION Spec
SYMMETRY MCSymmetry
INVARIANTS
  TypeOK
  NoRoleOffStaff
PROPERTIES
  AppointedByRoots
