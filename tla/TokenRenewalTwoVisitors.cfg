CONSTANTS
  gate = node
  relay = node
  b1 = b1
  b2 = b2
  r1 = r1
  r2 = r2
  Gate <- MCGate
  Relay <- MCRelay
  Browser <- MCTwo
  Request <- MCRequest
  MaxPairs = 4
  MaxTime = 4
  MaxFlight = 1
  AccessTtl = 4
  Grace = 1
  Retain = 1
  Skew = 1
  Faults = {}
SYMMETRY MCSymmetry
SPECIFICATION Spec
INVARIANTS
  GateAssured
  SameChain
CHECK_DEADLOCK FALSE
