CONSTANTS
  gate = gate
  relay = relay
  b1 = b1
  b2 = b2
  r1 = r1
  r2 = r2
  Gate <- MCGate
  Relay <- MCRelay
  Browser <- MCOne
  Request <- MCRequest
  MaxPairs = 4
  MaxTime = 8
  MaxFlight = 1
  AccessTtl = 6
  Grace = 2
  Retain = 3
  Skew = 2
  Faults = {}
SYMMETRY MCSymmetry
SPECIFICATION Spec
INVARIANTS
  TypeOK
  NoBreach
CHECK_DEADLOCK FALSE
