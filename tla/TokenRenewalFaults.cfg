CONSTANTS
  gate = gate
  relay = relay
  b1 = b1
  b2 = b2
  r1 = r1
  r2 = r2
  Gate <- MCGate
  Relay <- MCRelay
  Browser <- MCOne
  Request <- MCRequest
  MaxPairs = 3
  MaxTime = 7
  MaxFlight = 1
  AccessTtl = 6
  Grace = 1
  Retain = 3
  Skew = 1
  Faults = {"issuer", "upstream"}
SPECIFICATION FairSpec
INVARIANT
  ServedTokenLive
PROPERTIES
  ExchangesSingleFlight
  Answered
CHECK_DEADLOCK FALSE
