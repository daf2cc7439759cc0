SPECIFICATION ModestSpec
CONSTANTS
  k1 = k1
  k2 = k2
  p1 = p1
  p2 = p2
  Key = {k1, k2}
  Proc = {p1, p2}
  HasNodes = TRUE
  MaxChanges = 1
  MaxCrashes = 1
  MaxFaults = 1
  NoKey = NoKey
  NoAnswer = NoAnswer
INVARIANTS
  LicensedStateIsBacked
  KeysAgree
PROPERTIES
  RevocationTakesEffect
  ActivationSettles
CHECK_DEADLOCK FALSE
