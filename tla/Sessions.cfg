CONSTANTS
  b1 = b1  b2 = b2
  r1 = r1  r2 = r2  r3 = r3
  Tab = {b1, b2}
  Request = {r1, r2, r3}
  TabOf <- MCTabOf
  MaxTokens = 3
  MaxFaults = 1
  MaxLoginsAndFaults = 2
SPECIFICATION Spec
INVARIANTS OneRowPerLogin RevokedStaysRevoked HeldTokenIsLive
PROPERTIES TokensAreKept
ACTION_CONSTRAINT Modest
CHECK_DEADLOCK FALSE
