\* Windows of two seconds at half-second ticks, one address with a good, a bad and no token.
CONSTANTS
  Classes <- MCClasses
  Addresses = {a1}
  Tokens = {good, bad}
  NoToken = NoToken
  MCValidToken = good
  Valid <- MCValid
  MCLimit = 2
  Limit <- MCLimits
  MCSeconds = 2
  Seconds <- MCWindow
  Ticks = 2
  MaxTime = 7
  MaxRequests = 4
SPECIFICATION Spec
CHECK_DEADLOCK FALSE
INVARIANTS
  AddressIsBounded
  RetryIsEnough
PROPERTY ImplementsWindow
