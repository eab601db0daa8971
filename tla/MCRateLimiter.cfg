SPECIFICATION LimiterSpec
CONSTANTS
  anyone = anyone
  admin = admin
  Key = {k1, k2}
  Max = 2
  Window = 3
  Block = 6
  Caller = {anyone, admin}
  MaxOf <- Limits
  Period = 1
INVARIANT AdviceIsKept
PROPERTIES ActAsFixedWindows BlocksEnd
