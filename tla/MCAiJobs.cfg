SPECIFICATION LiveSpec
CONSTANTS
  k1 = k1
  k2 = k2
  Clicks = {k1, k2}
  Wanted <- MCWanted
  Funds = 3
  MaxMishaps = 1
INVARIANTS
  NeverDoubleRun
  PaidOnceAndKept
PROPERTIES
  EveryJobAnswers
CHECK_DEADLOCK FALSE
