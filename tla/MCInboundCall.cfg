SPECIFICATION LiveSpec
CONSTANTS
  u1 = u1
  u2 = u2
  Colleagues = {u1, u2}
  Routes <- MCRoutes
  MaxMishaps = 2
INVARIANTS
  LineIsLetGo
PROPERTIES
  TakenIsLeftAlone
  EveryCallEnds
  EveryMessageStops
CHECK_DEADLOCK FALSE
