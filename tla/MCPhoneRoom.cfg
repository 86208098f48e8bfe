SPECIFICATION LiveSpec
CONSTANTS
  h1 = h1
  h2 = h2
  phone = phone
  Humans = {h1, h2}
  Phone = phone
  Conns = {1, 2}
  MAX_PEERS = 2
INVARIANTS
  RoomCoheres
PROPERTIES
  RoomOutlivesItsPeople
  AbandonedLegIsHungUp
  EverySessionIsFinalized
CHECK_DEADLOCK FALSE
