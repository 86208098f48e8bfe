SPECIFICATION LiveSpec
CONSTANTS
  answerer = answerer
  sweep = sweep
  d1 = d1
  d2 = d2
  Digits = {d1, d2}
  Setups <- MCSetups
  MaxMishaps = 1
INVARIANTS
  TypeOK
  NothingKeptUnasked
  PointerOutlivesBytes
PROPERTIES
  ConsentDecidedOnce
  AudioOpens
  KeptIsPurged
CHECK_DEADLOCK FALSE
