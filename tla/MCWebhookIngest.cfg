SPECIFICATION Spec
CONSTANTS
  Events = {"init", "ring", "ans1", "ans2", "media", "dtmf", "hup1", "hup2",
            "rec", "save1", "save2"}
  KindOf <- MCKindOf
  AtOf <- MCAtOf
  RecordingOf <- MCRecordingOf
  Quoted = 2
  Fallbacks = {1, 3}
  UnitsPerCredit = 3
INVARIANTS
  TypeOK
  StatusIsVerdict
  BillIsTheSpan
PROPERTIES
  FinishedIsFrozen
  RecordingStaysErasable
