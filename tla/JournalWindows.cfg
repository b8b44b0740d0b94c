SPECIFICATION Spec
CONSTANTS
  Captures = {s1, s2}
  MaxStamp = 2
  MaxEntry = 2
  MaxWindow = 2
  MaxRecords = 3
  Faults = TRUE
  MaxHandoffs = 1
  NoRow = NoRow
  Corrupt = Corrupt
SYMMETRY CaptureSymmetry
VIEW LiveView
INVARIANTS
  TypeOK
  NothingSkipped
  CutOnlyWhenFull
  NothingReplayed
  TextIsTail
