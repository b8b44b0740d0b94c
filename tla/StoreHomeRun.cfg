SPECIFICATION Spec
CONSTANTS
  p1 = p1
  p2 = p2
  p3 = p3
  Procs = {p1, p2, p3}
  Kinds <- TwoHooks
  Homes <- AnyHome
  OldNotes = {o1, o2}
  MaxLog = 1
  Faults = {"mkdir", "open log", "create", "restrict"}
  None = None
INVARIANTS
  TypeOK
  StoreStays
  OpenedIsPrivate
  OpenLosesOnlyRaces
  FailureIsLogged
  LogIsShort
