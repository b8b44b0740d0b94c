SPECIFICATION Spec
CONSTANTS
  Hooks = {h1, h2}
  NumDebts = 1
  Budget = 1
  Horizon = 1
  Leftovers <- UsedStores
  Overlap = FALSE
  Crashes = {"worker"}
  Faults = FALSE
  None = None
  Garbage = Garbage
INVARIANTS
  ReadySurvives
PROPERTIES
  HookReturns
  OrphanIsFolded
