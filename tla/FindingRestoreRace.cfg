SPECIFICATION Spec
CONSTANTS
  Hooks = {h1, h2}
  NumDebts = 2
  Budget = 1
  Horizon = 0
  Leftovers <- FreshStore
  Overlap = FALSE
  Crashes = {}
  Faults = FALSE
  None = None
  Garbage = Garbage
INVARIANTS
  ReadySurvives
