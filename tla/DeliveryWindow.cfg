SPECIFICATION Spec
CONSTANTS
  Hooks = {h1, h2, h3}
  NumDebts = 1
  Budget = 2
  Horizon = 2
  Leftovers <- SettledStores
  Overlap = FALSE
  Crashes = {}
  Faults = FALSE
  None = None
  Garbage = Garbage
SYMMETRY HookSymmetry
INVARIANTS
  OneWindow
  OngoingHasWorker
