SPECIFICATION Spec
CONSTANTS
  Hooks = {h1, h2}
  NumDebts = 2
  Budget = 1
  Horizon = 1
  Leftovers <- EarlierStores
  Overlap = FALSE
  Crashes = {"hook", "worker"}
  Faults = TRUE
  None = None
  Garbage = Garbage
INVARIANTS
  ReadyIsStored
PROPERTIES
  ImplementsInjection
