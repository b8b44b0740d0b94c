SPECIFICATION Spec
CONSTANTS
  Hooks = {h1}
  NumDebts = 2
  Budget = 1
  Horizon = 0
  Leftovers <- FreshStore
  Overlap = TRUE
  Crashes = {}
  Faults = FALSE
  None = None
  Garbage = Garbage
INVARIANTS
  RestIsDeliverable
