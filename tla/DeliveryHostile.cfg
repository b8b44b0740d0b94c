SPECIFICATION Spec
CONSTANTS
  Hooks = {h1, h2}
  NumDebts = 2
  Budget = 1
  Horizon = 1
  Leftovers <- AnyStore
  Overlap = TRUE
  Crashes = {"hook", "worker"}
  Faults = TRUE
  None = None
  Garbage = Garbage
SYMMETRY HookSymmetry
INVARIANTS
  TypeOK
  AtMostOnce
  DeliveryInv
  ExactDischarge
