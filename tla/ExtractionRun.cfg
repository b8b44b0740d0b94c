SPECIFICATION Spec
CONSTANTS
  Helpers = {g1, g2}
  Capacity = 1
  Payload = 2
  MaxSaid = 3
  MaxNoise = 2
  MinAnswer = 1
  MaxAnswer = 2
INVARIANTS
  TypeOK
  HandoffIsWhole
  FullPipesAreServed
  GroupIsGone
PROPERTIES
  ReturnsUnlessHeld
