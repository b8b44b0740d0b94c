SPECIFICATION Spec
CONSTANTS
  p1 = p1
  p2 = p2
  k1 = k1
  ongoing = ongoing
  ready = ready
  t1 = t1
  Workers = {p1, p2}
  Hooks = {p2}
  Operations = {"delivering"}
  Sessions = {"a"}
  Rows = {k1}
  Marks = {ongoing, ready}
  Times = {t1}
  Found <- Directories
  Torn = Torn
  MaxCalls = 7
  None = None
INVARIANTS
  TypeOK
  PublishedIsWhole
  ShownIsWhole
  StayingIsShown
PROPERTIES
  ImplementsShelf
