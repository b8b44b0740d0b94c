SPECIFICATION Spec
CONSTANTS
  A = A
  B = B
  C = C
  FileA = FileA
  FileB = FileB
  p1 = p1
  p2 = p2
  p3 = p3
  Sessions = {A, B, C}
  Files = {FileA, FileB}
  Slug <- SharedFile
  Procs = {p1, p2, p3}
  Jobs <- OneMove
  FirstRows <- FewRows
  NumKeys = 3
  Crashes = TRUE
  NoRow = NoRow
  Corrupt = Corrupt
  NoKey = NoKey
INVARIANTS
  TypeOK
  KeyNamesOneSnapshot
  OneOwner
  MoveKeepsSnapshot
