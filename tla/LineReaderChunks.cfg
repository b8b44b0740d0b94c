SPECIFICATION Spec
CONSTANTS
  Bytes = {"x", "nl", "hd", "tl"}
  Newline = "nl"
  Lead = "hd"
  Trail = "tl"
  Cap = 3
  MaxInput = 6
INVARIANTS
  TypeOK
  Aligned
  YieldsTheLines
PROPERTIES
  Terminates
