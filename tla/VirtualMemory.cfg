CONSTANTS
  Pages = {p1, p2, p3, p4, p5}
  FrameCount = 3
  TLBSize = 2
  Writes = {w1}
  Nil = Nil
SPECIFICATION VMSpec
INVARIANTS StructuresAgree TLBIsRecent
PROPERTIES ImplementsMemory
