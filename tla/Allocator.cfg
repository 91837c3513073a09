CONSTANTS
  Names = {x, y, z}
  Size = 12
  Page = 2
  Nobody = Nobody
SPECIFICATION Spec
INVARIANTS ListsAgree PolicyKept
PROPERTIES ImplementsHeap
