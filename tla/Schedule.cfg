CONSTANTS
  Count = 4
  MaxBurst = 5
  Quantum = 2
  MaxPriority = 2
  Nil = Nil
SPECIFICATION Spec
INVARIANTS DueServed ShortestIsBest
PROPERTIES PriorityKept AllFinish
CHECK_DEADLOCK FALSE
