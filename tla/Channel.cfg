CONSTANTS
  Nil = Nil
  MaxHandles = 2
  RetryChoice = {0, 1, 2}
SPECIFICATION FairSpec
INVARIANTS TypeOK TimeoutOnce
PROPERTIES ImplementsAttempts EntriesEnd
CHECK_DEADLOCK FALSE
