CONSTANTS
  Submitter = {s1, s2}
  Worker = {w1, w2}
  QueueSize = 2
  MaxTasks = 3
  Nil = Nil
SPECIFICATION FairSpec
INVARIANTS TypeOK PromisesKept
PROPERTIES ImplementsTaskQueue CallersServed
CHECK_DEADLOCK FALSE
