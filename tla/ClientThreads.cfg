CONSTANT MaxArrivals = 3
SPECIFICATION CTFairSpec
INVARIANTS QueueServesWait
PROPERTIES WaitEnds
CHECK_DEADLOCK FALSE
