CONSTANTS
  Host = {h1, h2}
  None = None
  MaxRequests = 3
  MaxConnects = 2
SPECIFICATION FairSpec
INVARIANTS ResultsAreOwn WorkersAreOwned
PROPERTIES MutexIsReleased SleeperReports
CHECK_DEADLOCK FALSE
