CONSTANTS
  c1 = c1
  c2 = c2
  fA = fA
  fB = fB
  fM = fM
  Nil = Nil
  Client = {c1, c2}
  File = {fA, fB, fM}
  Existing = {fA, fB}
  Blocks <- Lengths
  MaxBlocks = 2
  Retries = 1
  MaxVersion = 2
  Unreliable = FALSE
  MaxDownloads = 2
  MaxInbox = 1
  SlowStart = 1
  MaxWindow = 1
  MaxRefusals = 2
  MaxCallbacks = 1
  MaxRestarts = 0
SPECIFICATION MCSpec
INVARIANTS CacheIsTrue FinishedIsWhole FinishedIsCached
PROPERTIES DownloadEnds TaskEnds
CHECK_DEADLOCK FALSE
