CONSTANTS
  c1 = c1
  c2 = c2
  fA = fA
  fB = fB
  fM = fM
  Nil = Nil
  Client = {c1}
  File = {fA}
  Existing = {fA}
  Blocks <- Triples
  MaxBlocks = 3
  Retries = 1
  MaxVersion = 1
  Unreliable = TRUE
  MaxDownloads = 1
  MaxInbox = 1
  SlowStart = 1
  MaxWindow = 2
  MaxRefusals = 1
  MaxCallbacks = 1
  MaxRestarts = 1
SPECIFICATION Spec
INVARIANTS TypeOK AckedIsReceived InFlightBounded RequestsWatched
PROPERTIES ImplementsDelivery
CHECK_DEADLOCK FALSE
