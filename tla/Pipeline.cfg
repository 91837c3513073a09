CONSTANTS
  Size = 8
  RA = 3
  Code <- Mixed
  Length = 5
SPECIFICATION FairSpec
PROPERTIES ImplementsSingleCycle GetsToEnd
