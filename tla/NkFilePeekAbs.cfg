CONSTANTS
  BlockSize = 4
  Granularity = 2
  Chunks = {2, 5}
  MaxSize = 6
  CarefulPeek = FALSE
  MaxIoFaults = 0
SPECIFICATION FileSpec
PROPERTIES ImplementsTape
