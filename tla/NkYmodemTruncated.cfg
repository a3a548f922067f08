CONSTANTS
  FileSize = 3
  BlockSize = 2
  SeqMod = 8
  MaxFaults = 1
  DataHasEot = FALSE
  OpenResults = {TRUE, FALSE}
  StartTimeout = 1
  Late = TRUE
  MaxFlight = 3
  MaxCans = 0
SPECIFICATION Spec
CHECK_DEADLOCK FALSE
INVARIANT ClosedWhenComplete
