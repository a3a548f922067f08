CONSTANTS
  FileSize = 9
  BlockSize = 2
  SeqMod = 8
  MaxFaults = 2
  DataHasEot = TRUE
  OpenResults = {TRUE, FALSE}
  StartTimeout = 1
  Late = TRUE
  MaxFlight = 4
  MaxCans = 2
SPECIFICATION Spec
CHECK_DEADLOCK FALSE
INVARIANTS ReceivedInOrder NotLeftOpen
