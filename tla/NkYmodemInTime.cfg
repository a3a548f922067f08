CONSTANTS
  FileSize = 7
  BlockSize = 2
  SeqMod = 4
  MaxFaults = 3
  DataHasEot = FALSE
  OpenResults = {TRUE, FALSE}
  StartTimeout = 1
  Late = FALSE
  MaxFlight = 3
  MaxCans = 2
SPECIFICATION FairSpec
CHECK_DEADLOCK FALSE
INVARIANTS TypeOK SenderDoneMeansClosed
PROPERTIES ImplementsTransfer FileComesOver
