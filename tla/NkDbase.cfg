CONSTANTS
  short = short
  long = long
  Values = {short, long}
  Pieces <- Fitting
  RevMod = 4
  BankCells = 4
  PerBlock = 2
  PerFlush = 2
  MaxFaults = 2
  MaxReadFaults = 0
  NoValue = NoValue
  Erased = Erased
  Zeroed = Zeroed
  Junk = Junk
SPECIFICATION Spec
INVARIANTS TypeOK OlderVersionPreserved
PROPERTY ImplementsStore
