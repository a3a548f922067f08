CONSTANTS
  TimeMod = 8
  Scale = 3
  MaxLag = 1
  Delays = {0, 1}
  Work = {w1}
  NItems = 2
  MaxTid = 3
  SleepModes = {0, 1}
  NoWork = NoWork
SPECIFICATION FairSpec
INVARIANTS TypeOK ItemsConserved OneItemPerTid Sorted TimesAgree
PROPERTIES NeverEarly ImplementsTimers EventuallyCalled
