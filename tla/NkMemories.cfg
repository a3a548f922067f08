CONSTANTS
  Bits = {1}
  FlashSize = 6
  PageSize = 2
  EraseSizes = {2, 4}
  BusyTimeout = 2
  MaxLen = 3
  MaxFaults = 1
  Width = 2
  DevAddr = 1
  EepromSize = 4
  ChipPage = 2
  MaxPolls = 1
  MaxStretches = 1
  AckTimeout = 2
  DataByte = {1, 2}
  MaxTransfer = 2
  MaxCalls = 2
SPECIFICATION Spec
INVARIANTS TypeOK BusFree
PROPERTIES ImplementsFlash ImplementsEeprom CallsReturn
