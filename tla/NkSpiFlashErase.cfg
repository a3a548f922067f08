CONSTANTS
  Bits = {1}
  FlashSize = 6
  PageSize = 2
  EraseSizes = {2, 4}
  BusyTimeout = 2
  MaxLen = 3
  MaxFaults = 0
SPECIFICATION FlashSpec
PROPERTY ErasesAreWaitedFor
