CONSTANTS
  BlockSize = 4
  Granularity = 2
  Chunks = {2, 5}
  MaxSize = 6
  CarefulPeek = TRUE
  MaxIoFaults = 1
  Schemas <- Versions
  Values <- Memories
  IntBits = 20
  CharIsSigned = FALSE
  FlashGranularity = 2
  NK_JSON_STACK_SIZE = 4
  Days <- DaysOfUse
  Seconds = {0, 35999, 36000, 86398, 86399}
  UnixTimes <- Midnights
  Dates <- TypedDates
  MaxLag = 3
  Cells = 2
  Texts <- Greeting
  CarefulHome = TRUE
  MaxLcdFaults = 1
  NDigits = 2
  Font <- Glyphs
  digit_map <- Swapped
  Pictures <- Panels
  SegKeys = {255, 90}
  CarefulReset = TRUE
  MaxSegResets = 1
  LongBits = 8
  ShortBits = 5
  Numbers = {0, 42, 128, 255}
  FieldWidths = {0, 2, 5}
  Precisions = {0, 4}
SPECIFICATION Spec
INVARIANTS TypeOK WellFormed ShowsPicture ReadsBack
PROPERTIES ImplementsTape Migrates TimeIsTrue ImplementsScreen
