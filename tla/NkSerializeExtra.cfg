CONSTANTS
  Schemas <- Versions
  Values <- Memories
  IntBits = 20
  CharIsSigned = FALSE
  FlashGranularity = 1
SPECIFICATION SerializeSpec
PROPERTY ExtraMembersIgnored
