CONSTANTS
  Schemas <- Versions
  Values <- Memories
  IntBits = 20
  CharIsSigned = FALSE
  FlashGranularity = 8
SPECIFICATION SerializeSpec
PROPERTY PaddedIsLoaded
