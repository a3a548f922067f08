CONSTANTS
  RxSize = 2
  CountMod = 4
  NItems = 2
  Others = {"other"}
  Orders = {"load"}
  MaxChars = 6
  Char = {"a", " "}
  LineSize = 4
  HistSize = 5
  Visible <- SomeVisible
  Hidden <- SomeHidden
  FacMode = TRUE
SPECIFICATION ConsoleSpec
INVARIANTS TypeOK InOrder ReaderReachable
INVARIANTS LineTypeOK ScreenShowsLine UnchangedIsRetrieved CliListens
PROPERTIES AllRead TabEnds ImplementsEditor
