SPECIFICATION DisplaySpec
CONSTANTS
  W = 4
  H = 3
  TABSPACES = 2
  BYTE = 4
  Chars = {"x", "y", "z"}
  Colors = {1, 2}
  DEFAULT_COLOR = 1
  MaxCalls = 4
  MaxExceptions = 2
  Contexts = {"plain", "coded"}
  FirstLine <- First
  SecondLine <- Second
  Modes <- SmallModes
  PixelColors = {4, 5}
  BLANK = 0
  Words = 10
CHECK_DEADLOCK FALSE
INVARIANTS TypeOK OverrunBounded MessageShown RegistersFollow
PROPERTIES ImplementsTerminal ImplementsCanvas
