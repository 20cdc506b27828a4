SPECIFICATION Spec
CONSTANTS
  MODULES_MAX_LOAD = 2
  BLOCK = 8
  NAME_SIZE = 3
  MODE_DIGITS = 2
  SIZE_DIGITS = 3
  WORD = 100
  MMAP_ENTRIES = 4
  Chars <- Letters
  WantedName <- Wanted
  Boots <- MCBoots
INVARIANTS TypeOK WalksOnHeaders ModulesInOrder ShowsTheFile
PROPERTIES BootEnds
CHECK_DEADLOCK FALSE
