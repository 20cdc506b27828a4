SPECIFICATION Spec
CONSTANTS
  TOTAL = 1136
  HEADER = 16
  POINTER = 4
  Sizes = {0, 15, 20}
  Alignments = {1, 8}
  MaxHeld = 4
  LargestSize = 20
  LargestAlignment = 8
  MaxMerges = 1
  MaxTail = 2
INVARIANTS TypeOK NothingClobbered InsideHeap Coalesced
PROPERTY ImplementsArena
