SPECIFICATION Spec
CONSTANTS
  TOTAL = 900
  HEADER = 16
  POINTER = 4
  Sizes = {20}
  Alignments = {1}
  MaxHeld = 4
  MaxMerges = 2
  MaxTail = 4
INVARIANT NothingClobbered
