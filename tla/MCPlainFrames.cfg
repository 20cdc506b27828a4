SPECIFICATION Spec
CONSTANTS
  c1 = c1
  c2 = c2
  Client <- MCClient
  RegionCount = 2
  first_block <- MCFirstBlock
  blocks_count <- MCBlocksCount
  UINT32BITS = 3
  BLOCK_SIZE = 2
  Counts = {0, 1, 2, 3, 4}
  Aligns = {0, 1}
SYMMETRY Symmetry
INVARIANTS
  TypeOK
  NoSoundFrameShared
  SoundBitsHeld
PROPERTIES
  ClearedWereReleased
  PastEndOnlyWhenFull
  HintPassesWordEndsOnly
  ImplementsAllocator
