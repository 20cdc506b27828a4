SPECIFICATION Spec
CONSTANTS
  c1 = c1
  c2 = c2
  Client <- MCClient
  RegionCount = 1
  first_block <- MCFirstBlock
  blocks_count <- MCBlocksCount
  Blocks = 3
  UINT32BITS = 4
  BLOCK_SIZE = 2
  Counts = {1, 2}
  Aligns = {1, 2}
INVARIANT NoSharedFrame
