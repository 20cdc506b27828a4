SPECIFICATION Spec
CONSTANTS
  ADDR_MOD = 64
  ONE_MB = 16
  kernel_start = 16
  kernel_end = 24
  PAGE_SIZE = 4
  UINT32BITS = 2
  WORD_SIZE = 2
  MEM_DYNAMIC_MIN_SIZE = 8
  BITMAP_STACK_SIZE = 3
  Maps <- AllMaps
INVARIANTS
  TypeOK KernelAndHeapKept FrameAllocatorReady MostFrames
  KernelKept RegionsPlaced
  ChainComplete
CHECK_DEADLOCK FALSE
