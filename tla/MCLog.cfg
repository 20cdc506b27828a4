SPECIFICATION Spec
CONSTANTS
  BITS = 8
  Chars <- Characters
  Calls <- KernelCalls
  Reports <- ShortReports
  Depths = {1, 2}
  MaxCalls = 2
  MaxExceptions = 2
INVARIANTS TypeOK TextInOrder ReturnsKept NumbersReadBack
PROPERTY AllGoesOut
CHECK_DEADLOCK FALSE
