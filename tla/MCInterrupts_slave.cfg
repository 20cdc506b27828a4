SPECIFICATION Spec
CONSTANTS
  HALF = 4
  Devices = {1, 4}
  Asked = {1, 4}
  Handlers = {h}
  h = h
  NULL = NULL
  MaxRaises = 2
CHECK_DEADLOCK FALSE

PROPERTY EnabledLinesServed
