SPECIFICATION Spec
CONSTANTS
  HALF = 4
  Devices = {1, 3, 4}
  Asked = {1, 2, 4, 8}
  Handlers = {h}
  h = h
  NULL = NULL
  MaxRaises = 2
CHECK_DEADLOCK FALSE
INVARIANTS TypeOK NoReset NothingInService HandlerThere
PROPERTY RequestsServed
