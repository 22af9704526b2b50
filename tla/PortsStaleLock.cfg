SPECIFICATION PortsSpec
CONSTANTS
  None = None
  Runtime = {a, b, c}
  Request = {r, q}
  MaxPort = 2
  MaxStarts = 3
  Ops = {"start"}
CHECK_DEADLOCK FALSE
INVARIANT PortsNotShared
