\* Video pages that are all checked away, or hidden by WhenAny.
SPECIFICATION Spec
CONSTANTS
  c1 = c1
  Locals <- MCLocals
  None = None
  MaxRefreshRequestCount = 2
  MaxRequests = 2
  MaxFaults = 1
INVARIANTS VideoPagesPass
CHECK_DEADLOCK FALSE
