\* Two requests of a connection, video pages fetched twice; it may be left for good.
SPECIFICATION FairSpec
CONSTANTS
  c1 = c1
  Locals <- MCLocals
  None = None
  MaxRefreshRequestCount = 2
  MaxRequests = 2
  MaxFaults = 1
INVARIANTS AnswersInOrder
PROPERTIES RequestEnds
CHECK_DEADLOCK FALSE
