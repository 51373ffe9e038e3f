\* Two calls, one permit, two tasks that follow each other, two faults; both
\* time-outs.  No symmetry, for the temporal properties.
SPECIFICATION FairSpec
CONSTANTS
  Requests = {r1, r2}
  Conns = {c1, c2}
  None = None
  MaxStreamPoolCount = 1
  MaxStreamParallelRequestCount = 1
  MaxStreamRequestCount = 2
  HasIdleTimeOut = TRUE
  HasResponseTimeOut = TRUE
  MaxFaults = 2
INVARIANTS PackConservation PoolBound OwnResponse InStep
PROPERTIES ServiceSpec EveryCallReturns ConnectionsEnd
