CONSTANTS
  Instance = {i1, i2}
  Request = {r1, r2}
  Target <- MCTarget
SPECIFICATION FairSpec
INVARIANTS PortIsFree
PROPERTIES StopIsNoError StopReturns RequestsSettle KeepsPromise
CHECK_DEADLOCK FALSE
