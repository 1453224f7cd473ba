\* Three processes write one file.
SPECIFICATION FairSpec
CONSTANTS
  Writer = {"w1", "w2", "w3"}
  Parties = {"web-orders", "web-stock"}
  Identity = {"get", "list"}
  Record = {"r1", "r2"}
  Contracts <- MCContracts
  Initial <- MCInitial
INVARIANTS
  AsOneSession
PROPERTIES
  WritesAreAtomic
  EveryWriteEnds
