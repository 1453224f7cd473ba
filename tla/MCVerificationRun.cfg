\* Three variants of two documents, with every outcome of every hook.
CONSTANTS
  State = {"orders", "stock"}
  Orders = "orders"
  Stock = "stock"
  Requests <- MCRequests
SPECIFICATION FairSpec
INVARIANTS
  EveryVariantCounted
  PairsAddUp
  PublishedWhole
  VerdictsHonest
  StopsAtFirstFailure
  AbortReported
PROPERTIES
  TornDownInReverse
  RunEnds
