SPECIFICATION MCSpec
CONSTANTS
  Language <- MCLanguage
  Contributed <- MCContributed
  Name <- MCNames
  Begins <- MCBegins
  Depth = 2
  MaxOptions = 2
  MinEvidence = 2
  Observations <- MCObservations
  MaxObservations = 3
  Authored <- MCAuthored
  Declared <- MCDeclared
  CheckedPair <- Checked
  OtherPairs <- MCOtherPairs
  Verifications <- MCVerifications
  Policies <- MCPolicies
  Dates <- MCDates
  Values <- MCValues
INVARIANTS RecordedAdmitsObserved YesIsSound CaveatsAreInert GeneratedIsAdmitted PassIsEarned
CHECK_DEADLOCK FALSE
