\* Six spaces under every strategy, with pins, exclusions and a small budget.
SPECIFICATION Spec
CONSTANT Requests <- MCPolicies
INVARIANTS
  SelectsVariants
  NothingLeftOut
  SizeIsExact
  PairsAreExercised
PROPERTIES
  TargetsArePlaced
CHECK_DEADLOCK FALSE
