\* The payload of the selection tests with a dimension inside an alternative.
SPECIFICATION Spec
CONSTANT Requests <- MCGated
INVARIANT CoverageIsComputed
CHECK_DEADLOCK FALSE
