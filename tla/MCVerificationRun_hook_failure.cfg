\* The default policies, where a failed after-response hook fails the exchange.
CONSTANTS
  State = {"orders", "stock"}
  Orders = "orders"
  Stock = "stock"
  Requests <- MCDefaults
SPECIFICATION Spec
INVARIANTS
  HookFailureFails
