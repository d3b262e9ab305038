CONSTANTS
  Callers = {worker, introspector, narratives}
  FailureThreshold = 3
SPECIFICATION BreakerSpec
INVARIANTS BudgetLeft OneFailurePerCooldown
CHECK_DEADLOCK FALSE
