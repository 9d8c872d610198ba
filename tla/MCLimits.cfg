SPECIFICATION Spec
CONSTANTS
  Clients = {a, b}
  Slots = {s1, s2}
  Rpm = 2
  MaxInflight = 1
  Minute = 3
  PruneAbove = 0
  MaxTime = 9
CHECK_DEADLOCK FALSE
INVARIANTS
  LimitsTypeOK
  PruningIsInvisible
  BudgetHolds
  GateCountsOpenResponses
PROPERTY CapacityComesBack
