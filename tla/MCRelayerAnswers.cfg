SPECIFICATION Spec
CONSTANTS
  Requests = {r1, r2}
  Accounts = {g}
  Contracts = {c}
  Relayer = relayer
  NoRequest = none
  Governs = TRUE
  MaxHolderMoves = 1
CHECK_DEADLOCK FALSE
PROPERTY EveryRequestIsAnswered
