SPECIFICATION Spec
CONSTANTS
  Requests = {r1, r2}
  Accounts = {g}
  Contracts = {}
  Relayer = relayer
  NoRequest = none
  Governs = TRUE
  MaxHolderMoves = 1
CHECK_DEADLOCK FALSE
INVARIANT ChainErrorIsUnpaid
