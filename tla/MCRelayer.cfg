SPECIFICATION Spec
CONSTANTS
  Requests = {r1, r2, r3}
  Accounts = {g}
  Contracts = {}
  Relayer = relayer
  NoRequest = none
  Governs = TRUE
  MaxHolderMoves = 1
SYMMETRY RequestSymmetry
CHECK_DEADLOCK FALSE
INVARIANTS
  RelayerTypeOK
  OneAuthorizeAtWork
PROPERTIES
  ImplementsPayments
  SuccessIsTruthful
  AuthorizeRefusalsAreTheAuthorizers
