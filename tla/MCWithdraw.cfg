SPECIFICATION Spec
CONSTANTS
  Classic <- MCClassic
  Smart <- MCSmart
  HasRelayer = TRUE
  MaxCalls = 2
  MaxTicks = 2
INVARIANTS
  WithdrawTypeOK
  HandoffIsWatched
PROPERTIES
  ReadyUnlessLate
  HandoffEnds
