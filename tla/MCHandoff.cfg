SPECIFICATION Spec
CONSTANTS
  MaxDepth = 3
  Relayer = "r"
  Accounts <- MCAccounts
  Contracts <- MCContracts
  Pinned <- MCPinned
  Regulated <- MCRegulated
  OtherAssets <- MCOther
  Strange <- MCStrange
  Predicates <- MCPredicates
  ReclaimAfter <- MCReclaim
  MaxTime = 3
INVARIANTS
  RequestsComplete
  BuiltIsAccepted
  OnlyTheOfferIsPaid
  PlanSucceeds
  OffersAreClaimable
