SPECIFICATION Spec
CONSTANTS
  Accounts = {"g", "h"}
  Contracts = {"c"}
  Assets = {"open", "reg"}
  OpenAssets = {"open"}
  DefaultAsset = "open"
  RouterMissing = FALSE
  Testnet = TRUE
  Links <- MCLinks
  MaxKeys = 1
CHECK_DEADLOCK FALSE
INVARIANTS
  ActivationTypeOK
  StatusIsOfTheShown
  BadgesAreTheWallets
  BusyIsOneRun
  ActivationCopyIsTruthful
PROPERTIES
  FreshBadgesStay
  SubmittingEnds
