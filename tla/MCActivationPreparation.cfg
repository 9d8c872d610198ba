SPECIFICATION Spec
CONSTANTS
  Accounts = {"g", "h"}
  Contracts = {"c"}
  Assets = {"open", "reg"}
  OpenAssets = {"open"}
  DefaultAsset = "open"
  RouterMissing = FALSE
  Testnet = TRUE
  Links <- MCSmart
  MaxKeys = 2
CHECK_DEADLOCK FALSE
INVARIANTS
  SuccessCopyIsTruthful
