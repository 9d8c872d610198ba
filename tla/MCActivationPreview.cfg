SPECIFICATION Spec
CONSTANTS
  Accounts = {"g", "h"}
  Contracts = {"c"}
  Assets = {"open", "reg"}
  OpenAssets = {"open"}
  DefaultAsset = "open"
  RouterMissing = FALSE
  Testnet = TRUE
  Links <- MCPreview
  MaxKeys = 1
CHECK_DEADLOCK FALSE
INVARIANTS
  OnlyConnectedSigns
