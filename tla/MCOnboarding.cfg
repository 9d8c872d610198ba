SPECIFICATION OnboardingSpec
CONSTANTS
  Accounts = {g1}
  Contracts = {self}
  Self = self
  Principals = {p1}
  Predecessors = {"issuer key", "stub", "strict", "no-op", "broken"}
  MaxBatch = 1
  Amounts = {}
  MaxBalance = 0
  AuthRequired = TRUE
  Revocable = TRUE
  ClawbackEnabled = TRUE
  Kind <- KindByName
INVARIANTS
  OnboardingTypeOK
  FrozenStaysOut
PROPERTIES
  StatusIsTruthful
  BanIsNeverDowngraded
  EligibleHolderGetsIn
  ImplementsAdmission
