SPECIFICATION Spec
CONSTANTS
  Accounts = {g1}
  Contracts = {c1, self}
  Self = self
  Principals = {p1, p2}
  Predecessors = {issuer}
  MaxBatch = 2
  Amounts = {0, 1}
  MaxBalance = 1
  AuthRequired = TRUE
  Revocable = TRUE
  ClawbackEnabled = TRUE
SYMMETRY PrincipalSymmetry
INVARIANTS
  FrozenStaysOut
  TrailIsFaithful
  EligibilityForeseesOutcome
PROPERTIES
  PauseStopsEverything
  ImplementsAdmission
