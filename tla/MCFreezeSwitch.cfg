SPECIFICATION Spec
CONSTANTS
  Accounts = {g1}
  Contracts = {self}
  Self = self
  Principals = {p1, p2}
  Predecessors = {issuer}
  MaxBatch = 2
  Amounts = {0, 1}
  MaxBalance = 1
  AuthRequired = TRUE
  Revocable = TRUE
  ClawbackEnabled = TRUE
INVARIANT NoFrozenButNotBanned
