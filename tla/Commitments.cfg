SPECIFICATION MCSpec
CONSTANTS
  CommitmentIds = {c1, c2}
  Contracts = {k1, k2}
  Measurements = {m1, m2}
  Sessions = {s1, s2}
  ContractValue = 3
  IssuedAmounts = {1, 3}
  MovedAmounts = {1, 2}
  MaxMoved = 4
  MaxMovedTogether = 2
SYMMETRY Symmetric
PROPERTIES CeilingKeptWhenFresh LiquidationKeptWhenFresh PaymentKeptWhenFresh
CHECK_DEADLOCK FALSE
