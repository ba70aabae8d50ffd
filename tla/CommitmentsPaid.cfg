SPECIFICATION MCSpec
CONSTANTS
  CommitmentIds = {c1}
  Contracts = {k1}
  Measurements = {m1}
  Sessions = {s1, s2}
  ContractValue = 2
  IssuedAmounts = {1, 2}
  MovedAmounts = {1}
  MaxMoved = 3
  MaxMovedTogether = 0
SYMMETRY Symmetric
INVARIANTS PaymentWithinLiquidation
CHECK_DEADLOCK FALSE
