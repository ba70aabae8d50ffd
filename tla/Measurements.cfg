SPECIFICATION Spec
CONSTANTS
  Orders = {w1, w2}
  MeasurementIds = {m1, m2}
  Sessions = {s1, s2}
  ContractValue = 3
  Amounts = {2}
  Adjustments <- PenaltyOrBonus
SYMMETRY Symmetric
PROPERTIES TotalsKeptWhenFresh CeilingKeptWhenFresh OnlyResumptionsDuplicate
CHECK_DEADLOCK FALSE
