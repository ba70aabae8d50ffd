SPECIFICATION MCSpec
CONSTANTS
  Entries = {t1, t2}
  Lines = {k1}
  Editors = {e1, e2}
  Originals = {1, 2}
  Amounts <- MCAmounts
  Costs = {1}
  Orders = {o1, o2}
  ContractIds = {c1, c2}
  Shared = c1
  Other = c2
  LinkLists <- MCLinkLists
  Requests = {e1, e2}
  Totals = {1, 2}
  Ceilings = {1, 2}
  Budgets <- MCBudgets
  MaxMoves = 1
SYMMETRY Symmetric
INVARIANTS ActiveBudgetEqualsValue
PROPERTIES OnlyOvertakenEditsDiverge CeilingHolds
CHECK_DEADLOCK FALSE
