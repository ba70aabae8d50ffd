SPECIFICATION Spec
CONSTANTS
  WorkOrderIds = {w1}
  Sessions = {s1, s2}
  MaxWrites = 5
  MaxPendencies = 2
SYMMETRY Symmetric
INVARIANTS TypeOK PendencyCoherence PendenciesAgree HistoryIsChain ConclusionHolds RatedOnlyConcluded
PROPERTIES NoLostUpdate Lifecycle
CHECK_DEADLOCK FALSE
