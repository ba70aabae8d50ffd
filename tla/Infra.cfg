SPECIFICATION MCSpec
CONSTANTS
  Cycles = {c1, c2}
  Chunks = {1, 2}
  Workers = {w1, w2}
  MaxFaults = 2
  Projects = {p1, p2}
  Documents = {d1, d2}
  Tabs = {t1, t2}
  Retention = 2
  MaxVersion = 3
  MaxWrites = 3
  SeedWrites = 2
INVARIANTS VersionNamesDocument HistoryIsRestorable
PROPERTIES PassedStaysPassed QueuedEnds
CHECK_DEADLOCK FALSE
