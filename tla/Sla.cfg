SPECIFICATION MCSpec
CONSTANTS
  Priorities = {low, urgent}
  OtherPolicies = {p1}
  Calendars = {day, night}
  Contracts = {k1}
  Categories = {}
  Requests = {r1, r2}
  NoId = none
  DayLength = 6
  Zones <- MCZones
  SlaCalendars <- MCCalendars
  StartAts = {19, 25, 26, 27, 28, 33, 37}
  Policies <- MCPolicies
SYMMETRY Symmetric
INVARIANTS ResolutionIsUnambiguous FallbackKept DeadlinesAreWorkedTime WarningLeavesItsTime
PROPERTIES ReferencesKeptWhenFresh
CHECK_DEADLOCK FALSE
