SPECIFICATION MCSpec
CONSTANTS
  Runs = {r1, r2}
  MaxOccurrence = 3
  MaxPerRun = 2
  MaxEdits = 1
  MaxFailures = 1
  MaxCrashes = 2
  FirstYear = 2024
  LastYear = 2026
  StartDays = {1, 28, 29, 30, 31}
  Values = {1, 2}
SYMMETRY Symmetric
INVARIANTS OneOrderUnlessAStepFailed OnlyCrashesStrand MatchesClosedForm
PROPERTIES NothingIsPassedOver
CHECK_DEADLOCK FALSE
