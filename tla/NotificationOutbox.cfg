SPECIFICATION FairSpec
CONSTANTS
  Events = {e1}
  Workers = {k1, k2}
  maxAttempts = 2
  MaxWrites = 10
  MaxCrashes = 1
INVARIANTS SentMeansDelivered
PROPERTIES SettledIsFinal LeaseIsRespected EveryEventSettles
CHECK_DEADLOCK FALSE
