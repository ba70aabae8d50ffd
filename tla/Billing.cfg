SPECIFICATION MCSpec
CONSTANTS
  Subscriptions = {s1, s2, s3}
  NoSubscription = none
  Handlers = {h1, h2}
  Trial = trial
  MaxEvents = 4
  LicenceEvents = 3
  Plans = {s3}
INVARIANTS LicenceFollowsProvider ManualDecisionStands TenantFollowsInOrder
CHECK_DEADLOCK FALSE
