SPECIFICATION Spec
CONSTANTS
  Requests = {r1, r2, r3}
  Tokens = {t1, t2, t3, t4}
  NoToken = none
SYMMETRY Symmetric
INVARIANTS RotatedOnce InvitedCanAccept
PROPERTIES MemberStaysWhenFresh
CHECK_DEADLOCK FALSE
