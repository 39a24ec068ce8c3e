SPECIFICATION Spec
CONSTANTS
  owner = owner
  Users = {owner, u1}
  Reports = {p1}
  Owner <- OneOwner
  Requests = {t1, t2}
  NULL = NULL
  MaxClaims = 2
INVARIANT ApprovedIsClaimed
CHECK_DEADLOCK FALSE
