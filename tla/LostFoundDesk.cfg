SPECIFICATION DeskSpec
CONSTANTS
  owner = owner
  p1 = p1
  p2 = p2
  t1 = t1
  Users = {owner, u1, u2}
  Reports = {p1, p2}
  Owner <- OneOwner
  Requests = {t1, t2}
  NULL = NULL
  MaxClaims = 2
  User = u1
  Topics <- SomeTopics
  Minimum = 40
  ShownAtMost = 2
  PerMinute = 2
  PerSession = 4
  Window = 2
  ConfirmTTL = 1
  MaxTime = 2
  MaxTurns = 3
  MaxAsked = 2
INVARIANTS ClaimedUnlessOvertaken OneActiveClaim LastWordIsTrue DeskTypeOK SentOnceAsShown RateIsBounded BestAreShown
PROPERTIES DecisionFinal FieldsAreLatest WriteIsWanted
CHECK_DEADLOCK FALSE
