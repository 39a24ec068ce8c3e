SPECIFICATION DeskSpec
CONSTANTS
  s1 = s1
  s2 = s2
  NULL = NULL
  Requests = {r1, r2}
  MaxTickets = 1
  Spaces = {s1, s2}
  Lists <- SomeLists
  Topics <- SomeTopics
  DayLength = 2
  Slots = {0, 1}
  ConfirmTTL = 1
  DraftTTL = 1
  SearchTTL = 2
  MaxTime = 2
  MaxTurns = 4
  MaxBookings = 2
INVARIANTS DeskTypeOK ResolvedWasInProgress PartsOfOneRequest ReferencesAreCurrent TicketOfOneProblem
CHECK_DEADLOCK FALSE
