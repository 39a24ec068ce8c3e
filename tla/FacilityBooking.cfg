SPECIFICATION FairSpec
CONSTANTS
  Users = {u}
  Spaces = {hall, attic}
  InService = {hall}
  Requests = {r1, r2}
  NULL = NULL
  DayLength = 5
  Opening = 1
  Closing = 4
  MaxDuration = 2
  MaxAdvance = 3
  MaxTime = 5
  MaxBookings = 2
INVARIANTS NoDoubleBooking
PROPERTIES RefinesCalendar RequestEnds
CHECK_DEADLOCK FALSE
