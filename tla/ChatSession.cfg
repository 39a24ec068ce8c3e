SPECIFICATION SessionSpec
CONSTANTS
  a = a
  t1 = t1
  t2 = t2
  t3 = t3
  NULL = NULL
  WebSearch = ws
  Agents = {a}
  Tools = {ws}
  Plans <- OnePlan
  Threads = {t1, t2}
  Base = t1
  Requests = {r1, r2}
  Setups <- SomeSetups
  MaxConfirmations = 2
INVARIANTS NeverReplayed WrittenOnce
PROPERTY SuspendedStaysPut
SYMMETRY RequestSymmetry
CHECK_DEADLOCK FALSE
