SPECIFICATION Spec
CONSTANTS
  Null = Null
  Missing = Null
  u1 = u1
  u2 = u2
  r1 = r1
  r2 = r2
  r3 = r3
  i1 = i1
  i2 = i2
  k1 = k1
  k2 = k2
  Users <- MCUsers
  Accounts = {"mine", "theirs"}
  Msgs <- MCMsgs
  AccountOf <- MCAccountOf
  DayOf <- MCDayOf
  SentDayOf <- MCSentDayOf
  Fields <- MCFields
  QueryTokens = 1
  WordHits = {3}
  AnyWordHits = {3, 5}
  Flows = {"f1"}
  Ttl = 1
  MaxTime = 3
  MaxCandidates = 3
  MinCandidates = 2
  BatchSize = 1
  MaxKeys = 2
  PrefilterDays = 1
  Lines <- MCLines
  TitleOf <- MCTitleOf
  LlmItems <- MCLlmItems
  HoursPerDay = 3
  MaxPast = 1
  MaxFuture = 2
  MaxLlmMessages = 2
  Importers = {i1, i2}
  Editors = {k1, k2}
  MaxEvents = 2
  Topics = {"reading", "paging", "scanning", "importing", "mending", "editing", "sending", "filing", "deleting", "confirming", "confirmed"}
  Case <- MCCase
  Patches <- MCPatches
  Queries <- MCQueries
  Labellings <- MCLabellings
  Requests = {r1, r2, r3}
  TrashedTtl = 1
  MaxSends = 2
  ByHand <- MCByHand
  EventPatches <- MCEventPatches
  Today = 5
  Days = {0, 1}
  MostMessages = {1, 3}
SYMMETRY Interchangeable
INVARIANTS
  CopiesAgree
  ListedAsAsked
  CalendarKept
  ChatWritesOnce
CHECK_DEADLOCK FALSE
