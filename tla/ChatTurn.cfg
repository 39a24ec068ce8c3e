SPECIFICATION FairSpec
CONSTANTS
  a = a
  b = b
  NULL = NULL
  WebSearch = ws
  Agents = {a, b}
  Tools = {ws, calc}
  Plans <- TwoAgents
  MaxTurns = 2
  MaxClarifications = 2
  MaxConfirmations = 3
INVARIANTS TypeOK ConfirmedOnce ConfirmedIsCarriedOut SearchesAgreed QuestionsEnd SomeAskerRemembered OutcomesReported
PROPERTY TurnEnds
CHECK_DEADLOCK FALSE
