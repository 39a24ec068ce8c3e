SPECIFICATION GatewaySpec
CONSTANTS
  Requests = {n1, n2}
  Calls = {c1}
  Window = 1
  NonceTtl = 3
  TokenTtl = 2
  MaxSkew = 1
  Ticks = 2
  MaxTime = 4
  MaxKeys = 2
  Null = Null
  Nothing = Nothing
  Parts <- MCParts
  Replies <- MCReplies
  Aggregates <- MCAggregates
  Direct <- MCDirect
SYMMETRY RequestsSame
CHECK_DEADLOCK FALSE
INVARIANTS
  ServedOnce
  OneReply
  WholeReply
