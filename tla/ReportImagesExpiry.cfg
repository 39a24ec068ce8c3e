SPECIFICATION Spec
CONSTANTS
  StagedKeys = {s1}
  DirectKeys = {d1}
  Reports = {p1}
  Requests = {t1}
  NULL = NULL
  MaxImages = 1
  Setups <- LateOnly
PROPERTY CreatedWithImages
CHECK_DEADLOCK FALSE
