SPECIFICATION Spec
CONSTANTS
  Documents = {d1, d2}
  HeldOutDocuments = {d1, d2}
  People = {p}
  Agent = agent
  Appliers = {a}
  MaxVersion = 1
  MaxPackets = 1
  MaxReviews = 1
INVARIANT GrowthIsAllowed
CHECK_DEADLOCK FALSE
