SPECIFICATION Spec
CONSTANTS
  i1 = i1  i2 = i2  m1 = m1  m2 = m2  l1 = l1  r1 = r1
  Ids = {i1}
  Msgs = {m1, m2}
  Rcpts = {l1, r1}
  To <- MCTo
  ChannelOf <- MCChannelOf
  DoubleBounces = {m2}
  NoMsg = NoMsg
  NoId = NoId
  DEATH = 1
  OSSIFIED = 2
  IoErrors = FALSE
  MaxCrashes = 1
  StaleBacklog = FALSE
CHECK_DEADLOCK FALSE
INVARIANTS TypeOK AllStates NoLoss QueuedIsDurable Scheduling OneJob NeverReaped
