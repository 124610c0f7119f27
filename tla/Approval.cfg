SPECIFICATION Spec
CONSTANTS
  r1 = r1
  r2 = r2
  r3 = r3
  i1 = i1
  i2 = i2
  Requests = {r1, r2, r3}
  RequestIds = {i1, i2}
  IdOf <- TwoShareAnId
  Modes <- AllModes
  MaxClicks = 1
INVARIANTS
  OneApprovalOneRequest
  ListedIsLive
PROPERTIES
  FirstAnswerStands
  EveryRequestEnds
CHECK_DEADLOCK FALSE
