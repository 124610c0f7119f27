SPECIFICATION Spec
CONSTANTS
  One = 4
  DecayRate = 1
  SuccessGain = 1
  FailureCost = 1
  ViolationCost = 2
  TrustedAt = 3
  StandardAt = 1
  a = a
  b = b
  ia = ia
  ib = ib
  g1 = g1
  g2 = g2
  read = read
  write = write
  t1 = t1
  t2 = t2
  t3 = t3
  p1 = p1
  p2 = p2
  Processes = {p1, p2}
  Tasks = {t1, t2, t3}
  ProcessOf <- TwoAndOne
  Names = {a, b}
  Ids = {ia, ib}
  NoParent = NoParent
  Pairs = {read, write}
  GrantIds = {g1, g2}
  Statuses <- TwoStatuses
  FirstStatus = "registered"
  Keys <- TwoKeys
  MaxDepth = 2
  Calls <- CallsOfThree
  MaxRevision = 2
  MaxEvents = 1
  MaxSetbacks = 0
PROPERTIES
  WritesBuildOnTheLast
