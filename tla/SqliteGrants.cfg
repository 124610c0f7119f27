SPECIFICATION Spec
CONSTANTS
  One = 4
  DecayRate = 1
  SuccessGain = 1
  FailureCost = 1
  ViolationCost = 2
  TrustedAt = 3
  StandardAt = 1
  a = a
  b = b
  ia = ia
  ib = ib
  g1 = g1
  g2 = g2
  read = read
  write = write
  run = run
  t1 = t1
  t2 = t2
  Tasks = {t1, t2}
  Names = {a, b}
  Ids = {ia, ib}
  NoParent = NoParent
  Pairs = {read, write, run}
  GrantIds = {g1, g2}
  Statuses <- TwoStatuses
  FirstStatus = "registered"
  Keys <- TwoKeys
  MaxDepth = 2
  Calls <- GrantCalls
  MaxHours = 0
  MaxRevision = 2
  MaxEvents = 0
  MaxSetbacks = 1
INVARIANTS
  TypeOK
  ReturnedIsSaved
  AuthorityFromRoots
PROPERTIES
  WritesBuildOnTheLast
  EveryCallReturns
  AddGrantHasNoWindow
