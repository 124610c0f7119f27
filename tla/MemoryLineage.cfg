SPECIFICATION Spec
CONSTANTS
  One = 100
  DecayRate = 1
  SuccessGain = 2
  FailureCost = 5
  ViolationCost = 10
  TrustedAt = 70
  StandardAt = 30
  a = a
  b = b
  c = c
  ia = ia
  ib = ib
  ic = ic
  g1 = g1
  g2 = g2
  read = read
  write = write
  Names = {a, b, c}
  Ids = {ia, ib, ic}
  NoParent = NoParent
  Pairs = {read, write}
  GrantIds = {g1, g2}
  FirstStatus = "registered"
  MaxDepth = 3
  Requests <- LineageRequests
  NewGrants <- NoGrants
  Overrides <- OverridesHigh
  MaxHours = 2
  MaxRevision = 2
  MaxEvents = 1
  MaxGrants = 1
  Statuses <- OneStatus
  Keys <- OneKey
INVARIANTS
  TypeOK
  LineageBound
  JournalSound
PROPERTIES
  TrustRisesOnlyBySignal
