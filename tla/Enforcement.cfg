SPECIFICATION Spec
CONSTANTS
  c1 = c1
  c2 = c2
  i1 = i1
  read = read
  Calls = {c1, c2}
  KindsOf <- ToolAndAny
  Resources = {read}
  ResourceOf <- BothRead
  Expressions = {"ungranted", "trusted", "untrusted", "flagged", "always", "raises", "broken"}
  Broken = {"broken"}
  Truth <- TruthOf
  NoCondition = NoCondition
  Never = Never
  NoResult = NoResult
  Results = {"fine", "flagged"}
  AllowUnmatched = FALSE
  UnmatchedMode = "hard"
  CallIds = {i1}
  IdOf <- OneId
  ServiceModes = {"manual", "callback", "posted"}
  MaxClicks = 1
  Records <- AllRecords
  Gone = Gone
  FirstRecord <- Temporary
  FirstPolicy <- AskPolicy
  Files <- AllFiles
  MaxTime = 1
  MaxChanges = 2
  NoVerdict = NoVerdict
INVARIANTS
  AuditExplainsActs
  ActsPerApproval
PROPERTIES
  ActsOnCurrentAuthority
  DeniedResultsAreWithheld
  NothingWithoutGrant
CHECK_DEADLOCK FALSE
