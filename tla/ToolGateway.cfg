SPECIFICATION Spec
CONSTANTS
  c1 = c1
  before = before
  after = after
  Calls = {c1}
  KindsOf <- AnyKind
  Blank = Blank
  Definitions = {before, after, Blank}
  Absent = Absent
  NotApproved = NotApproved
  Arguments <- SomeArguments
  Results <- SomeResults
  Documents = {"open", "careful", "reviewing", "odd"}
  FirstDocument = "careful"
  Says <- SaysOf
  NoAnswer = NoAnswer
  Down = Down
  NoVerdict = NoVerdict
  MaxChanges = 2
PROPERTIES
  RunsWhatWasApproved
  ActsOnOpasWord
  PersonalDataIsUndeniedAndMasked
CHECK_DEADLOCK FALSE
