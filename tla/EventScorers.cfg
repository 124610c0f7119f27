SPECIFICATION ScorersSpec
CONSTANTS
  One = 100
  DecayRate = 1
  SuccessGain = 2
  FailureCost = 5
  ViolationCost = 10
  TrustedAt = 70
  StandardAt = 30
  ScoreWindow <- SmallWindow
  Starts <- NeutralOrPessimistic
  InitialValues <- HighStart
  BaseWeights <- DefaultWeights
  Recorded <- SuccessOrFailure
  Overrides <- HighAndLow
  HandWeights <- LightFailure
  LearningRate = 10
  MaxWeightDelta = 5
  Cooldown = 2
  MaxHours = 3
  MaxEvents = 4
INVARIANTS
  ReplayReproduces
  ScorersAgree
  LearningIsBounded
PROPERTIES
  WeightsActForward
