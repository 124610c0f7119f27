SPECIFICATION Spec
CONSTANTS
    Names = {"a", "b"}
    Bound = "a"
    Configured <- MCConfigured
    AlgorithmOf <- MCAlgorithmOf
    Emits = {e1, e2}
    TTL = 2
    MaxTime = 2
    MaxStamps = 6
    MaxFailures = 1
    MaxSinkFailures = 1
    MaxCrashes = 1
INVARIANTS
    KeyFollowsSource
    TrustInEventsIsRecent
    EventsAreKept

    
CONSTRAINT OneOfThree
SYMMETRY MCEmits
CHECK_DEADLOCK FALSE
