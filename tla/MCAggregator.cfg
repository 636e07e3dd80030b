SPECIFICATION Spec
CONSTANTS
    Scenarios <- MCScenarios
INVARIANTS
    SecondPersonExact
    IdentityMismatchExact
    LivenessExact
    GazeLadderBounded
    ThresholdExact
    ScoreExact
CHECK_DEADLOCK FALSE
