SPECIFICATION Spec
CONSTANTS
    NoBound = NoBound
    MaxValue = 3
    MaxLength = 6
    MaxSplits = 4
INVARIANTS
    SplitsAreEven
    EstimatesShrink
PROPERTIES
    ComposableWithoutRepetition
CHECK_DEADLOCK FALSE
