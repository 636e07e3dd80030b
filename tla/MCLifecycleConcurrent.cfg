CONSTANTS
    Requests = {r1, r2, r3}
    MaxBegun = 6
SPECIFICATION LifeSpec
CHECK_DEADLOCK FALSE
INVARIANT
    TerminatedHasRecord
SYMMETRY HandlerSymmetry
PROPERTY
    OnlyStaleMovesIllegal
