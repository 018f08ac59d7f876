CONSTANTS
    v1 = v1
    v2 = v2
    Value = {v1, v2}
    NoValue = NoValue
    NoKey = NoKey
    Key <- FiveKeys
    BATCHING_DEGREE = 3
SPECIFICATION Spec
SYMMETRY ValueSymmetry
INVARIANTS
    WellFormed
PROPERTIES
    ImplementsMap
