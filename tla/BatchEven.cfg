CONSTANTS
    v1 = v1
    v2 = v2
    Value = {v1, v2}
    NoValue = NoValue
    NoKey = NoKey
    Key <- FourKeys
    BATCHING_DEGREE = 2
SPECIFICATION Spec
SYMMETRY ValueSymmetry
INVARIANTS
    TypeOK
    WellFormed
PROPERTIES
    ImplementsMap
