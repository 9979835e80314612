SPECIFICATION Spec
CONSTANTS
    k1 = k1
    k2 = k2
    v1 = v1
    v2 = v2
    Nil = Nil
    Key = {k1, k2}
    Val = {v1, v2}
    Arr = {a1, a2, a3, a4}
    MaxCap = 3
    MaxInt = 3
    Index <- Indexes
SYMMETRY Symmetric
CHECK_DEADLOCK FALSE
INVARIANT TypeOK
INVARIANT Unshared
PROPERTY ImplementsLists
PROPERTY HeldOnlyOverwritten
