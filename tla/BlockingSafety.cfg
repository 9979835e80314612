SPECIFICATION Spec
CONSTANTS
    k1 = k1
    k2 = k2
    e1 = e1
    e2 = e2
    SetKey = SetKey
    Conn = {c1, c2, c3}
    Key = {k1, k2}
    Elem = {e1, e2}
    Request <- SafetyRequests
SYMMETRY ConnSymmetry
CHECK_DEADLOCK FALSE
INVARIANT TypeOK
INVARIANT LockHandOff
INVARIANT OneReply
INVARIANT EachElementOnce
INVARIANT ServedUnlessSilent
PROPERTY ImplementsService
