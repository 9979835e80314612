SPECIFICATION Spec
CONSTANTS
    k1 = k1
    k2 = k2
    e1 = e1
    e2 = e2
    SetKey = SetKey
    Conn = {c1, c2, c3}
    Key = {k1, k2}
    Elem = {e1, e2}
    Request <- MoveRequests
CHECK_DEADLOCK FALSE
INVARIANT NoLostWakeup
