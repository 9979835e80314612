SPECIFICATION Spec
CONSTANTS
    k1 = k1
    k2 = k2
    v1 = v1
    v2 = v2
    Nil = Nil
    Key = {k1, k2}
    Val = {v1, v2}
    DB = {0, 1}
    MaxLen = 4
    MaxInt = 5
    Command <- EveryCommand
    Start <- AnyStart
CHECK_DEADLOCK FALSE
INVARIANT MapsAgree
INVARIANT NoNewEmptyList
INVARIANT VersionTellsChange
INVARIANT ErrorsChangeNothing
INVARIANT Conserved
INVARIANT TouchesOnlyItsKeys
INVARIANT PanicsOnlyWhen
INVARIANT DirectLikeCommand
INVARIANT RangeExact
INVARIANT EditsExact
