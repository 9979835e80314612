SPECIFICATION Spec
CONSTANTS
    k1 = k1
    k2 = k2
    v1 = v1
    Nil = Nil
    Key = {k1}
    Val = {v1}
    DB = {0, 1}
    MaxInt = 3
    Conn = {c1, c2}
    Command <- MoveCommands
    WatchArgs <- WatchOne
    Password = {""}
    MaxQueue = 1
    MaxVersion = 2
SYMMETRY ConnSymmetry
CHECK_DEADLOCK FALSE
INVARIANT TypeOK
INVARIANT VersionWitness
INVARIANT RefusedIffSpoiled
PROPERTY ExecOnWatchedValues
PROPERTY NoWatchLeftBehind
