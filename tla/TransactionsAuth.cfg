SPECIFICATION Spec
CONSTANTS
    k1 = k1
    k2 = k2
    v1 = v1
    Nil = Nil
    Key = {k1}
    Val = {v1}
    DB = {0}
    MaxInt = 3
    Conn = {c1, c2}
    Command <- AuthCommands
    WatchArgs <- WatchOne
    Password = {"", "pw"}
    MaxQueue = 2
    MaxVersion = 2
SYMMETRY ConnSymmetry
CHECK_DEADLOCK FALSE
PROPERTY NoAccessWithoutAuth
