SPECIFICATION FairSpec
CONSTANTS
    Thread = {t1, t2}
    Conn = {c1}
    MaxServers = 2
    Port = {p1, p2}
    Tables = 2
    None = None
CHECK_DEADLOCK FALSE
PROPERTY CloseReturns
