SPECIFICATION Spec
CONSTANTS
    Account = {a1}
    Char = {p}
    Slot = {0}
    Server = {s1, s2}
    Ti = {t1, t2, t3}
    Conn = {c1, c2}
    NoAccount = NoAccount
    NoChar = NoChar
    NoServer = NoServer
    NoTi = NoTi
    NoConn = NoConn
    Free = Free
    ClientOps = {}
    EarlyClients = FALSE
    MaxVer = 1
    MaxQueue = 2
SYMMETRY Symmetry
INVARIANTS PlayingHoldsLock OneSession SaveByHolder
PROPERTY NoRollback
