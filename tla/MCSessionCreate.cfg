SPECIFICATION Spec
CONSTANTS
    Account = {a1}
    Char = {p, q}
    Slot = {0, 1}
    Server = {s1}
    Ti = {t1, t2}
    Conn = {c1, c2, c3}
    NoAccount = NoAccount
    NoChar = NoChar
    NoServer = NoServer
    NoTi = NoTi
    NoConn = NoConn
    Free = Free
    ClientOps = {"create"}
    EarlyClients = FALSE
    MaxVer = 0
    MaxQueue = 2
SYMMETRY Symmetry
INVARIANTS PlayedCharExists UniqueChar
