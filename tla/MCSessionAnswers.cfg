SPECIFICATION Spec
CONSTANTS
    Account = {a1, a2}
    Char = {p}
    Slot = {0}
    Server = {s1}
    Ti = {t1}
    Conn = {c1, c2}
    NoAccount = NoAccount
    NoChar = NoChar
    NoServer = NoServer
    NoTi = NoTi
    NoConn = NoConn
    Free = Free
    ClientOps = {"list", "create", "delete", "gm"}
    EarlyClients = FALSE
    MaxVer = 0
    MaxQueue = 2
SYMMETRY Symmetry
INVARIANTS TypeOK AnswerFitsState
