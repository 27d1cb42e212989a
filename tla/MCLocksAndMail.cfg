SPECIFICATION AllSpec
CONSTANTS
    a1 = a1
    a2 = a2
    a3 = a3
    s1 = s1
    s2 = s2
    Account = {a1, a2, a3}
    Server = {s1, s2}
    EmptyId = EmptyId
    Free = Free
    Bucket = {0, 1}
    HashOf <- MCHash
    GrowBy = 2
    MaxNodes = 4
    Player = {"ann", "bob"}
    g1 = g1
    g2 = g2
    GameServer = {g1, g2}
    MaxLetter = 2
    From <- MCFrom
    To <- MCTo
    Dir <- MCDir
    MaxFlush = 1
    Starts <- MCStarts
    MaxLogins = 1
    MaxStops = 1
CHECK_DEADLOCK FALSE
INVARIANTS TypeOK OneNodePerAccount MailTypes  SettledSeenOnce
PROPERTIES ImplementsLockMap  KeptIsSeen
