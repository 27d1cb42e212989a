SPECIFICATION AllSpec
CONSTANTS
    MbSize = 5
    BufSize = 2
    MaxCon = 2
    TmpSize = 2
    SendSize = 2
    LineMax = 1
    Inside <- MCInside
    MaxFaults = 1
    MaxSlot = 3
    Name = {n1, n2}
CHECK_DEADLOCK FALSE
INVARIANTS
    TypeOK PoolExact  LineWhole
    SlotTypes OneServerPerName LocksHaveServer
PROPERTIES ClosedIsFreed 
