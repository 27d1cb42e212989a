SPECIFICATION FairSpec
CONSTANTS
    MAXWK = 3
    Request = {r1, r2, r3}
    NoRequest = NoRequest
INVARIANTS TypeOK OwnConnections CalledBackInTwoTurns 
  
