CONSTANTS
    k1 = k1
    k2 = k2
    c1 = c1
    c2 = c2
    loop = loop
    nokey = nokey
    NoKey = nokey
    Keys <- MCKeys
    Operational <- MCKeys
    Clients <- MCClients
    Loop = loop
    Ttl = 1
    MaxLag = 1
    MaxGen = 2
    Failures = FALSE
    Disconnects = FALSE
SPECIFICATION SafetySpec
INVARIANT TypeOK
INVARIANT StaleOnlyAfterFailure
INVARIANT CycleLeavesNewest
PROPERTY OneLoadPerBurst
CHECK_DEADLOCK FALSE
SYMMETRY MCSymmetry
