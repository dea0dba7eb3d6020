CONSTANTS
    k1 = k1
    k2 = k2
    c1 = c1
    c2 = c2
    loop = loop
    nokey = nokey
    NoKey = nokey
    Keys <- MCOneKey
    Operational <- MCOneKey
    Clients <- MCClients
    Loop = loop
    Ttl = 1
    MaxLag = 0
    MaxGen = 1
    Failures = TRUE
    Disconnects = TRUE
SPECIFICATION Spec
PROPERTY Coalesces
PROPERTY Answered
CHECK_DEADLOCK FALSE
