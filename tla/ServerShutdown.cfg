SPECIFICATION MCFairSpec
CONSTANTS
    Conns = {c1, c2}
    Requests = {r1}
    Ids = {i1}
    Secrets = {s1}
    Clients = {k1, k2}
    MaxAttempts = 2
    MaxAccepted = 2
    NoClient = NoClient
    NoTunnel = NoTunnel
    NoId = NoId
    NoSecret = NoSecret
    NoUser = NoUser
PROPERTIES
    ShutdownEnds
CHECK_DEADLOCK FALSE
