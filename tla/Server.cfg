SPECIFICATION MCSpec
CONSTANTS
    Conns = {c1, c2}
    Requests = {r1, r2}
    Ids = {i1}
    Secrets = {s1}
    Clients = {k1, k2}
    MaxAttempts = 2
    MaxAccepted = 3
    NoClient = NoClient
    NoTunnel = NoTunnel
    NoId = NoId
    NoSecret = NoSecret
    NoUser = NoUser
SYMMETRY Symmetry
INVARIANTS
    ServerTypeOK
    TasksCountExact
    AccountsBalance
    CountTestSound
CHECK_DEADLOCK FALSE
