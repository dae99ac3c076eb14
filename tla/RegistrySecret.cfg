SPECIFICATION RegistrySpec
CONSTANTS
    Conns = {c1, c2, c3}
    Ids = {i1}
    Secrets = {s1, s2}
    Clients = {k1, k2, k3}
    MaxAttempts = 2
    NoClient = NoClient
    NoId = NoId
    NoSecret = NoSecret
    NoUser = NoUser
SYMMETRY Symmetry
INVARIANTS
    OneSecretPerId
