SPECIFICATION Spec
CONSTANTS
    Procs = {p1, p2}
    Keys = {k1, k2}
    Values = {v1, v2}
    Entries = {1, 2, 3, 4, 5, 6}
    Absent = Absent
    NoCall = NoCall
    NoAnswer = NoAnswer
    NoEffect = NoEffect
    Nil = Nil
    Expunged = Expunged
    NoEntry = NoEntry
    NoMap = NoMap
    NoProc = NoProc
VIEW Reachable
SYMMETRY Symmetry
INVARIANTS
    TypeOK
    MapsAgree
PROPERTIES
    Linearizable
