SPECIFICATION StatusSpec
CONSTANTS
    Loops = {l1, l2}
    Waiters = {w1}
    NoLoop = NoLoop
    MaxInbox = 2
    Handlers = {h1, h2}
    NoHandler = NoHandler
    CheckLoop = l1
    CheckWaiter = w1
INVARIANTS
    StatusTypeOK
    TunnelsServed
    PingsCounted
    ReadyMeansConnected
PROPERTIES
    
    CloseEndsLoops
    WaitEnds
    ChecksEnd
CHECK_DEADLOCK FALSE
