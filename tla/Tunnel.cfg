SPECIFICATION FairSpec
CONSTANTS
    Tasks = {t1}
    MaxChunks = 3
    MaxDials = 2
    MaxFrames = 3
INVARIANTS
    TypeOK
    LocalStreamWhole
    
PROPERTIES
    LocalEndsWithPublic
    PublicEndsWithLocal
CHECK_DEADLOCK FALSE
