SPECIFICATION FairSpec
CONSTANTS
    Tasks = {t1, t2}
    MaxChunks = 1
    MaxDials = 1
    MaxFrames = 2
PROPERTIES
    OrphanFramesTaken
CHECK_DEADLOCK FALSE
