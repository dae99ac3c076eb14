SPECIFICATION Spec
CONSTANTS
    Days = 2
    MaxGen <- MCMaxGen
    Radix = 4
    RotationCount = 2
    MaxFaults = 1
INVARIANTS
    LogTypeOK
    
    
    PurgeBounded
