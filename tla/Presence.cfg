CONSTANTS
    None = None
    Enter = 2
    Exit = 3
    Cap = 3
    Every = 2
    TTL = 5
    Delay = 1
    MaxSkew = 1
    MaxSeq = 3
SPECIFICATION FairSpec
INVARIANTS
    TypeOK
    SeenWasThere
PROPERTIES
    FlipsHeld
    ThereIsSeen
    GoneIsUnseen
