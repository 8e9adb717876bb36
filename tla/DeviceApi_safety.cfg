CONSTANTS
    None = None
    d1 = d1
    d2 = d2
    h1 = h1
    h2 = h2
    Dogs = {d1, d2}
    Handlers = {h1, h2}
    Ops <- CallOps
    Bonds <- AllBonds
    HasPool = TRUE
    DefaultPolicy <- OddPolicy
    Limits <- NoLimits
    RingTimeout = 1
    MaxTime = 1
    MaxInvites = 3
    MaxSessions = 2
    MaxRestarts = 1
    MaxRequests = 4
SPECIFICATION Spec
SYMMETRY Symmetry
INVARIANTS
    TypeOK
    NoSharedDog
    ExtensionsWithinMax
    RateOvershootBounded
PROPERTIES
    RowsCoverLive
    KeepsCallBook
