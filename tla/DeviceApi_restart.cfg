CONSTANTS
    None = None
    d1 = d1
    d2 = d2
    h1 = h1
    h2 = h2
    Dogs = {d1, d2}
    Handlers = {h1, h2}
    Ops <- CrashOps
    Bonds <- AllBonds
    HasPool = TRUE
    DefaultPolicy <- LongPolicy
    Limits <- NoLimits
    RingTimeout = 1
    MaxTime = 0
    MaxInvites = 2
    MaxSessions = 2
    MaxRestarts = 1
    MaxRequests = 5
SPECIFICATION Spec
SYMMETRY Symmetry
PROPERTIES
    RestartKeepsSessions
