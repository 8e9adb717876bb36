CONSTANTS
    None = None
    d1 = d1
    d2 = d2
    h1 = h1
    h2 = h2
    Dogs = {d1, d2}
    Handlers = {h1, h2}
    Ops <- StopOps
    Bonds <- AllBonds
    HasPool = TRUE
    DefaultPolicy <- LongPolicy
    Limits <- NoLimits
    RingTimeout = 1
    MaxTime = 0
    MaxInvites = 1
    MaxSessions = 1
    MaxRestarts = 0
    MaxRequests = 3
SPECIFICATION Spec
SYMMETRY Symmetry
PROPERTIES
    AcceptRevalidates
