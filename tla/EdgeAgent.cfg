CONSTANTS
    Dogs = {a, b}
    None = None
    MaxInvites = 2
    MaxSessions = 2
    MaxLosses = 1
    MaxSwitches = 1
SPECIFICATION Spec
INVARIANTS
    TypeOK
    ShowsWhatItHolds
    InSessionWasAgreed
    NoOtherSession
    LureNeedsDog
