CONSTANTS
    Offerer = offerer
    Answerer = answerer
    Conns <- MCConns
    Capacity = 2
    Kinds = {"lab", "portal"}
    MaxCandidates = 2
SPECIFICATION Spec
CHECK_DEADLOCK FALSE
INVARIANTS
    TypeOK
    OnlyOthersCandidates
    QuietIsComplete
PROPERTIES
    LabPeersExit
