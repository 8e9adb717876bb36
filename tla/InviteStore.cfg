CONSTANTS
    None = None
    Ok = Ok
    Busy = Busy
    t1 = t1
    t2 = t2
    d1 = d1
    d2 = d2
    i1 = i1
    i2 = i2
    Threads = {t1, t2}
    Dogs = {d1, d2}
    Ids = {i1, i2}
    Instants = {0, 1}
SPECIFICATION FairSpec
PROPERTIES
    CallsReturn
    Linearizable
INVARIANTS
    TypeOK
    OneInvitePerDog
    MapsAgree
