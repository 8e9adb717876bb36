CONSTANTS
    None = None
    t1 = t1
    t2 = t2
    d1 = d1
    d2 = d2
    d3 = d3
    i1 = i1
    i2 = i2
    Threads = {t1, t2}
    Dogs = {d1, d2, d3}
    Ids = {i1, i2}
    Instants = {0, 1}
SPECIFICATION Spec
SYMMETRY Symmetry
INVARIANTS
    TypeOK
    OneSessionPerDog
    IndexExact
    MediaExact
    ReadyIsActive
    ActiveWasReady
    AnswersRight
    NoDeadlock
PROPERTIES
    Linearizable
