SPECIFICATION Spec
CONSTANTS
    Txns = {t1, t2, t3}
    Cmds = {c1, c2}
    Sizes = {3}
    Astray = Astray
    UncheckedSizes <- Unchecked
    ReadWriteLimit = 3
    InitialCapacity = 1
SYMMETRY Symmetry
VIEW View
INVARIANTS
    PoolSound
    Accounted
PROPERTIES
    SentOnlyUnfinished
    ReclaimSparesOpen
    GrowsOnlyWhenFullOfOpen
    ImplementsLifecycle
