SPECIFICATION Spec
CONSTANTS
    Requests = {r1, r2, r3}
    Updaters = {u1}
    Sizes <- MCSizes
    DefaultMaxConcurrency = 2
    None = None
SYMMETRY Symmetry
VIEW Uncounted
INVARIANTS
    TypeOK
    Capacity
    Exclusive
    NotReapedInUse
    MappedPoolIsFresh
    Accounted
