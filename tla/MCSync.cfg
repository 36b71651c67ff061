SPECIFICATION FairSpec
CONSTANTS
    Replicas = {g1, g2}
    Writers = {w1, w2}
    Initial = v0
    Absent = Absent
    Backends <- BothStores
    ChanCap = 1
    MaxConcurrent = 2
    Faults <- AllFaults
INVARIANTS
    TypeOK
    NoPhantom
    Converged
PROPERTIES
    EventuallyMirrored
