SPECIFICATION FairSpec
CONSTANTS
    n1 = n1
    n2 = n2
    n3 = n3
    k1 = k1
    k2 = k2
    Calls = {c1, c2}
    Procs = {p1, p2}
    Names = {n1, n2, n3}
    Keys = {k1, k2}
    Key <- MCKey
    Archives <- MCArchives
    MountLists <- MCMountLists
    MaxMounts = 3
    Faults <- AllFaults
    Absent = Absent
    None = None
INVARIANTS
    TypeOK
PROPERTIES
    RefinesLayerCache
    EveryCallAnswered
