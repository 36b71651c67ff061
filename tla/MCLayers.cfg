SPECIFICATION Spec
CONSTANTS
    o1 = o1
    o2 = o2
    o3 = o3
    d1 = d1
    d2 = d2
    p1 = p1
    p2 = p2
    Ops = {o1, o2, o3}
    Home <- TwoProcesses
    Inputs <- MCInputs
    Refs <- MCRefs
    Digests = {d1, d2}
    Files = {f1}
    Faults <- Crashes
    Absent = Absent
    Garbled = Garbled
    None = None
INVARIANTS
    TypeOK
    IndexedIsComplete
    AckedStaysIndexed
    CrashIsHarmless
