SPECIFICATION Spec
CONSTANTS
    Replicas = {g1}
    Writers = {w1, w2}
    Initial = v0
    Absent = Absent
    Backends <- PostgresOnly
    ChanCap = 3
    MaxConcurrent = 2
    Faults <- NoFaults
INVARIANTS
    NeverLeftBehind
