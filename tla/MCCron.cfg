SPECIFICATION FairSpec
CONSTANTS
    Schedulers = {s1, s2}
    Jobs = {j1, j2}
    Schedules = {hourly, bad}
    Valid = {hourly}
    Payloads = {p1}
    ChanCap = 1
    MaxEdits = 2
    Faults <- AllFaults
    None = None
INVARIANTS
    TypeOK
    OneLeader
    SchedulesConverged
PROPERTIES
    Takeover
