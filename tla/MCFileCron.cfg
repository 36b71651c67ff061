SPECIFICATION FairSpec
CONSTANTS
    c1 = c1
    c2 = c2
    Commands = {c1, c2}
    Daemon = d
    Plans <- MCPlans
    Jobs <- MCJobs
    Files <- MCFiles
    Period = 2
    Faults <- Crashes
    MaxSignals = 2
    MaxStarts = 2
    MaxFires = 1
    Absent = Absent
    Garbled = Garbled
    Invalid = Invalid
    None = None
INVARIANTS
    TypeOK
    AckedStays
    FailureHasCause
    SettledStaysScheduled
PROPERTY
    HupTakesEffect
CHECK_DEADLOCK FALSE
