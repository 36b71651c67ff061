SPECIFICATION FairSpec
CONSTANTS
    Callers = {c1, c2}
    Closer = closer
    Modes = {"process", "runc"}
    Faults <- AllFaults
    None = None
INVARIANTS
    TypeOK
    OwnReply
    FailedStartCleansUp
PROPERTIES
    CloseCompletes
    InvokeReturns
CHECK_DEADLOCK FALSE
