SPECIFICATION Spec
CONSTANTS
    c1 = c1
    c2 = c2
    k1 = k1
    Commands = {c1, c2}
    Gateway = gw
    Plans <- MCPlans
    Projects = {"default", "a", "b"}
    Keys = {k1}
    Names = {"f"}
    Scopes = {"invoke", "deploy"}
    Limits = {1}
    Legacy <- InProjectA
    LegacyJobs <- JobsInB
    Backends <- BothBackends
    Faults <- MCFaults
    None = None
    Configs <- MCConfigs
    Calls = {q1}
    CallInputs <- MCCalls
    Admins = {a1}
    AdminInputs <- MCAdmins
    Secret = Secret
VIEW Relevant
INVARIANTS
    TypeOK
    ReferencesHold
    FailedStartHarmsNobody
    RevokedKeysAreDead
    CallsStayInProject
CHECK_DEADLOCK FALSE
