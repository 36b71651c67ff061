SPECIFICATION QuotaSpec
CONSTANTS
    g1 = g1
    c1 = c1
    c2 = c2
    Gateways = {g1}
    Callers = {c1, c2}
    GatewayOf <- OneGateway
    Limit = 2
    MaxMinute = 1
    MaxTotal = 6
    Unsynced = {g1}
    Faults <- AllFaults
SYMMETRY SameCallers
INVARIANTS
    OvershootBound
    Conserved
