SPECIFICATION Spec
CONSTANTS
    Requests = {r1, r2}
    Contacts = {c1}
    Agents = {a1}
    CampaignIds = {m1}
    MaxLaunches = 2
    MaxAudience = 2
    Faults = TRUE
SYMMETRY Symmetry
INVARIANTS
    LaunchedHasSessions
    OneUnrecordedCall
    AuditCountsSessions
    NoGhostCalls
