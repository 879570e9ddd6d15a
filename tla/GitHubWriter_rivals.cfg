SPECIFICATION Spec
CONSTANTS
    u1 = u1
    u2 = u2
    r1 = r1
    r2 = r2
    r3 = r3
    ceo = ceo
    architect = architect
    Registry <- Actors
    Publishers = {u1, u2}
    PlanCount = 2
    ItemCount = 1
    Approvals <- Distinct
    MaxRevision = 3
    MaxIssues = 3
    MaxFaults = 1
    MaxEdits = 0
SYMMETRY Rivals
INVARIANTS
    HistoryReadable
PROPERTIES
    StaysComplete
