SPECIFICATION FairSpec
CONSTANTS
    u1 = u1
    u2 = u2
    r1 = r1
    r2 = r2
    r3 = r3
    ceo = ceo
    architect = architect
    Registry <- Actors
    Publishers = {u1}
    PlanCount = 2
    ItemCount = 2
    Approvals <- SignedTwice
    MaxRevision = 4
    MaxIssues = 5
    MaxFaults = 1
    MaxEdits = 1
INVARIANTS
    TypeOK
    AtMostOneIssue
    HistoryReadable
    MappedToOwn
PROPERTIES
    WrittenOnce
    EventuallyPublished
