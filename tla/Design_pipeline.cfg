SPECIFICATION Spec
CONSTANTS
    Clients = {c1, c2}
    Payloads <- MCPayloads
    LevelOf <- MCLevelOf
    Overriding = {"o"}
    Granting = {"g"}
    Gaps = {}
    Orphans = {}
    Reports <- MCReports
    Classes <- MCClasses
    Graphs <- MCGraphs
    BriefOf <- MCBriefOf
    Records <- MCRecords
    Signed <- MCSigned
    MaxDeaths = 1
    MaxRevision = 2
CHECK_DEADLOCK FALSE
INVARIANTS
    TypeOK
    HistoryReplaysUntilFinal
    FeatureChainReplays
    GateBeforePersist
    ReadyIsEarned
PROPERTIES
    ImplementsLadder
    EventuallyApproved
