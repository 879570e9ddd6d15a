SPECIFICATION Safety
CONSTANTS
    Clients = {c1, c2}
    Payloads <- MCPayloads
    LevelOf <- MCLevelOf
    Overriding = {"o"}
    Granting = {"g"}
    Gaps = {}
    Orphans = {}
    Reports <- MCReports
    Classes <- MCClasses
    Graphs <- MCGraphs
    BriefOf <- MCBriefOf
    Records <- MCRecords
    Signed <- MCSigned
    MaxDeaths = 0
    MaxRevision = 2
CHECK_DEADLOCK FALSE
INVARIANT HistoryReplays
