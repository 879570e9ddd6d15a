SPECIFICATION FairSpec

CONSTANTS
    Appenders = {w1, w2}
    w1 = w1
    w2 = w2
    Readers = {}
    Recoverers = {r1, r2}
    r1 = r1
    r2 = r2
    A = A
    B = B
    t1 = t1
    t2 = t2
    x = x
    y = y
    Ids = {A}
    Types = {t1}
    Contents = {x, y}
    Drafts <- OneDraft
    MaxRevision = 2
    MaxDeaths = 1
    LockIsExclusive = FALSE
    NoClient = NoClient

INVARIANTS
    TempsAccounted
PROPERTIES
    LiveTempsKept
    RecoverSweeps

\* Every operation ends, and then nothing is left to do.
CHECK_DEADLOCK FALSE
