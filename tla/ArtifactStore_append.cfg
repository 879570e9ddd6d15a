SPECIFICATION Spec

CONSTANTS
    Appenders = {w1, w2, w3}
    w1 = w1
    w2 = w2
    w3 = w3
    Readers = {l1}
    l1 = l1
    Recoverers = {}
    A = A
    B = B
    t1 = t1
    t2 = t2
    x = x
    y = y
    Ids = {A, B}
    Types = {t1}
    Contents = {x, y}
    Drafts <- ManyDrafts
    MaxRevision = 2
    MaxDeaths = 1
    LockIsExclusive = TRUE
    NoClient = NoClient

SYMMETRY Symmetry

INVARIANTS
    TypeOK
    StoreReadable
    ReturnedIsCommitted
    ReadIsConsistent
PROPERTIES
    ImplementsRevisionLog
    StoredIsNeverRefused

\* Every operation ends, and then nothing is left to do.
CHECK_DEADLOCK FALSE
