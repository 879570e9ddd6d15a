SPECIFICATION FairSpec

CONSTANTS
    Clients = {a1, r1}
    Recovers = {r1}
    a1 = a1
    r1 = r1
    Inodes = {i1, i2, i3}
    i1 = i1
    i2 = i2
    i3 = i3
    NoInode = NoInode
    NoOwner = NoOwner
    RetryLimit = 3
    MaxDeaths = 2

INVARIANTS
    TypeOK
    ExclusiveUntilOwnerDies
    NoFalseAlarmUntilOwnerDies
PROPERTIES
    OperationEnds
    StaleLockIsBroken

\* Every operation ends, and then nothing is left to do.
CHECK_DEADLOCK FALSE
