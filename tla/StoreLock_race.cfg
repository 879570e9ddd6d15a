SPECIFICATION Spec

CONSTANTS
    Clients = {a1, a2, a3}
    Recovers = {}
    a1 = a1
    a2 = a2
    a3 = a3
    Inodes = {i1, i2, i3, i4}
    i1 = i1
    i2 = i2
    i3 = i3
    i4 = i4
    NoInode = NoInode
    NoOwner = NoOwner
    RetryLimit = 3
    MaxDeaths = 1

SYMMETRY Symmetry

INVARIANTS
    Exclusive

\* Every operation ends, and then nothing is left to do.
CHECK_DEADLOCK FALSE
