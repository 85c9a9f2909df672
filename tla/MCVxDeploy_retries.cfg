CONSTANTS
    n1 = n1
    n2 = n2
    d1 = d1
    d2 = d2
    f1 = f1
    f2 = f2
    Nodes = {n1, n2}
    First = n1
    NoNode = NoNode
    Disks = {d1, d2}
    Fs = {f1, f2}
    Contains <- ByName
SPECIFICATION FairSpec
INVARIANTS TypeOK DataDisksKept ItemsStand
PROPERTIES EventuallyBuilt EventuallyRemoved
CHECK_DEADLOCK FALSE
