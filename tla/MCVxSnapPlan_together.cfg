CONSTANTS
    f1 = f1
    f2 = f2
    v1 = v1
    v2 = v2
    Nodes = {n1, n2}
    Members = {n1, n2}
    VGs = {v1}
    FSs = {f1, f2}
    VgOf <- Together
    Scan <- InOrder
    NoNode = NoNode
    Action = "restore"
    MayForce = TRUE
SPECIFICATION Spec
INVARIANT RestoredTogether
