----------------------------- MODULE MCVxDeploy -----------------------------
EXTENDS VxDeploy

CONSTANTS n1, n2, d1, d2, f1, f2

ByName == {<<d, d>> : d \in Disks}
=============================================================================
