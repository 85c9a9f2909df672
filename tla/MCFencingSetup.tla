--------------------------- MODULE MCFencingSetup ---------------------------
(* Three fencing disks; the name of the third contains that of the first.   *)
EXTENDS FencingSetup

MCContains == {<<d, d>> : d \in 1 .. 3} \cup {<<3, 1>>}
=============================================================================
