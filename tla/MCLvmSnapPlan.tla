---------------------------- MODULE MCLvmSnapPlan ----------------------------
(* Instances of LvmSnapPlan: a peer with two file systems, and the MS with   *)
(* one from its kickstart.                                                   *)
EXTENDS LvmSnapPlan, TLC

CONSTANTS n1, a1, a2, b

Homes == (a1 :> n1) @@ (a2 :> n1) @@ (b :> Ms)
Twins == Permutations({a1, a2})
PeersFirst == (n1 :> 1) @@ (Ms :> 2)
=============================================================================
