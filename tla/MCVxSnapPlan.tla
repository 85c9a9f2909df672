---------------------------- MODULE MCVxSnapPlan ----------------------------
(* Instances of VxSnapPlan: two disk groups with one file system each, or    *)
(* one group with two.                                                       *)
EXTENDS VxSnapPlan, TLC

CONSTANTS f1, f2, v1, v2

OneEach == (f1 :> v1) @@ (f2 :> v2)
Together == (f1 :> v1) @@ (f2 :> v1)
InOrder == <<f1, f2>>
=============================================================================
