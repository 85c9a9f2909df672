---------------------------- MODULE MCVxSnapAgent ----------------------------
(* Instances of VxSnapAgent: the deployment snapshot of a file system, whose *)
(* name L_fs_ starts the name L_fs_tag of its named snapshot.                *)
EXTENDS VxSnapAgent

CONSTANTS dep, named

Names == {<<dep, dep>>, <<named, named>>, <<named, dep>>}
=============================================================================
