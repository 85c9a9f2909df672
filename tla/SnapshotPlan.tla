--------------------------- MODULE SnapshotPlan ---------------------------
(***************************************************************************)
(* What the user of a snapshot plan may rely on, whichever driver plans    *)
(* it: every item (a file system's snapshot, a node's copy of grub.cfg)    *)
(* has one task, which comes when the tasks before it are done, changes    *)
(* this item alone, and leaves it as the plan demands or ends the plan;    *)
(* and a plan that is done has come to every item.                         *)
(***************************************************************************)
CONSTANTS
    Items,
    Before,    \* <<x, y>>: the task of x comes before the one of y
    Lenient,   \* <<kind, mode>> of the plans that may pass an item over
    Consumes   \* does a restore use up the snapshot?

VARIABLES
    snap,  \* snap[x]: no snapshot of x, one that is kept, or one spent on a
           \* restore that is still to be completed
    todo,  \* items whose task is to come
    kind,  \* what the last plan does
    mode,  \* careful or forced
    ended  \* "no" while a plan runs, else how it ended ("idle" after a while)

vars == <<snap, todo, kind, mode, ended>>

TypeOK == /\ snap \in [Items -> {"none", "kept", "spent"}]
          /\ todo \subseteq Items
          /\ kind \in {"none", "create", "remove", "restore"}
          /\ mode \in {"careful", "forced"}
          /\ ended \in {"no", "idle", "done", "failed"}

\* What a plan leaves of a snapshot v that its task has come to.
Goal(v) == CASE kind = "create" -> {"kept"}
             [] kind = "remove" -> IF Consumes /\ v = "spent" THEN {} ELSE {"none"}
             [] kind = "restore" -> IF v = "kept" THEN {"spent", "none"} ELSE {v}
             [] OTHER -> {}

Effect(x) == \E v \in Goal(snap[x]) : snap' = [snap EXCEPT ![x] = v]

Turn(x) == ended = "no" /\ x \in todo /\ \A y \in todo : <<y, x>> \notin Before

\* The last task may end the plan.
Go(x) == /\ todo' = todo \ {x} /\ UNCHANGED <<kind, mode>>
         /\ ended' = "no" \/ (ended' = "done" /\ todo' = {})

Begin == /\ ended # "no" /\ ended' = "no" /\ todo' = Items
         /\ kind' \in {"create", "remove", "restore"}
         /\ mode' \in {"careful", "forced"} /\ UNCHANGED snap

\* The plan is not even made.
Refuse == /\ ended # "no" /\ ended' = "failed"
          /\ kind' \in {"create", "remove", "restore"}
          /\ mode' \in {"careful", "forced"} /\ UNCHANGED <<snap, todo>>

Act(x) == Turn(x) /\ Effect(x) /\ Go(x)
PassOver(x) == Turn(x) /\ <<kind, mode>> \in Lenient /\ UNCHANGED snap /\ Go(x)

\* The plan fails, and leaves the item whose turn it is as it was or not.
Break == /\ ended = "no" /\ ended' = "failed" /\ todo' = {}
         /\ UNCHANGED snap \/ \E x \in Items : Turn(x) /\ Effect(x)
         /\ UNCHANGED <<kind, mode>>

Finish == /\ ended = "no" /\ todo = {} /\ ended' = "done"
          /\ UNCHANGED <<snap, todo, kind, mode>>

\* A restore completes beside the plans.
Settle(x) == /\ snap[x] = "spent"
             /\ snap' = [snap EXCEPT ![x] = IF Consumes THEN "none" ELSE "kept"]
Around == /\ UNCHANGED snap \/ \E x \in Items : Settle(x)
          /\ ended' = ended \/ (ended # "no" /\ ended' = "idle")
          /\ UNCHANGED <<todo, kind, mode>>

Init == /\ snap \in [Items -> {"none", "kept", "spent"}]
        /\ \/ ended = "done" /\ todo = {} /\ kind = "none"
           \/ ended = "no" /\ todo = Items /\ kind \in {"create", "remove", "restore"}
        /\ mode \in {"careful", "forced"}

Next == \/ Begin \/ Refuse \/ Break \/ Finish \/ Around
        \/ \E x \in Items : Act(x) \/ PassOver(x)
Spec == Init /\ [][Next]_vars

-----------------------------------------------------------------------------
\* A plan that was to pass over nothing and is done left every item as it had
\* to: kept after a create, none after a removal, used after a restore.
Whole == ended = "done" /\ kind # "none" /\ <<kind, mode>> \notin Lenient =>
           \A x \in Items :
             /\ kind = "create" => snap[x] = "kept"
             /\ kind = "remove" => snap[x] = "none"
             /\ kind = "restore" /\ Consumes => snap[x] # "kept"
=============================================================================
