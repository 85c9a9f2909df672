---------------------------- MODULE LvmSnapPlan ----------------------------
(***************************************************************************)
(* Plans that create, remove and restore the deployment snapshots of the   *)
(* LVM file systems of all nodes and of the management server (MS), with   *)
(* the copy of grub.cfg that belongs to them.  A plan runs its checks, the *)
(* tasks of one node after the other (each node's grub task last), and     *)
(* after a restore the restarts.  Any call may fail, with or without its   *)
(* effect, and stops the plan; the user then goes on with another plan.    *)
(***************************************************************************)
EXTENDS Naturals, Sequences

CONSTANTS
    Peers, Ms,     \* the nodes with LVM file systems, and the MS
    LVs, NodeOf,   \* snapshots, one per file system, and their node
    Kickstart,     \* those of MS file systems that are not modelled
    Rank,          \* the order in which the plan comes to the nodes
    RestartFirst,  \* do the peers restart before the MS is restored?
    MayForce       \* may the user force a plan (-f)?

Nodes == Peers \cup {Ms}

ASSUME LvmAssumption ==
    /\ Ms \notin Peers
    /\ NodeOf \in [LVs -> Nodes]
    /\ LVs \cap Nodes = {}
    /\ \A n \in Peers : \E l \in LVs : NodeOf[l] = n
    /\ Kickstart \subseteq {l \in LVs : NodeOf[l] = Ms}
    /\ Rank \in [Nodes -> Nat]
    /\ \A n \in Peers : Rank[n] < Rank[Ms]
    /\ \A n, m \in Peers : Rank[n] = Rank[m] => n = m
    /\ RestartFirst \in BOOLEAN /\ MayForce \in BOOLEAN

VARIABLES
    reach,    \* nodes that answer pings and calls
    lv,       \* snapshots: absent, valid, invalid, or a merge that waits for
              \* the next activation (pending) or runs (merging)
    changed,  \* file systems (by their snapshot) and grub files (by their
              \* node) that differ from when the snapshot was made
    backup,   \* nodes with a grub.cfg.backup
    item,     \* the snapshot in the model: none, partial or made
    action,   \* the action of the last plan
    forced,   \* was it forced?
    calm,     \* do the nodes keep still while it runs?
    checks,   \* check tasks to come, in order
    lvs,      \* snapshots whose task is still to come
    grubs,    \* nodes whose grub task is still to come
    restarts, \* restarts to come
    skipped,  \* nodes a task of a forced plan left out, as unreachable
    ended,    \* "no" while a plan runs, else how the last one ended ("idle" after a while)
    why       \* what the error of a failed plan says

system == <<reach, lv, changed, backup>>
todo == <<checks, lvs, grubs, restarts>>
status == <<item, action, forced, calm, ended, why>>
vars == <<system, todo, status, skipped>>

Merges == {"pending", "merging"}
Listed(l) == lv[l] \in {"valid", "invalid"}

TypeOK == /\ reach \subseteq Nodes
          /\ lv \in [LVs -> {"absent", "valid", "invalid"} \cup Merges]
          /\ changed \subseteq LVs \cup Nodes
          /\ backup \subseteq Nodes
          /\ item \in {"none", "partial", "made"}
          /\ action \in {"none", "create", "remove", "restore"}
          /\ forced \in BOOLEAN /\ (forced => MayForce) /\ calm \in BOOLEAN
          /\ checks \in Seq({"reach", "merging", "exist", "valid"})
          /\ lvs \subseteq LVs /\ grubs \subseteq Nodes
          /\ restarts \subseteq {"peers", "ms"}
          /\ skipped \subseteq Nodes /\ (skipped # {} => forced)
          /\ ended \in {"no", "idle", "done", "failed"}
          /\ why \in {"", "unreachable", "missing", "invalid", "error"}

-----------------------------------------------------------------------------
\* Plans: which tasks they consist of, and whose turn it is.

Checks(a, f) == CASE a = "remove" /\ ~f -> <<"reach", "merging">>
                  [] a = "remove" /\ f -> <<"merging">>
                  [] a = "restore" /\ ~f -> <<"exist", "valid">>
                  [] a = "restore" /\ f -> <<"valid">>
                  [] OTHER -> <<>>

Start(a, f) ==
    /\ ended # "no" /\ ended' = "no" /\ why' = ""
    /\ f => MayForce /\ a # "create"
    /\ action' = a /\ forced' = f /\ calm' \in BOOLEAN
    /\ checks' = Checks(a, f) /\ lvs' = LVs /\ grubs' = Nodes
    /\ restarts' = IF a = "restore" THEN {"peers", "ms"} ELSE {}
    /\ skipped' = {}
    /\ UNCHANGED system

Create == item = "none" /\ Start("create", FALSE) /\ item' = "partial"
Remove(f) == item # "none" /\ Start("remove", f) /\ UNCHANGED item

\* A restore is only planned when lvs lists a valid snapshot of every MS file
\* system that is not modelled, forced or not.
Restore(f) == /\ item = "made"
              /\ \A l \in Kickstart : lv[l] = "valid"
              /\ Start("restore", f) /\ UNCHANGED item
NoRestorePlan(f) ==
    /\ item = "made" /\ ended # "no" /\ (f => MayForce)
    /\ \/ \E l \in Kickstart : lv[l] = "invalid" /\ why' = "invalid"
       \/ /\ \E l \in Kickstart : ~Listed(l)
          /\ \A l \in Kickstart : lv[l] # "invalid"
          /\ why' = "missing"
    /\ action' = "restore" /\ ended' = "failed" /\ forced' = f /\ calm' = TRUE
    /\ skipped' = {}
    /\ UNCHANGED <<system, todo, item>>

\* The task raises, and the plan stops without its other tasks.
Fail(reason) == /\ ended' = "failed" /\ why' = reason
                /\ checks' = <<>> /\ lvs' = {} /\ grubs' = {} /\ restarts' = {}
                /\ skipped' = {}
                /\ UNCHANGED <<item, action, forced, calm>>

Proceed == UNCHANGED <<item, action, forced, calm, ended, why>>

\* Mutant of NodeTurn: the nodes do not wait for each other.
NodeTurnAny(n) == checks = <<>> /\ (n = Ms /\ RestartFirst => "peers" \notin restarts)

\* It is the turn of node n: the nodes before it are done.
NodeTurn(n) == /\ checks = <<>>
               /\ \A m \in Nodes : Rank[m] < Rank[n] =>
                    m \notin grubs /\ \A l \in lvs : NodeOf[l] # m
               /\ n = Ms /\ RestartFirst => "peers" \notin restarts

\* Mutant of GrubTurn: the grub task does not wait for the file systems.
GrubTurnEarly(n) == n \in grubs /\ NodeTurn(n)

\* A node's grub task is the last of its tasks.
GrubTurn(n) == n \in grubs /\ NodeTurn(n) /\ \A l \in lvs : NodeOf[l] # n

RestartTurn(w) == /\ w \in restarts /\ checks = <<>>
                  /\ lvs \cap {l \in LVs : NodeOf[l] # Ms} = {}
                  /\ grubs \subseteq {Ms}
                  /\ w = "ms" \/ ~RestartFirst => grubs = {} /\ lvs = {}
                  /\ w = "ms" => restarts = {"ms"}

-----------------------------------------------------------------------------
\* The checks.  Hosts that lvs lists nothing for have no snapshot.

CheckTurn(c) == ended = "no" /\ checks # <<>> /\ Head(checks) = c
Pass == checks' = Tail(checks) /\ UNCHANGED <<lvs, grubs, restarts, skipped>> /\ Proceed

\* Nodes that a forced plan finds reachable, as far as their ping tells.
Pinged == {A \in SUBSET reach : calm => A = reach}

ReachCheck ==
    /\ CheckTurn("reach")
    /\ \/ Peers \subseteq reach /\ Pass
       \/ ~(calm /\ Peers \subseteq reach) /\ Fail("unreachable")
    /\ UNCHANGED system

\* The first snapshot that an agent finds merging is an error like any other:
\* the processor's errors are by host, and 'is merging' is not a host.
MergingFound == /\ CheckTurn("merging")
                /\ \E l \in LVs : NodeOf[l] \in reach /\ lv[l] \in Merges
                /\ Fail("error")
                /\ UNCHANGED system
MergingCheck ==
    \/ MergingFound
    \/ /\ CheckTurn("merging")
       /\ \E A \in IF forced THEN Pinged ELSE {Nodes} :
            \/ /\ A \subseteq reach
               /\ \A l \in LVs : NodeOf[l] \in A => lv[l] \notin Merges
               /\ Pass
            \/ (calm => ~(A \subseteq reach)) /\ Fail("error")
       /\ UNCHANGED system

\* Mutant of ExistCheck: the nodes have to answer, and no more.
ExistCheckNodes ==
    /\ CheckTurn("exist")
    /\ \/ Peers \subseteq reach /\ Pass
       \/ ~(calm /\ Peers \subseteq reach) /\ Fail("unreachable")
    /\ UNCHANGED system

\* Peers are reachable, and lvs lists all their snapshots and the MS's.  The
\* snapshots of a host whose answer is lost count as missing.
ExistCheck ==
    /\ CheckTurn("exist")
    /\ \/ /\ Peers \subseteq reach
          /\ \A l \in LVs \ Kickstart : Listed(l)
          /\ Pass
       \/ /\ calm => \E l \in LVs \ Kickstart : NodeOf[l] \in reach /\ ~Listed(l)
          /\ Fail("missing")
       \/ ~(calm /\ Peers \subseteq reach) /\ Fail("unreachable")
    /\ UNCHANGED system

\* Mutant of ValidCheck: an invalid snapshot is only logged.
ValidCheckLogs ==
    CheckTurn("valid") /\ Pass /\ UNCHANGED system

\* No host that answered lists an invalid snapshot; a host that did not answer
\* is not missed, unless the call expired.
ValidCheck ==
    /\ CheckTurn("valid")
    /\ \/ \E A \in Pinged : \/ /\ \A l \in LVs \ Kickstart :
                                    NodeOf[l] \in A => lv[l] # "invalid"
                               /\ Pass
                            \/ /\ \E l \in LVs \ Kickstart :
                                    NodeOf[l] \in A /\ lv[l] = "invalid"
                               /\ Fail("invalid")
       \/ ~calm /\ Fail("error")
    /\ UNCHANGED system

-----------------------------------------------------------------------------
\* The tasks of a node.

\* Mutant of Skips: a node that does not answer is left out in any case.
SkipsAlways(n) == /\ action \in {"remove", "restore"}
                  /\ n = Ms => action = "restore"
                  /\ calm => n \notin reach

\* A task of a forced removal or restore leaves out a node that does not
\* answer its ping; removals on the MS do not ask.
Skips(n) == /\ forced /\ action \in {"remove", "restore"}
            /\ n = Ms => action = "restore"
            /\ calm => n \notin reach

\* lvcreate, which fails if the snapshot exists.
CreateLv(l) == /\ lv[l] = "absent"
               /\ lv' = [lv EXCEPT ![l] = "valid"]
               /\ changed' = changed \ {l}

\* Mutant of RemoveLv: the agent does not look for a merge.
RemoveLvBlindly(l) == lv' = [lv EXCEPT ![l] = "absent"] /\ UNCHANGED changed

\* Mutant of RemoveLv: a snapshot that merges is passed over.
RemoveLvPassesOver(l) == /\ lv' = [lv EXCEPT ![l] = IF @ \in Merges THEN @ ELSE "absent"]
                         /\ UNCHANGED changed

\* lvremove, which is refused while the snapshot merges and done if it is absent.
RemoveLv(l) == /\ lv[l] \notin Merges
               /\ lv' = [lv EXCEPT ![l] = "absent"]
               /\ UNCHANGED changed

\* Mutant of RestoreLv: lvconvert's refusal of an invalid snapshot is ignored.
RestoreLvAnyway(l) == /\ lv' = [lv EXCEPT ![l] = IF @ = "valid" THEN "pending" ELSE @]
                      /\ UNCHANGED changed

\* lvconvert --merge.  A snapshot that merges already is left alone; one that
\* does not exist (404) is ignored by the plugin.
RestoreLv(l) == /\ lv[l] # "invalid"
                /\ lv' = [lv EXCEPT ![l] = IF @ = "valid" THEN "pending" ELSE @]
                /\ UNCHANGED changed

LvCall(l) == /\ NodeOf[l] \in reach
             /\ \/ action = "create" /\ CreateLv(l)
                \/ action = "remove" /\ RemoveLv(l)
                \/ action = "restore" /\ RestoreLv(l)
             /\ UNCHANGED <<reach, backup>>

LvDone(l) == lvs' = lvs \ {l} /\ UNCHANGED <<checks, grubs, restarts>> /\ Proceed

LvTask(l) ==
    /\ ended = "no" /\ l \in lvs /\ NodeTurn(NodeOf[l])
    /\ \/ LvCall(l) /\ LvDone(l) /\ UNCHANGED skipped
       \/ LvCall(l) /\ ~calm /\ Fail("error")
       \/ /\ calm => \/ NodeOf[l] \notin reach
                     \/ action = "create" /\ lv[l] # "absent"
                     \/ action = "remove" /\ lv[l] \in Merges
                     \/ action = "restore" /\ lv[l] = "invalid"
          /\ Fail("error") /\ UNCHANGED system
       \/ /\ Skips(NodeOf[l])
          /\ skipped' = skipped \cup {NodeOf[l]}
          /\ LvDone(l) /\ UNCHANGED system

\* cp, rm and mv of grub.cfg; without a backup the restore has status 2, which
\* a forced one ignores.
GrubCall(n) ==
    /\ n \in reach
    /\ \/ action = "create" /\ backup' = backup \cup {n} /\ changed' = changed \ {n}
       \/ action = "remove" /\ backup' = backup \ {n} /\ UNCHANGED changed
       \/ /\ action = "restore" /\ n \in backup
          /\ backup' = backup \ {n} /\ changed' = changed \ {n}
       \/ /\ action = "restore" /\ n \notin backup /\ forced
          /\ UNCHANGED <<backup, changed>>
    /\ UNCHANGED <<reach, lv>>

GrubDone(n) == grubs' = grubs \ {n} /\ UNCHANGED <<checks, lvs, restarts>> /\ Proceed

GrubTask(n) ==
    /\ ended = "no" /\ GrubTurn(n)
    /\ \/ GrubCall(n) /\ GrubDone(n) /\ UNCHANGED skipped
       \/ GrubCall(n) /\ ~calm /\ Fail("error")
       \/ /\ calm => n \notin reach \/ (action = "restore" /\ n \notin backup /\ ~forced)
          /\ Fail("error") /\ UNCHANGED system
       \/ /\ Skips(n)
          /\ skipped' = skipped \cup {n}
          /\ GrubDone(n) /\ UNCHANGED system

-----------------------------------------------------------------------------
\* Restarts, and what happens around the plan.

\* A node that restarts activates its volumes: merges start, and from then on
\* the file system reads as when the snapshot was made.
Restarted(R) ==
    LET rolled == {l \in LVs : NodeOf[l] \in R /\ lv[l] = "pending"}
    IN  /\ lv' = [l \in LVs |-> IF l \in rolled THEN "merging" ELSE lv[l]]
        /\ changed' = changed \ rolled

\* All peers restart, or those that a forced plan finds reachable, and the plan
\* waits for them.  A node that does not come back fails the plan.
RestartPeers ==
    /\ ended = "no" /\ RestartTurn("peers")
    /\ \E R \in SUBSET (reach \cap Peers) :
        /\ Restarted(R)
        /\ \/ /\ Peers \subseteq R \/ (forced /\ (calm => R = reach \cap Peers))
              /\ restarts' = restarts \ {"peers"}
              /\ skipped' = skipped \cup (Peers \ R)
              /\ UNCHANGED <<reach, checks, lvs, grubs>> /\ Proceed
           \/ /\ calm => ~(Peers \subseteq reach \/ forced)
              /\ \E gone \in SUBSET R : reach' = reach \ gone
              /\ Fail("error")
    /\ UNCHANGED backup

RestartMs ==
    /\ ended = "no" /\ RestartTurn("ms")
    /\ \/ /\ Restarted({Ms}) /\ restarts' = {}
          /\ UNCHANGED <<reach, backup, checks, lvs, grubs, skipped>> /\ Proceed
       \/ ~calm /\ Fail("error") /\ UNCHANGED system

\* The last task has ended.
Finish ==
    /\ ended = "no" /\ checks = <<>> /\ lvs = {} /\ grubs = {} /\ restarts = {}
    /\ ended' = "done"
    /\ item' = CASE action = "create" -> "made"
                 [] action = "remove" -> "none"
                 [] OTHER -> item
    /\ UNCHANGED <<system, todo, skipped, action, forced, calm, why>>

PlanStep == \/ ReachCheck \/ MergingCheck \/ ExistCheck \/ ValidCheck
            \/ \E l \in LVs : LvTask(l)
            \/ \E n \in Nodes : GrubTask(n)
            \/ RestartPeers \/ RestartMs \/ Finish

Lose(n) == n \in reach /\ reach' = reach \ {n} /\ UNCHANGED <<lv, changed, backup>>
Return(n) == n \notin reach /\ reach' = reach \cup {n} /\ UNCHANGED <<lv, changed, backup>>
Crash(n) == /\ n \notin reach \/ ended # "no"
            /\ Restarted({n}) /\ UNCHANGED <<reach, backup>>
Merged(l) == /\ lv[l] = "merging" /\ lv' = [lv EXCEPT ![l] = "absent"]
             /\ UNCHANGED <<reach, changed, backup>>
\* A snapshot overflows.  One whose merge is pending could too, which is left out.
Invalidate(l) == /\ lv[l] = "valid" /\ lv' = [lv EXCEPT ![l] = "invalid"]
                 /\ UNCHANGED <<reach, changed, backup>>
\* While a snapshot exists the system is upgraded, between plans.
Upgrade(x) == /\ ended # "no" /\ item = "made"
              /\ changed' = changed \cup {x}
              /\ UNCHANGED <<reach, lv, backup>>

Around == /\ \/ \E l \in LVs : Merged(l)
             \/ \E x \in LVs \cup Nodes : Upgrade(x)
             \/ /\ calm => ended # "no"
                /\ \/ \E n \in Peers : Lose(n) \/ Return(n)
                   \/ \E n \in Nodes : Crash(n)
                   \/ \E l \in LVs : Invalidate(l)
          /\ ended' = IF ended = "no" THEN "no" ELSE "idle"
          /\ UNCHANGED <<todo, item, action, forced, calm, why, skipped>>

Init == /\ reach = Nodes /\ lv = [l \in LVs |-> "absent"]
        /\ changed = {} /\ backup = {} /\ item = "none"
        /\ action = "none" /\ forced = FALSE /\ calm = FALSE /\ ended = "done" /\ why = ""
        /\ checks = <<>> /\ lvs = {} /\ grubs = {} /\ restarts = {} /\ skipped = {}

Next == \/ Create \/ \E f \in BOOLEAN : Remove(f) \/ Restore(f) \/ NoRestorePlan(f)
        \/ PlanStep \/ Around
Spec == Init /\ [][Next]_vars

-----------------------------------------------------------------------------
\* A restore that was not forced and succeeded brought every file system and
\* every grub.cfg of every node back to when the snapshot was made.
RestoreIsWhole ==
    ended = "done" /\ action = "restore" /\ ~forced => changed = {}

\* A removal that was not forced and succeeded left no snapshot and no backup.
RemovedWhole ==
    ended = "done" /\ action = "remove" /\ ~forced =>
        backup = {} /\ \A l \in LVs : lv[l] = "absent"

\* As long as a node has a snapshot that could be restored it has the grub.cfg
\* to go with it, however far a removal or a restore came.
BackupOutlivesSnapshots ==
    item = "made" => \A l \in LVs : Listed(l) => NodeOf[l] \in backup

\* A restore that succeeded, forced or not, left no snapshot unused on the
\* nodes that answered all its tasks.
NothingLeftUnused ==
    ended = "done" /\ action = "restore" =>
        /\ \A l \in changed \cap LVs :
             NodeOf[l] \in skipped \/ lv[l] \in {"absent", "merging"}
        /\ \A n \in changed \cap Nodes : n \in skipped \/ n \notin backup

\* A removal that succeeded, forced or not, left neither snapshot nor backup on
\* the nodes that answered all its tasks.
RemovedButSkipped ==
    ended = "done" /\ action = "remove" =>
        \A n \in Nodes \ skipped :
            n \notin backup /\ \A l \in LVs : NodeOf[l] = n => lv[l] = "absent"

\* The grub.cfg of a node goes only when no snapshot is left that it would have
\* to go with, but for a forced plan that left out file systems of the node and
\* found it again for its grub task.
BackupGoesLast ==
    [][\A l \in LVs : NodeOf[l] \in backup \ backup' /\ Listed(l) =>
                        NodeOf[l] \in skipped]_vars

\* A merge that waits for the restart of its node is never cancelled by a
\* removal, also if the node was not reachable for the removal's check.
NoMergeCancelled ==
    [][\A l \in LVs : lv[l] = "pending" => lv'[l] \in Merges]_vars

\* While nodes keep still, no file system is restored if the snapshot of
\* another one that could be seen is invalid.
NoneRestoredIfInvalid ==
    calm /\ ended = "no" /\ action = "restore" /\ lvs # LVs =>
        \A l \in LVs : lv[l] = "invalid" => NodeOf[l] \notin reach

\* A restore can be repeated: only a snapshot that is gone is reported missing,
\* not one whose merge an earlier restore has started.
OnlyMissingIsMissing == calm /\ why = "missing" => \E l \in LVs : lv[l] = "absent"

\* Plans are carried out as SnapshotPlan says, item by item: the snapshots of the
\* file systems and the nodes' copies of grub.cfg, in the order of the nodes.
Home(x) == IF x \in LVs THEN NodeOf[x] ELSE x
Held == [x \in LVs \cup Nodes |->
           IF x \in Nodes THEN IF x \in backup THEN "kept" ELSE "none"
           ELSE IF Listed(x) THEN "kept" ELSE IF lv[x] \in Merges THEN "spent" ELSE "none"]
Earlier == {p \in (LVs \cup Nodes) \X (LVs \cup Nodes) :
              \/ Rank[Home(p[1])] < Rank[Home(p[2])]
              \/ p[1] \in LVs /\ p[2] = NodeOf[p[1]]}
Plan == INSTANCE SnapshotPlan WITH
            Items <- LVs \cup Nodes, Before <- Earlier,
            Lenient <- {<<"remove", "forced">>, <<"restore", "forced">>}, Consumes <- TRUE,
            snap <- Held, todo <- lvs \cup grubs, kind <- action,
            mode <- IF forced THEN "forced" ELSE "careful", ended <- ended
ImplementsPlan == Plan!Spec
=============================================================================
