----------------------------- MODULE VxSnapPlan -----------------------------
(***************************************************************************)
(* A plan that removes or restores the VxVM snapshots of one cluster: its  *)
(* check tasks, then one task per file system, run one after the other.    *)
(* Each task asks the nodes which disk groups they import, imports those   *)
(* that nobody imports, and looks for snapshots with one remote call per   *)
(* file system (vxvm_snapshot_data_mgr.py).  Between two calls a node may  *)
(* crash, VCS may move a disk group, and a snapshot may turn invalid.      *)
(***************************************************************************)
EXTENDS Naturals, Sequences

CONSTANTS
    Nodes,      \* nodes of the cluster
    Members,    \* those the plan talks to: all but the excluded ones
    VGs, FSs,   \* disk groups, and their file systems with a snapshot
    VgOf,       \* the disk group of a file system
    Scan,       \* the order in which the plan's dictionaries yield FSs
    NoNode,     \* not in Nodes
    Action,     \* "remove" or "restore"
    MayForce    \* may the user force a plan (-f)?

ASSUME PlanAssumption ==
    /\ Members \subseteq Nodes /\ NoNode \notin Nodes
    /\ VgOf \in [FSs -> VGs]
    /\ Scan \in Seq(FSs)
    /\ \A f \in FSs : \E k \in 1 .. Len(Scan) : Scan[k] = f
    /\ \A j, k \in 1 .. Len(Scan) : Scan[j] = Scan[k] => j = k
    /\ Action \in {"remove", "restore"}
    /\ MayForce \in BOOLEAN

VARIABLES
    up,       \* nodes that answer calls
    home,     \* the node that imports a disk group
    snap,     \* snapshots: absent, valid or invalid
    busy,     \* file systems whose restore is still synchronising
    heard,    \* data manager: nodes that answered
    active,   \* data manager: active_node of each disk group
    present,  \* data manager: file systems with 'present' set
    valid,    \* data manager: file systems with 'valid' True
    syncing,  \* data manager: file systems with 'restore_in_progress'
    probed,   \* file systems whose presence the running task asked for
    at,       \* the task that runs, by its position in the plan
    step,     \* the call that the task makes next
    i,        \* the file system a scan has come to
    said,     \* what each file system's task did, as the plan reports it
    ended,    \* "no", "done" or "failed"
    forced,   \* was this plan forced?
    calm      \* does the cluster keep still, and answer every call, while it runs?

world == <<up, home, snap, busy>>
data == <<heard, active, present, valid, syncing, probed>>
plan == <<at, step, i, said, ended, forced, calm>>
vars == <<world, data, plan>>

Steps == {"query", "import", "requery", "present", "valid", "sync", "judge"}

TypeOK == /\ up \subseteq Nodes /\ home \in [VGs -> Nodes \cup {NoNode}]
          /\ snap \in [FSs -> {"absent", "valid", "invalid"}]
          /\ busy \subseteq FSs /\ heard \subseteq Members
          /\ active \in [VGs -> Members \cup {NoNode}]
          /\ present \subseteq FSs /\ valid \subseteq FSs
          /\ syncing \subseteq FSs /\ probed \subseteq FSs
          /\ at \in Nat \ {0} /\ step \in Steps /\ i \in 1 .. Len(Scan) + 1
          /\ said \in [FSs -> {"nothing", "done", "absent", "inactive"}]
          /\ ended \in {"no", "done", "failed"} /\ calm \in BOOLEAN
          /\ forced \in BOOLEAN /\ (forced => MayForce)

-----------------------------------------------------------------------------
\* The tasks of the plan, in order.
Checks == CASE Action = "remove" /\ forced -> <<"sync">>
            [] Action = "remove" /\ ~forced -> <<"active", "sync">>
            [] Action = "restore" /\ forced -> <<"validity">>
            [] OTHER -> <<"active", "presence", "validity">>
Task == IF at <= Len(Checks) THEN Checks[at] ELSE "snapshot"
Target == Scan[at - Len(Checks)]
LastTask == Len(Checks) + Len(Scan)

\* The scans that follow the query in each kind of task.
AfterQuery == IF Task = "active" THEN "judge" ELSE "present"
AfterPresent == CASE Task = "presence" -> "judge"
                  [] Task = "sync" -> "sync"
                  [] OTHER -> "valid"

Goto(s) == step' = s /\ i' = 1 /\ UNCHANGED <<at, said, ended, forced, calm>>

\* The task raises, or a call raises in it, and the plan stops.
Fail == ended' = "failed" /\ UNCHANGED <<at, step, i, said, forced, calm>>

\* The next task: a file system's gets a fresh copy of the data set, a check
\* gets the one the earlier checks filled, or a copy of the empty one.
Blank == /\ heard' = {} /\ present' = {} /\ valid' = {} /\ syncing' = {}
         /\ active' = [v \in VGs |-> NoNode]
NextTask == /\ step' = "query" /\ i' = 1 /\ probed' = {}
            /\ at' = at + 1 /\ UNCHANGED <<forced, calm>>
            /\ ended' = IF at = LastTask THEN "done" ELSE "no"
            /\ \/ Blank
               \/ at < Len(Checks) /\ UNCHANGED <<heard, active, present, valid, syncing>>

\* Mutant of Query: the excluded nodes are asked as well.
QueryAll ==
    /\ step \in {"query", "requery"}
    /\ \E rs \in SUBSET up :
        /\ heard' = rs
        /\ active' = IF rs = {} /\ step = "query" THEN active
                     ELSE [v \in VGs |-> IF home[v] \in rs THEN home[v] ELSE NoNode]
        /\ IF step = "query" /\ rs # {} /\ \E v \in VGs : active'[v] = NoNode
           THEN Goto("import") ELSE Goto(AfterQuery)
    /\ UNCHANGED <<world, present, valid, syncing, probed>>

\* gather_active_nodes: the nodes that answer tell the groups they import.
\* The check of a restore does not import while a node is missing.
Query ==
    /\ step \in {"query", "requery"}
    /\ \E rs \in SUBSET (up \cap Members) :
        /\ calm => rs = up \cap Members
        /\ heard' = rs
        /\ active' = IF rs = {} /\ step = "query" THEN active
                     ELSE [v \in VGs |-> IF home[v] \in rs THEN home[v] ELSE NoNode]
        /\ IF /\ step = "query" /\ rs # {}
              /\ \E v \in VGs : active'[v] = NoNode
              /\ Task = "active" /\ Action = "restore" => rs = Members
           THEN Goto("import") ELSE Goto(AfterQuery)
    /\ UNCHANGED <<world, present, valid, syncing, probed>>

\* _import_volume_groups on one node that answered.  A group that another
\* node holds stays there; the return code of the command is not looked at.
Import ==
    /\ step = "import"
    /\ \E n \in heard, got \in SUBSET {v \in VGs : active[v] = NoNode /\ home[v] = NoNode} :
        /\ n \in up \/ got = {}
        /\ home' = [v \in VGs |-> IF v \in got THEN n ELSE home[v]]
    /\ Goto("requery") \/ Fail
    /\ UNCHANGED <<up, snap, busy, data>>

\* A call on the active node of a group works if the group is still there.
Works(f) == home[VgOf[f]] = active[VgOf[f]]
Inactive(f) == active[VgOf[f]] = NoNode

\* Mutant of NextInGroup: an error leaves the scan where it is.
NextInGroupStuck == UNCHANGED <<at, step, i, said, ended, forced, calm>>

\* Scans go from file system to file system, group by group.
NextInGroup ==
    i' = i + 1 /\ UNCHANGED <<at, step, said, ended, forced, calm>>
NextGroup ==
    /\ i' \in i + 1 .. Len(Scan) + 1
    /\ \A k \in i .. Len(Scan) : k < i' => VgOf[Scan[k]] = VgOf[Scan[i]]
    /\ i' <= Len(Scan) => VgOf[Scan[i']] # VgOf[Scan[i]]
    /\ UNCHANGED <<at, step, said, ended, forced, calm>>
\* Mutant of Skip: an inactive group always ends the scan.
SkipAll == i' = Len(Scan) + 1 /\ UNCHANGED <<at, step, said, ended, forced, calm>>

\* An inactive group is skipped, and ends the scan of a forced action.
Skip == IF forced THEN i' = Len(Scan) + 1 /\ UNCHANGED <<at, step, said, ended, forced, calm>>
        ELSE NextGroup

\* gather_snapshots_are_present: the first snapshot found ends the scan of
\* its group; any error, a lost answer too, leaves the file system as it was.
PresentScan ==
    /\ step = "present" /\ i <= Len(Scan)
    /\ LET f == Scan[i] IN
       IF Inactive(f) THEN Skip /\ UNCHANGED data
       ELSE IF Task = "snapshot" /\ f # Target THEN NextInGroup /\ UNCHANGED data
       ELSE /\ probed' = probed \cup {f}
            /\ \/ /\ Works(f) /\ snap[f] # "absent"
                  /\ present' = present \cup {f} /\ NextGroup
               \/ /\ calm => ~(Works(f) /\ snap[f] # "absent")
                  /\ present' = present /\ NextInGroup
            /\ UNCHANGED <<heard, active, valid, syncing>>
    /\ UNCHANGED world

\* gather_snapshots_are_valid, for the snapshots found.
ValidScan ==
    /\ step = "valid" /\ i <= Len(Scan)
    /\ LET f == Scan[i] IN
       IF Inactive(f) THEN Skip /\ UNCHANGED data
       ELSE IF f \notin present \/ (Task = "snapshot" /\ f # Target)
       THEN NextInGroup /\ UNCHANGED data
       ELSE /\ \/ Works(f) /\ snap[f] = "valid" /\ valid' = valid \cup {f}
               \/ /\ calm => ~(Works(f) /\ snap[f] = "valid")
                  /\ valid' = valid \ {f}
            /\ NextInGroup
            /\ UNCHANGED <<heard, active, present, syncing, probed>>
    /\ UNCHANGED world

\* gather_restores_in_progress: the agent's command ends in awk, so that only
\* a call without an answer is an error, whatever the command wrote.
SyncScan ==
    /\ step = "sync" /\ i <= Len(Scan)
    /\ LET f == Scan[i] IN
       IF Inactive(f) THEN Skip /\ UNCHANGED data
       ELSE IF f \notin present THEN NextInGroup /\ UNCHANGED data
       ELSE /\ \/ active[VgOf[f]] \in up /\ syncing' = syncing \ {f}
               \/ /\ calm => active[VgOf[f]] \notin up
                  /\ syncing' = syncing \cup {f}
            /\ NextInGroup
            /\ UNCHANGED <<heard, active, present, valid, probed>>
    /\ UNCHANGED world

EndScan == /\ step \in {"present", "valid", "sync"} /\ i = Len(Scan) + 1
           /\ Goto(IF step = "present" THEN AfterPresent ELSE "judge")
           /\ UNCHANGED <<world, data>>

-----------------------------------------------------------------------------
\* What the check tasks require of the data they gathered.
GroupsActive == /\ heard # {} /\ \A v \in VGs : active[v] # NoNode
                /\ Action = "restore" => heard = Members
SnapshotsExist == \A f \in FSs : Inactive(f) \/ f \in present
\* Mutant of SnapshotsValid: an invalid snapshot is only worth a warning.
SnapshotsValidOrNot == TRUE
SnapshotsValid == \A f \in present : Inactive(f) \/ f \in valid
NoRestores == syncing = {}

Passes == CASE Task = "active" -> GroupsActive
            [] Task = "presence" -> SnapshotsExist
            [] Task = "validity" -> SnapshotsValid
            [] Task = "sync" -> NoRestores

Check == /\ step = "judge" /\ Task # "snapshot"
         /\ \/ Passes /\ NextTask
            \/ ~Passes /\ Fail /\ UNCHANGED data
         /\ UNCHANGED <<world, said>>

Report(outcome) == said' = [said EXCEPT ![Target] = outcome] /\ NextTask

\* Mutant of NothingToDo: an inactive group never stops the plan.
NothingToDoForgiving ==
    /\ IF Inactive(Target) THEN Report("inactive")
       ELSE /\ Target \notin present
            /\ IF forced \/ Action = "remove" THEN Report("absent")
               ELSE Fail /\ UNCHANGED data
    /\ UNCHANGED world

\* Mutant of NothingToDo: the snapshot is looked for before the active node.
NothingToDoBlind ==
    /\ Target \notin present
    /\ IF forced \/ Action = "remove" THEN Report("absent")
       ELSE Fail /\ UNCHANGED data
    /\ UNCHANGED world

\* remove_snapshot and restore_snapshot, without an active node or a snapshot.
NothingToDo ==
    /\ IF Inactive(Target)
       THEN IF forced THEN Report("inactive") ELSE Fail /\ UNCHANGED data
       ELSE /\ Target \notin present
            /\ IF forced \/ Action = "remove" THEN Report("absent")
               ELSE Fail /\ UNCHANGED data
    /\ UNCHANGED world

\* The agent's delete_snapshot or restore_snapshot, on the active node.
Change ==
    /\ IF Action = "remove" THEN /\ snap' = [snap EXCEPT ![Target] = "absent"]
                                 /\ UNCHANGED busy
                            ELSE /\ snap[Target] # "absent"
                                 /\ busy' = busy \cup {Target}
                                 /\ UNCHANGED snap
    /\ UNCHANGED <<up, home>>

\* Mutant of ActOnSnapshot: the errors of the call are not looked at.
ActOnSnapshotUnheeded ==
    /\ ~Inactive(Target) /\ Target \in present
    /\ \/ Works(Target) /\ Change /\ Report("done")
       \/ Report("done") /\ UNCHANGED world

\* The call succeeds, or it is an error with or without its effect.
ActOnSnapshot ==
    /\ ~Inactive(Target) /\ Target \in present
    /\ \/ Works(Target) /\ Change /\ Report("done")
       \/ Works(Target) /\ Change /\ Fail /\ UNCHANGED data
       \/ Fail /\ UNCHANGED <<world, data>>

SnapshotTask == /\ step = "judge" /\ Task = "snapshot"
                /\ NothingToDo \/ ActOnSnapshot

PlanStep == /\ ended = "no"
            /\ \/ Query \/ Import \/ PresentScan \/ ValidScan \/ SyncScan
               \/ EndScan \/ Check \/ SnapshotTask

\* The call itself raises RpcExecutionException.
CallRaises == /\ ended = "no" /\ ~calm /\ step # "judge" /\ i <= Len(Scan)
              /\ Fail /\ UNCHANGED <<world, data>>

-----------------------------------------------------------------------------
\* What happens around the plan.
Crash(n) == /\ n \in up /\ up' = up \ {n}
            /\ home' = [v \in VGs |-> IF home[v] = n THEN NoNode ELSE home[v]]
            /\ UNCHANGED <<snap, busy>>
Boot(n) == n \notin up /\ up' = up \cup {n} /\ UNCHANGED <<home, snap, busy>>
Deport(v) == /\ home[v] # NoNode /\ home' = [home EXCEPT ![v] = NoNode]
             /\ UNCHANGED <<up, snap, busy>>
FailOver(v, n) == /\ home[v] = NoNode /\ n \in up
                  /\ home' = [home EXCEPT ![v] = n]
                  /\ UNCHANGED <<up, snap, busy>>
Invalidate(f) == /\ snap[f] = "valid" /\ snap' = [snap EXCEPT ![f] = "invalid"]
                 /\ UNCHANGED <<up, home, busy>>
Synchronised(f) == f \in busy /\ busy' = busy \ {f} /\ UNCHANGED <<up, home, snap>>

Around == /\ \/ \E f \in FSs : Synchronised(f)
             \/ /\ ~calm
                /\ \/ \E n \in Nodes : Crash(n) \/ Boot(n)
                   \/ \E v \in VGs : Deport(v) \/ \E n \in Nodes : FailOver(v, n)
                   \/ \E f \in FSs : Invalidate(f)
          /\ UNCHANGED <<data, plan>>

\* The user runs the action again, with a new plan.
Again == /\ ended # "no" /\ ended' = "no" /\ calm' \in BOOLEAN
         /\ forced' \in BOOLEAN /\ (forced' => MayForce)
         /\ at' = 1 /\ step' = "query" /\ i' = 1
         /\ said' = [f \in FSs |-> "nothing"]
         /\ Blank /\ probed' = {}
         /\ UNCHANGED world

Init == /\ up \in SUBSET Nodes
        /\ home \in [VGs -> up \cup {NoNode}]
        /\ snap \in [FSs -> {"absent", "valid", "invalid"}]
        /\ busy \in SUBSET {f \in FSs : snap[f] = "valid"}
        /\ at = 1 /\ step = "query" /\ i = 1 /\ ended = "no" /\ calm \in BOOLEAN
        /\ forced \in BOOLEAN /\ (forced => MayForce)
        /\ said = [f \in FSs |-> "nothing"]
        /\ heard = {} /\ present = {} /\ valid = {} /\ syncing = {} /\ probed = {}
        /\ active = [v \in VGs |-> NoNode]

Next == PlanStep \/ CallRaises \/ Again \/ Around
Spec == Init /\ [][Next]_vars

\* The execution manager goes on with the plan; calls have timeouts.
FairSpec == Spec /\ WF_vars(PlanStep)

-----------------------------------------------------------------------------
\* A plan that was not forced and succeeded restored every file system; a
\* removal that succeeded removed every snapshot or looked for it in its task.
NothingForgotten ==
    ended = "done" /\ ~forced =>
        \A f \in FSs : said[f] = "done" \/ (Action = "remove" /\ said[f] = "absent")

\* The scan of a forced plan has ended before it came to the file system.
CutShort(f) == forced /\ \E j, k \in 1 .. Len(Scan) :
                   j < k /\ Scan[k] = f /\ Inactive(Scan[j])

\* A task that reports that its file system has no snapshot has looked for it,
\* unless it was forced and a disk group before it has no active node.
AbsentWasProbed ==
    [][\A f \in FSs : said'[f] = "absent" /\ said[f] # "absent"
                        => f \in probed \/ CutShort(f)]_vars

\* If the cluster keeps still, a removal that succeeded left a snapshot only if
\* its disk group, or one before it in the order of the scans, has no active
\* node and the plan said so: whatever was reported absent is absent.
NothingLeft ==
    calm /\ Action = "remove" /\ ended = "done" =>
        \A k \in 1 .. Len(Scan) :
            snap[Scan[k]] = "absent" \/ \E j \in 1 .. k : said[Scan[j]] = "inactive"

\* Once the first file system is restored, a restore that was not forced has
\* found a valid snapshot for every one, if the cluster keeps still.
AllOrNothing ==
    /\ calm /\ Action = "restore" /\ ~forced /\ \E f \in FSs : said[f] = "done"
    => \A f \in FSs : snap[f] = "valid"

\* A restore whose check of validity passed restores from no invalid snapshot,
\* if the cluster keeps still.
RestoredFromValid ==
    \A f \in FSs : calm /\ Action = "restore" /\ said[f] = "done" => snap[f] = "valid"

\* The check of validity looks at the file systems of a disk group together: if
\* a plan restored two of them, in a cluster that keeps still, and one has a
\* valid snapshot, then so has the other.
RestoredTogether ==
    \A f, g \in FSs :
        /\ calm /\ Action = "restore" /\ VgOf[f] = VgOf[g]
        /\ said[f] = "done" /\ said[g] = "done" /\ snap[f] = "valid"
        => snap[g] = "valid"

\* A plan ends, whatever the cluster does.
PlanEnds == ended = "no" ~> ended # "no"

\* Plans are carried out as SnapshotPlan says, with the tasks of the file systems
\* in the order of the data set; a removal passes over snapshots it does not
\* find, forced or not, and a restore keeps the snapshot.
Kept == [f \in FSs |-> IF snap[f] = "absent" THEN "none"
                         ELSE IF f \in busy THEN "spent" ELSE "kept"]
Waiting == IF ended = "no" THEN {f \in FSs : said[f] = "nothing"} ELSE {}
Earlier == {p \in FSs \X FSs : \E j, k \in 1 .. Len(Scan) :
                                   j < k /\ p = <<Scan[j], Scan[k]>>}
Ordered == INSTANCE SnapshotPlan WITH
            Items <- FSs, Before <- Earlier,
            Lenient <- {<<"remove", "careful">>, <<"remove", "forced">>, <<"restore", "forced">>},
            Consumes <- FALSE,
            snap <- Kept, todo <- Waiting, kind <- Action,
            mode <- IF forced THEN "forced" ELSE "careful", ended <- ended
ImplementsPlan == Ordered!Spec
=============================================================================
