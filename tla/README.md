# Verification of the LITP volume manager plugin

This directory holds TLA+ models of the volume manager plugin of LITP: the
Python plugin that turns a deployment model into plans (`src/src/volmgr_plugin`)
and the Ruby MCollective agents that carry the plans out on the nodes
(`src/puppet/mcollective_agents`).  The models are checked with TLC on small
instances, and the main theorems are proved with TLAPS for every instance.

To repeat the work: `tlc -config <cfg> <MC module>` for each pair listed under
*Runs*, and `tlapm <module>` for each of the `*Proofs` modules.

## 1. The system and its parts

A *plan* is a list of callback tasks that the LITP execution manager on the
management server (MS) runs one after the other.  A task calls *agents* on
nodes by RPC, with a timeout and sometimes with retries; when it raises
`CallbackExecutionException` the plan stops, and the user goes on with a new
plan.  There is no roll-back.  The plugin keeps no state between plans but the
items of the model; what a broken plan did is found again only by looking at
the nodes.  That makes the hard behaviours of this system: calls that are lost
or answered too late, plans that stop between any two calls and are repeated on
what is there, nodes that restart, disk groups that the cluster (VCS) moves
while a plan works on them, and data that is read by one task and used by the
next.

| Part | State it keeps | Operations | Talks to | Correct when |
|---|---|---|---|---|
| **vxvmsnapshot agent** `vxvmsnapshot.rb` | VxVM records of a space-optimised snapshot: cache volume, cache object, snapshot volume | `create_snapshot`, `delete_snapshot`, `restore_snapshot`, `check_snapshot`, `check_restore_completed`, `show_dcoregionsz` | called by the tasks of `drivers/vxvm.py` | a reported success is true of the records; a chain that is broken off or runs twice can be removed |
| **VxVM snapshot plans** `drivers/vxvm.py`, data manager `vxvm_snapshot_data_mgr.py` | a data set per check or task: active node of each group, snapshots present, valid, restoring | create, remove, restore (forced or not), their checks | `vxvm` and `vxvmsnapshot` agents on the nodes of a cluster; VCS moves groups concurrently | a plan that succeeds forgot no file system; no restore from an invalid snapshot; the checks find what they are for |
| **LVM snapshot plans** `drivers/lvm.py`, `volmgr_plugin.py` | the snapshot item of the model | create, remove, restore (forced or not), their checks, grub.cfg copies, restarts | `snapshot` agent on all nodes and the MS | all file systems and grub.cfg come back, or the plan fails and can be repeated |
| **snapshot agent** `snapshot.rb` | logical volume snapshots, merges, `grub.cfg.backup` | create, remove, restore, save/remove/restore grub | called by the LVM plans | refuses to remove a merging snapshot; may be repeated |
| **fencing disk group** `vxvm.py` 1495-1733, 1969-2093 | the disks, their group, its flags and imports | one task of many calls | `vxvm` agent on one node | complete when it succeeds; a repeated set-up always gets through |
| **reboot planner** `volmgr_plugin.py` 106-252, 3073-3127 | `reboot_issued_at` | restarts of clusters in order, waits | mco, puppet | every node restarts once, in order |
| **grub agent** `grub.rb` | four boot files and their backups | put the names of volumes into the boot files | called by the last task of an LVM deployment | all files edited or none, also after an agent that was ended half way |
| **killpart agent** `killpart.rb` | volumes, groups and partitions of a node | clear | called by the purge tasks of new disks | removes what a disk brought along, and nothing that is in use |
| **VxVM data disk groups** `vxvm.py` 170-860, `vxvm.rb` | disks, groups, volumes, file systems | set up, extend, resize, destroy | `vxvm` agent on the first node or on the node that has the group | repeated plans lose no data, report only what stands, and end |
| **lv agent, LVM deployment** `lv.rb`, `lvm.py` | the items of a node's storage profile | purge disks, create and mount file systems, update the boot files; resize | puppet, `killpart`, `grub` and `lv` agents | what is applied stands, whatever is repeated; the node boots; it is deployed in the end |
| **validation, size arithmetic** `volmgr_utils.py`, `volmgr_plugin.py` | none | predicates and sizes over the model | - | snapshots fit; sizes are whole extents |
| **driver base class, model queries** | none | getters | - | - |

`PROJECT.json` lists the same components with what is modelled of each, and
under `hazards` every place found so far where this code is hard to test.

## 2. Modules

| Module | Models | Extends / uses |
|---|---|---|
| `SnapLifecycle` | abstract specification: what a plan may rely on when it creates and removes a VxVM snapshot | - |
| `VxSnapAgent` | create and remove tasks with the commands of the vxvmsnapshot agent, concurrently | instance of `SnapLifecycle` under a refinement mapping |
| `SnapshotPlan` | abstract specification: what the user of a snapshot plan may rely on, whichever driver plans it | - |
| `VxSnapPlan` | remove and restore plans of a cluster with the data manager | instance of `SnapshotPlan` under a refinement mapping |
| `LvmSnapPlan` | create, remove and restore plans of LVM snapshots with the snapshot agent | instance of `SnapshotPlan` under a refinement mapping |
| `FencingSetup` | the set-up of the fencing disk group, call by call | - |
| `AtomicUpdate` | abstract specification: what the caller of an update of several files may rely on | - |
| `GrubUpdate` | the grub agent, command by command | instance of `AtomicUpdate` under a refinement mapping |
| `Killpart` | LVM objects of a node and the clear action of the killpart agent, command by command | - |
| `NodeDeploy` | the deployment plans of a node, with both agents | extends `Killpart` and `GrubUpdate` |
| `VxDeploy` | the plans that build, extend, resize and remove a data disk group, with the vxvm agent | - |
| `MC...` | instances for TLC | the module of that name |
| `...Proofs` | TLAPS proofs | the module of that name |

### VxSnapAgent

`cv`, `co` and `sp` are the VxVM records of each snapshot; `pc[a]` is the command
that agent `a` runs next, so that every command of `create_snapshot` and
`delete_snapshot` is a step of its own and any of them can be the last.  Each
command accepts the return codes the Ruby code lists as "already done" and may
fail for reasons of its own.  `RemoveTask`/`CreateTask` start the tasks;
`CreateCalls`, `RemoveSeen`, `RemoveSkips`, `RemoveUnanswered` are their calls;
`Timeout` is a call without answer within the timeout that the caller gives,
which is shorter than the agent's own, so the agent goes on: a removal is called
again (retries=2) and two chains can run interleaved on the same records.
`AgentStops` ends an agent without an answer (its own timeout, a restart of the
node).  `told` is what the plan knows of each snapshot.  `StartsWith` abstracts
the names: `grep` finds a line that starts with the name, and the name of a
deployment snapshot starts the names of the named ones.

A task starts whenever none runs: the caller gives up after 200 s, the agent lives
for 302 s, and nothing waits for it, so that it may go on into the next task for
the same snapshot.  `stale` is no part of the program; it remembers which agents
were called by a task after which another one for the same snapshot has started.
The properties about answers are action properties that say what must be true
when the plan is told something and *stays* true until the next task, and name
the one kind of step that may undo it: a `LateCommand` of a stale agent, and of
which commands.  TLC shows that each of these steps does occur (section 5).

`SnapLifecycle` is what is left of this for a plan: the records of a snapshot
come and go stage by stage, "created" is told by the step that completes the
snapshot, and "removed" never while it is complete.  `ImplementsLifecycle` is the
refinement, with `phase` computed from the records.

### VxSnapPlan

`up`, `home`, `snap`, `busy` are the cluster; `heard`, `active`, `present`,
`valid`, `syncing` are the fields of the data manager; `at`, `step`, `i` are the
task, the call and the position in a scan.  One action per RPC: `Query` and
`Import` are `gather_active_nodes`, `PresentScan`, `ValidScan` and `SyncScan`
the scans of the same names with their `break`, `continue` and `return`, `Check`
what each check task requires, `SnapshotTask` the task of one file system.
Each plan is `forced` or not (`MayForce` allows it), which the scans, the checks
and the tasks read.
Between two calls nodes crash and boot, VCS moves groups, snapshots turn
invalid and restores end (`Around`).  A plan is *calm* if the cluster keeps still
while it runs and every call is answered; which is chosen when it starts.
Properties that cannot hold otherwise, since the code reads before it acts, are
stated for calm plans - what was true before a calm plan is arbitrary.

The order in which Python dictionaries yield groups and file systems is the
constant `Scan`.  The code walks groups and then the file systems of each, so every
instance lists the file systems of a group together.

### LvmSnapPlan

`lv` is the state of each snapshot, with the two stages of a merge: it waits for
the next activation of the volume (*pending*) and then runs (*merging*); only the
first two states are listed by `lvs`.  `changed` are file systems and grub.cfg
files that differ from when the snapshot was made, `backup` the grub.cfg
backups.  A plan is the rest of its tasks: `checks`, `lvs`, `grubs`, `restarts`.
`NodeTurn`, `GrubTurn` and `RestartTurn` are the order that task requirements and
plan phases impose; `Skips` is the ping of a forced task.  `RestartFirst` tells
the two orders of the MS's file systems and the restart of the peers.

`NoRestorePlan` is a plan that is refused when it is made, because of the
kickstart file systems of the MS.  Create, remove and restore follow each other
in any order the model item allows, also after failures.

### SnapshotPlan

What both drivers promise: every item (the snapshot of a file system; with LVM
also the grub.cfg backup of a node) has one task, whose turn comes when the tasks
before it are done; the task changes this item alone and brings it to the goal of
the plan, or the plan breaks; only lenient plans (`Lenient`) pass an item over; and
a plan that is done has come to every item.  `ImplementsPlan` is the refinement of
each driver.  With LVM, `Before` is the order of the nodes, and on each node its
file systems before its backup; a snapshot that waits for its merge or merges is *spent*, and a restore uses it up
(`Consumes`); the forced plans are lenient.  With VxVM, `Before` is the order of the
data set, the snapshot is kept, and a removal that finds no snapshot passes on.
The checks, queries, imports, pings and restarts of a plan are stutters, or break
the plan.

### FencingSetup

`disk` is what each fencing disk is part of, at first anything: raw, set up, in a
group of another installation or in a group of the same name.  `imported`, `auto`
and `coord` are the state of the groups on the node.  One action per call of
`vx_disk_group_setup` and the functions it calls; the operators above them
(`ImportT`, `Destroyed`, `GroupCreated`, ...) are the agent's actions with the
error texts and codes they take for success.  Calls with `retries=1` may be
executed twice (`Repeat`), any call may fail before or after its work unless the
attempt is *calm*, the node may restart, and `Again` is a new plan.
An agent that is still busy when its call is repeated is not modelled here:
each call is one step.

### GrubUpdate and AtomicUpdate

`text[f]` is the set of volume names in boot file `f`, `copy[f]` in its backup.  One
action per command of the agent: `Backup`, `Edit`, `Restore`, `Discard`, each for
the file the loop has come to; `GrubStops` is the agent's timeout or a restart of
the node, and leaves everything as it is.  `sed` writes the names of the request,
`grub2-mkconfig` what a source file that it reads says, and a command that fails
may have written its file.  `AtomicUpdate` is what the caller sees: files change
while the update runs, *done* comes with the goal in every file, *failed* with
every file as before.  That `mv` and `rm` of a backup succeed is assumed; the code
reads the answer of neither.

### Killpart

`pv` is the group that each disk's physical volume is in, `name` the name of each
group (groups are told apart by UUID), `lvs` and `mounted` the volumes.  `Look`
finds the group of a disk, `Rename` gives it a name of its own, `List`,
`NextVolume`, `RemoveGroup` and `Wipe` are the rest of the action; `KillStops` ends
it anywhere.  `matches` is the match between device names and facts, which may be
loose: one of `Likenesses`, fixed for a node.  `pvs` may fail, which the agent takes
for an empty list.  `seen` is no part of the program: it says whether what `Look`
found is what is on the disk ("own"), or whether a loose match or a failed `pvs`
has misled it ("amiss").  A mounted volume that is `Hyphenated` is not recognised by
`is_mounted`, as the mount table shows the hyphen doubled; to remove it is tried
and fails.
Removing an origin takes its snapshots along, so that the listed snapshot is
gone when its turn comes, and the first call fails.

### NodeDeploy

A plan is the rest of its tasks: `purges`, `creates`, `mounts`, `grubTask`, made from
the disks and file systems that are not applied (`fitted`, `applied`).  `VolumeTurn`,
the guard of `Mount` and `GrubTurn` are the `requires` of the tasks: the grub task
waits for the file systems that are new, not for volumes of applied ones that grow
on a new disk.
The tasks of puppet (`CreateVolume`, `Mount`) are steps that may fail half way; the
agents run as the modules above say, beside the plan.  After a failure `MakePlan`
begins anew from the items, on whatever the plan before left on the disks: in
particular it purges a disk again that has joined the group since, or that
volumes were made on.  `calm` becomes true once; from then on nothing fails.

### VxDeploy

`disk` (raw, set up, member of the group), `imp` (the node that has the group) and
`vols`, `made`, `ready`, `carries` are what is on the disks; `vg`, `modelled`, `applied`,
`larger` the items; the rest is the plan.  The operators of the first part are the
actions of the agent with the errors they take for success (`DiskSetUp`,
`Initialised`/`AlreadyThere`/`NotYetThere`, `DiskAdded`, `VolumeMade`, ...), the
actions of the second the tasks: those that set up disks name the first node,
those on volumes the node found when the plan was made (`fsNode`), those that add
a disk or resize look for the group when they run (`Located`).
`vxdisksetup -if` on a member of a group that another node has imported erases it:
this is what makes repeated plans dangerous, and `DataDisksKept` worth stating.
`GroupMoves` moves the group between any two tasks; `ImportLands` is the import that
two actions start in the background.  An answer that is lost ends the plan after
the work was done (`NotAnswered`).

## 3. Runs

Every run checks one question.  State counts are TLC's distinct states.

| Run | Instance | Shows | States |
|---|---|---|---|
| `quiet` | 2 snapshots (one name starts the other), of which plans create and remove one; 3 agents, up to 3 calls of a removal, tasks that start while agents of earlier ones run | types; `CreatedIsFull`, `RemovedIsGone`, `ChainInOrder`, `SkippedIsGone`: answers are true, and only a late agent of an earlier task can undo them; `ImplementsLifecycle`; `TaskEnds` | 254 k |
| `unseen` | both snapshots planned, 2 agents | *violation*: "No snapshot present" is said of a snapshot that exists when the probe is lost | |
| `leftover` | as `unseen` | *violation*: a removal that succeeds leaves a cache volume | |
| `vx_remove` | 2 nodes, one of them excluded from the plan, 2 groups with one file system each, forced or not | types, `NothingForgotten`, `NothingLeft`, `AbsentWasProbed`, `PlanEnds` | 485 k |
| `vx_restore` | 2 nodes, 2 groups, forced or not | `NothingForgotten`, `AllOrNothing`; `ImplementsPlan`: the plans are those of `SnapshotPlan` | 1637 k |
| `vx_restore_together` | 2 file systems in one group, forced or not | *violation*: the check of validity ends at the first file system of a group, and the second one is restored from its invalid snapshot | |
| `lvm_careful` | 1 peer with 2 file systems, MS with a kickstart file system, no force, peers restart first | types, `RestoreIsWhole`, `RemovedWhole`, `BackupOutlivesSnapshots`; `ImplementsPlan`: the plans are those of `SnapshotPlan` | 75 k |
| `lvm_forced` | same with force, the MS restored before the restarts | `NothingLeftUnused`, `NoneRestoredIfInvalid`, `NoMergeCancelled`, `RemovedButSkipped` (a removal leaves something only on nodes it skipped), `BackupGoesLast` (no backup goes while a snapshot of its node is left that the plan did not skip) | 842 k |
| `lvm_again` | as `lvm_careful` | *violation*: a repeated restore reports snapshots it has started to merge as missing | |
| `fencing_setup` | 3 disks, one old group, the third name contains the first | types, `SetupIsComplete`, `RetrySucceeds`, `AttemptEnds` | 568 k |
| `node_deploy` | 2 disks, the group of the model with 2 volumes of which one has a mount point, another group with an origin (with a hyphen) and its snapshot, 2 names, 2 boot files; facts that match exactly, or also another disk; `pvs` may fail | types, `AppliedStands`, `MountedKept`, `BootNamesExist`, `UpdatesBootAtomically`, `EventuallyDeployed` | 1155 k |
| `vx_deploy` | 2 nodes, 2 disks, 2 file systems | types, `DataDisksKept`, `ItemsStand`, `EventuallyBuilt`, `EventuallyRemoved` | 462 k |

### Bounds, and why they are enough

- *VxSnapAgent*: two snapshots are needed for the prefix of names; the one that
  plans work on is the shorter name, so that `grep` finds the other one
  (`Planned` bounds the run; with both planned, two agents and 986 k states the
  same properties hold).  `MaxCalls = 3` is the code's own number (a call and two
  retries).  Three agents are all that a removal can have at a time (theorem
  `FewAgents`); late ones come on top of these, so the bound of three is one on the
  number of late agents: two beside a call, or one beside two calls.
- *VxSnapPlan*: the errors of scans are about "the first" and "the others", so two
  groups, or two file systems of one group, show them; two nodes are the size of
  the clusters the plugin supports for VxVM fail-over, and one excluded node
  leaves one.  `Members` and `Action` vary by run; each plan is forced or not.  All
  runs start from every state of the cluster that the types allow.
- *LvmSnapPlan*: two file systems on one node make a node's grub task wait; a
  peer and the MS make the order of nodes matter.  Several peers differ only in
  their rank; the proofs cover them.  The two file systems are interchangeable
  (`SYMMETRY Twins`), no constant tells them apart, and no liveness is checked with it.
- *FencingSetup*: I/O fencing uses three disks, and the loops have a first, a
  middle and a last one.
- *NodeDeploy*: two disks make the order of purges and volumes matter, and one of
  them may be in use when the other one is new; the foreign group may share the
  name of the model's group, and a name is free for `vgrename`; an origin with a
  snapshot shows both ways in which `kill_logicals` stops, and, mounted with a
  hyphen, the one in which `lvremove` is refused.  Of the two file systems one has a
  mount point and one has not.  One source and one generated boot file stand for
  two of each.
- *VxDeploy*: the disk a group was created with and one it is extended with, a file
  system that is there and a new one, the first node and another one.
- `NodeDeploy` and `VxDeploy` are checked without the deadlock check: a deployed
  node, or a removed group, is the end of their behaviours.
- Every loop is finite but plans may follow each other without end in all models.

### Fairness

`VxSnapAgent!FairSpec` has weak fairness of the running task and of each agent's
commands; `VxSnapPlan!FairSpec` and `FencingSetup!FairSpec` of the plan's steps.
The execution manager goes on with a plan as long as there are tasks, each call
has a timeout (explicit, or that of the RPC library), and a command that an
agent runs ends or is killed by the agent's timeout.  In these modules nothing is
assumed fair about nodes, VCS, users, new plans, or agents that stop.
`NodeDeploy!FairSpec` and `VxDeploy!FairSpec` ask what happens if the operator does not
give up: they add weak fairness of making a plan as long as items are not applied
(or are to be removed), of the agents' commands, and of the import in the
background, which `vxdg` ends by itself.  They do not assume that failures stop:
the liveness properties have `calm` on the left of the arrow, and no fairness
makes it true.  `EventuallyDeployed` also supposes that the facts tell the disks
apart and that no name of the group's volumes has a hyphen; section 5 says what
happens otherwise.

## 4. Proofs

| Module | Theorem | Establishes |
|---|---|---|
| `VxSnapAgentProofs` | `TypeCorrect` | types |
| | `AgentImplementsLifecycle` | the commands implement `SnapLifecycle`, also when agents of earlier tasks still run |
| | `CreatedStaysFull` | what was told created is complete until the next task for it, but for a late `dis` |
| | `RemovedStaysGone` | what was told removed is gone, although chains of its removal may still run, but for a late creation |
| | `SkippedStaysGone` | a snapshot skipped after an answered probe has no records, but for a late `mkvol` |
| | `ChainsInOrder` | every command of a removal finds what the one before it did, but for a late creation |
| | `FewAgents` | of the agents that the last task for a snapshot called at most `MaxCalls` run at a time, and one that creates is alone |
| | `TasksRunDown` | tasks make finitely many calls, and agents only go on |
| `SnapshotPlanProofs` | `DoneIsWhole` | a plan that may pass over nothing and is done brought every item to its goal |
| `VxSnapPlanProofs` | `TypeCorrect` | types |
| | `NoneForgotten` | an unforced plan that succeeds settled every file system |
| | `AllReported` | forced or not, it has reported on every file system |
| | `AbsentIsProbed` | a file system reported without snapshot was asked for, unless a forced scan ended at an inactive group before it |
| | `NothingIsLeft` | in a calm cluster a removal that succeeds leaves a snapshot only where its group, or one before it, was inactive and this was reported |
| | `RestoresAllOrNothing` | unforced, in a calm cluster: nothing is restored unless every snapshot is valid |
| | `CarefulFromValid` | unforced, in a calm cluster: what was restored has a valid snapshot, and so have the others of its group |
| | `VxPlansAreOrdered` | the plans implement `SnapshotPlan` |
| | `PlansAdvance` | each step takes a plan further, and nothing sets it back |
| `LvmSnapPlanProofs` | `TypeCorrect` | types, and only forced plans leave nodes out |
| | `BackupKept` | unforced: the grub.cfg backup outlives the snapshots of its node |
| | `BackupIsLast` | forced or not: no backup goes before the removals of its node were done or skipped |
| | `RemovalIsWhole` | an unforced removal that succeeds leaves nothing |
| | `RemovalSpares` | forced or not, it leaves something only on nodes it skipped |
| | `RestoredIsWhole` | an unforced restore that succeeds brings everything back |
| | `RestoresAreUsed` | forced or not, it leaves no snapshot or backup unused on the nodes it did not skip |
| | `InvalidStopsRestore` | with nodes that keep still, nothing is restored if one snapshot of a node that answers is invalid |
| | `MergesAreKept` | no plan cancels a pending merge, forced or not |
| | `LvmPlansAreOrdered`, `LvmPlansEndWhole` | the plans implement `SnapshotPlan`, and end as it promises |
| | `NoTaskWaitsInVain`, `PlansRunDown` | some turn has always come; every step leaves less to do |
| `FencingSetupProofs` | `TypeCorrect` | types |
| | `SetupComplete` | a set-up that succeeds is complete, given `NamesApart` |
| | `RetryWorks` | an attempt without failing commands succeeds whatever is on the disks, given `NamesApart` |
| | `CreationHasOutcome` | an imported group has disks, so that the creation has one of the outcomes the agent knows |
| | `AttemptsAdvance` | each step takes an attempt further |
| `GrubUpdateProofs` | `GrubIsAtomic` | the grub agent implements `AtomicUpdate` |
| `NodeDeployProofs` | `TypeCorrect` | types |
| | `BootIsAtomic` | so it does when plans call it again and again |
| | `AppliedStandsAlways` | what is applied and has a mount point stands, and so do the applied disks |
| | `MountedAreKept` | no step takes what is mounted, but for the disk that is purged if the agent was misled about it |
| | `BootNamesAlwaysExist` | the boot files name what exists |
| | `NoTaskWaitsInVain` | given `SpareName`: a plan that runs has a task that can go on, or an agent that can |
| | `PlansRunDown` | each step finishes or calls something, or takes an agent to a later command |
| `VxDeployProofs` | `TypeCorrect` | types |
| | `DisksKept` | disks that volumes lie on stay in the group |
| | `ItemsAlwaysStand` | given `NamesApart`: applied items stand |
| | `FilesAlwaysStand` | applied file systems stand, whatever the names |
| | `NoTaskWaitsInVain` | a plan that runs has a task that finds what it needs, or finds the group away and ends |
| | `PlansRunDown` | each step leaves fewer tasks |

They hold for any number of snapshots, agents, nodes, groups, file systems and
disks.  The assumptions are the `ASSUME`s of the modules, evaluated by each run:
finite scans without repetition, the MS comes last, every peer has a file system,
names contain themselves, boot files come once and sources first, a volume and
its snapshots are in one group.  `NamesApart` is a hypothesis of two fencing
theorems and of `ItemsAlwaysStand`, because the code relies on it without checking
it.it; section 5 says what happens otherwise.  `SpareName` of one
theorem is what a random name for `vgrename` is for.

*Arguments.*

- **VxSnapAgent.** `IInv` adds `Asked` (a running task has been told "asked", and
  the agent it waits for works on its snapshot) and `Backed` (a snapshot volume
  stands on a started cache, a cache object on its volume).  Without `Backed` a
  single command could take a snapshot from complete to gone; without `Asked` an
  answer could be told of another snapshot.  With both every step is a step of
  `SnapLifecycle` or a stutter, by cases over the commands.
  The four theorems about answers rest on `Together`: agents that are not stale
  work for the last task of their snapshot, a create agent among them is alone,
  and none of them works on a snapshot that was told created or skipped.  So a
  command that changes the records of a snapshot after an answer belongs to a
  chain of the same kind, which cannot undo what another one did (`OthersKept`,
  `OrderKept`), or to a stale agent (`WhoUndoes`), and which commands of that could
  matter is read off the records.  Nothing is supposed about how long agents
  live.  `Counted` adds that the agents that are not stale (`Crew`) are no more
  than the calls of the task so far.
- **VxSnapPlan.** `NothingForgotten` speaks of the end of a plan; `Accounted` says
  it of every task already run (by its position in `Scan`), `InPlan` bounds the
  position, and `Looked` says that when the task of a file system is judged it
  has an inactive group or was probed - whatever `break`, `continue` or `return`
  the scans took on the way - or that a forced scan ended at an inactive group
  before it (`CutShort`).
  `RemovalInv` leads to `NothingLeft`: in a cluster that keeps still the data manager
  knows the active nodes (`Charted`), the scan of a task has found its snapshot if
  there is one and the scan came to it (`Searched`), and so every task behind the
  plan has left nothing, or a group up to its own was reported inactive (`Cleared`).
  `SteadyInv` leads to `AllOrNothing`: in a cluster that keeps still the data
  manager holds what is true (`Knows`), the first check makes all groups active
  for good (`Held`), and since a scan stops at the first snapshot of a group, it
  never marks two file systems that follow each other in one group
  (`PresenceScanned`).  So the check of presence refuses such a group, and when it
  passes, the scan for validity has looked at all (`ValidityScanned`).  The
  same break makes a forced restore fail `RestoredTogether` (`vx_restore_together`);
  `CarefulFromValid` is that property, proved without force.
  For `ImplementsPlan` the tasks to come are the file systems not yet at, or past,
  the position of the plan; a task that passes on found no snapshot, which is
  lenient, and a restore has passed the checks.
- **LvmSnapPlan.** `BackupInv` follows the tasks of a node: as long as its grub
  task is to come, or a snapshot is listed, the backup is there.  `RemovalInv`
  says that snapshots and backups whose task is done are gone.  `RestoreInv` is
  the long one: before the checks ran nothing is done; after them a changed file
  system still has a live snapshot or merge, a done one is not listed, and once
  its node restarted it is back.  It needs that a snapshot which turns invalid after the
  check makes its own task fail, and that merges which 404 passes over were
  started by an earlier plan.  `UsedInv` is the same for a forced restore, with
  "done or skipped" for "done".  `ValidInv` says that no node that answers has an
  invalid snapshot once the checks of a restore are over, and of the MS file
  systems that are not modelled already when it is planned.
  `ImplementsPlan` maps what waits for a merge, or merges, to *spent*.  Each task is
  taken in its turn (`LvTurn`, `GrubsTurn`) and changes its item alone (`LvEffect`,
  `GrubEffect`); a 404 leaves the item as it was, which is the goal for one that is
  gone or spent, and only a forced plan passes over others (`MaySkip`).  With it
  `LvmPlansEndWhole` follows from `DoneIsWhole` of `SnapshotPlan`.  `NoTaskWaitsInVain`
  is about the guards: of the peers left, one has the lowest rank, and the MS and
  the two restarts wait in a line, so some turn has always come.
- **FencingSetup.** `Cleared`, `Freed`, `Begun`, `Filled` and `Made` say what each
  call finds: old keys gone, the disks before the cursor free, the group imported
  and without flag while it is filled, and complete from then on.  The key is
  `Freed`: because the check of each disk imports the group it found *and* takes
  the coordinator flag away before it destroys it, no state of an earlier attempt
  can make a later call refuse.
- **GrubUpdate.** `GrubInv` says, for each phase, what files and backups read up to
  the file the loop has come to and beyond it: while it edits, every present file
  has a backup that reads what the file read when the update was asked for, so
  that what a stopped agent left in `/var/tmp` is overwritten before it can be
  restored.  Every step is then one of `AtomicUpdate` or a stutter.
- **NodeDeploy.** `Turns` is the order of tasks, and that only new disks are purged;
  `Looked` keeps the found group the group of the disk that is purged if the agent
  was not misled; `Stands` says that applied file systems with a mount point are
  mounted and then applied disks in the group, and what of this the running plan
  has done; `NamesStand` that boot files, their backups and the request of a
  running agent name mounted volumes, as far as they have a mount point.  What
  is mounted is kept by the agent itself: it looks at the mount table before each
  volume, and `lvremove` and `vgremove` are refused.  This holds for whatever group
  it has found, so that the volumes and all disks but the one it wipes are safe
  also if it has found the wrong one, and no proviso about `pvs` or facts is needed.
  `Answering` is what the plan's waiting rests on: a call that is waited for has an
  agent or an answer, the grub agent works only for the grub task that has called
  it, and some source file is there to edit.
- **VxDeploy.** `Phase` says what a plan may still contain; `Kept` that disks to be set
  up or added carry no volumes, because carrying ones are applied as soon as no
  plan runs, and that no volume exists before a new group is created.  A founder
  that is set up again by a repeated plan therefore carries nothing.  `Built`
  and `Joined` say that what is not made, or not added, is still among the tasks, so
  that a plan that ends leaves its item open.  `Grounded` is what tasks find:
  `Rooted` (an applied group has an applied disk in it, which no plan sets up
  again, so that a group does not vanish by repeated set-ups), `SetUpFirst` (no disk
  is still raw that the creation or an addition waits for), and `Provided` (what is
  to be formatted, prepared or resized has its volume or is to get it).
- **Plans are finite.**  The liveness properties are out of the prover's reach, but
  not the half of them that is safety.  For each module two facts are proved:
  every step of a plan, task or agent brings it nearer to its end, and nothing
  that happens around it sets it back (`TasksRunDown`, `PlansAdvance`, `PlansRunDown`,
  `AttemptsAdvance`); and where tasks wait for each other, the turn of some task
  always comes and finds what it needs (`NoTaskWaitsInVain`).  What
  remains to TLC is that fair scheduling then ends a plan, and that repeated plans
  reach their goal.

*Only model-checked.*  Liveness (`TaskEnds`, `PlanEnds`, `AttemptEnds`,
`EventuallyDeployed`, `EventuallyBuilt`, `EventuallyRemoved`) is out of the
prover's reach, as it needs fairness and `ENABLED`; the safety half of it is proved,
as above, with guards written out instead of `ENABLED`.  Every invariant, every
action property and every refinement that a passing run checks is also proved.

## 5. What the work has shown

The findings, each with the run that shows it, are in `PROJECT.json`: a lost probe
reads as "no snapshot" (`unseen`); a removal leaves a cache volume (`leftover`);
only the first snapshot of a group is checked (`vx_restore_together`); a restore of
LVM snapshots cannot be repeated (`lvm_again`).

Observations that change the parameters of a run show, without a run of their own:

- A late agent does undo what a plan was told: each exception of `CreatedIsFull`,
  `RemovedIsGone`, `ChainInOrder` and `SkippedIsGone` is needed, and without it TLC
  finds the property violated.  For instance a removal whose calls all ran out of
  time fails, the snapshot is created anew and reported so, and then the agent of the
  old removal dissociates it (`vxvm.py:1795`, agent timeout `vxvmsnapshot.ddl:7`).
- A forced removal that meets a group without active node leaves the scan with
  `return` (`vxvm_snapshot_data_mgr.py:633`), so that the snapshots of the groups
  after it are reported as "not present" (`vxvm.py:1881`), unprobed, and stay.
  `CutShort` in `AbsentWasProbed`, and "or one before it" in `NothingLeft`, are this
  case; without them TLC finds both properties violated.
- In the instance of `vx_remove` a removal takes a snapshot that a restore still
  synchronises from: the check that no restore is in progress goes by errors only (`vxvm_snapshot_data_mgr.py:764`), and
  the pipe into `awk` (`vxvmsnapshot.rb:213`) has none.
- `AppliedStands` fails if it is said of file systems without a mount point too: a
  plan that extends a group with a new disk and fails after the disk has joined
  is repeated, the disk is purged "of any detritus" (`lvm.py:604`), and
  `kill_logicals` removes the volumes of the *applied* group that are not mounted
  and come before the first mounted one (`killpart.rb:164-193`).
- The exception of `MountedKept` is what the code does: an empty list of physical
  volumes is not `nil` (`killpart.rb:232`), and the disk of a group in use is
  wiped; likewise if a device name starts another one (`killpart.rb:254`).
- `EventuallyDeployed` fails where such a match is possible: the agent looks at
  the other disk, finds a group in use there, and answers success without having
  purged its own, each time.
- `EventuallyDeployed` fails also if a mounted volume of the model's group has a
  hyphen in its name: `is_mounted` (`killpart.rb:109`) does not double it, so that
  the repeated purge of a disk that has joined the group tries to remove the volume
  and fails, instead of passing over it.  Only the names of a root group are
  validated (`lvm.py:1015`).
- `ItemsStand` fails with a disk name that is part of another one in `Contains`
  (`vxvm.rb:43`), as `SetupIsComplete` does: the disk is never added, with success.

Smaller observations, without a run:

- `'is merging'` at `volmgr_plugin.py:2920` is looked up among host names, so the
  list of merging nodes is never reported.
- `vgdg_set_coordinator_on` and `import_disk_group_t_flag` answer with `retcode`
  where callers read `status`; a failed coordinator flag passes (`SetupIsComplete`
  promises the flag only if no command failed).  A failed second import is found
  by the deport that follows it.
- a forced LVM removal may take the backup of a node that keeps its snapshots: it
  pings for each task, and a node that is not reachable for its file systems may
  be for its grub task.  `RemovedButSkipped` and `BackupGoesLast` say what still holds.
- `create_disk_group` answers success whenever the group exists and is imported,
  whichever disks it has (`vxvm.rb:338`): a disk that is added to the model after a
  creation that was not answered, or set up again while the group was not
  imported, is applied outside the group.  `ItemsStand` leaves out the disks that a
  group was created for.
- a removal of a disk group succeeds though the group is imported elsewhere, or is
  still being imported: the codes 9, 11 and 1 (`vxvm.rb:314-392`) are taken for
  "already gone".
- a file system whose grub task failed is applied already, so that no later plan
  has a grub task for it (`lvm.py:738-754`).
- `ftask.task_list[0]` (`lvm.py:731`) supposes ordered task lists, but the task that
  resizes a physical volume is a plain one: a plan with a purge and a resize in
  one group cannot be made.
- code 2 of `vxdisk resize` is answered as success (`vxvm.rb:136`).
- when a snapshot and its origin are purged, the first call fails and the second
  one goes on (`killpart.rb:164`).
- `_wait_for_vxvm_restore_rpc` is registered as a callback, but no task uses it.

## 6. What is not modelled, and why

- Names, sizes, messages and logging, except where the code decides by them
  (prefix and substring matches).
- Snapshots with a tag in LVM plans take the same steps without grub and restore.
- The overflow of an LVM snapshot whose merge waits for the restart of its node:
  nothing in `src/` looks at the snapshot again, and what becomes of it is up to LVM.
  A snapshot that overflows before its merge task is modelled.
- The content of answers: a call is answered truly, not at all, or with an error.
- In `FencingSetup` a repeated call does not overlap with the first; in `VxDeploy` a
  call that is not answered has ended before the next plan.
- In `NodeDeploy`: `pvresize`, changes of sizes and mount points of applied file
  systems, removal of file systems, several groups of the model on one node,
  reinstallation of the operating system.  A grub call waits longer than the
  agent may run, so that no two grub agents overlap.
- In `VxDeploy`: `clear_keys` before a set-up (`FencingSetup` has the keys),
  `resize_disk`, the order of a resize and the redeployment of its service, several
  groups of a cluster.
- The task that waits for a VxVM restore (`_wait_for_restore_task`, `vxvm.py` 1294, and
  `_wait_for_vxvm_restore_rpc`): nothing in `src/` creates it, so that a restore plan
  ends while VxVM still synchronises.
- The create plan for VxVM snapshots is modelled by its agent call
  (`VxSnapAgent`), not with the query before it.
- The components marked `not_modelled` in `PROJECT.json`; see the plan.

## 7. Plan

In this order; each module is written to be proved about (constants with
assumptions, an action per operation, no recursive operators).

1. *Done*: `VxSnapAgent` with `SnapLifecycle`, `VxSnapPlan` and `LvmSnapPlan` with
   `SnapshotPlan`, `FencingSetup`; `GrubUpdate` with `AtomicUpdate`, `Killpart`,
   `NodeDeploy`; `VxDeploy`; every safety property proved.  Next in the proofs: an
   abstract specification of a deployment plan (items are applied when their
   tasks are done) implemented by `NodeDeploy` and `VxDeploy`.
2. `RebootPlan`: `SnapshotRebootPlanner` and the restart and wait callbacks; nodes
   that come up late, the one time stamp; refines the two restart steps of
   `LvmSnapPlan` (abstract specification: each node restarts once, peers first).
3. `NodeDeploy`: growth of disks and changes of applied file systems.
4. `SizeArith`: snapshot sizes and rounding as operators against a reference, and
   the validation predicates as operators over small models.
