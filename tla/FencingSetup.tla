---------------------------- MODULE FencingSetup ----------------------------
(***************************************************************************)
(* The task vx_disk_group_setup (drivers/vxvm.py) that makes the           *)
(* coordinator disk group of a cluster out of its fencing disks, call by   *)
(* call, with what each action of the vxvm agent does on the node.  The    *)
(* disks may carry groups of an earlier installation, or of an earlier     *)
(* attempt: the task has no memory, so a plan that is run again after a    *)
(* failure at any call starts from the first call on what is there.        *)
(***************************************************************************)
EXTENDS Naturals

CONSTANTS
    N,        \* the fencing disks are 1 .. N, in the order of the model
    Ours,     \* the group of this cluster, vxfencoorddg_<cluster>
    Olds,     \* other groups that the disks may belong to
    Contains  \* <<d, e>>: the device name of d contains that of e

Disks == 1 .. N
Groups == {Ours} \cup Olds

ASSUME FencingAssumption == /\ N \in Nat \ {0}
                            /\ Ours \notin Olds
                            /\ Groups \cap {"raw", "free"} = {}
                            /\ Contains \subseteq Disks \X Disks
                            /\ \A d \in Disks : <<d, d>> \in Contains

\* No disk has a name that is part of the name of a disk before it.
NamesApart == \A d, e \in Disks : <<d, e>> \in Contains => d >= e

VARIABLES
    disk,     \* raw, free (set up for VxVM), or the group each disk is in
    imported, \* groups that are imported on the node
    auto,     \* groups whose last import was without -t
    coord,    \* groups with the coordinator flag
    keys,     \* disks with SCSI-3 keys of an earlier owner
    pc,       \* the call the task makes next, or how it ended
    cur,      \* the disk the task is at
    found,    \* the group that vxdisk list showed for that disk
    tries,    \* calls without an answer so far, of those that are repeated
    calm      \* no command of this attempt fails for a reason of its own

records == <<disk, imported, auto, coord, keys>>
task == <<pc, cur, found, tries, calm>>
vars == <<records, task>>

Calls == {"clear", "list", "import", "uncoord", "destroy", "setup", "create",
          "add", "coord", "deport", "reimport", "redeport"}

RecordsTyped == /\ disk \in [Disks -> {"raw", "free"} \cup Groups]
                /\ imported \subseteq Groups
                /\ auto \subseteq Groups
                /\ coord \subseteq Groups
                /\ keys \subseteq Disks

TaskTyped == /\ pc \in Calls \cup {"done", "failed"}
             /\ cur \in Disks
             /\ found \in Groups
             /\ tries \in 0 .. 1

TypeOK == RecordsTyped /\ TaskTyped /\ calm \in BOOLEAN

-----------------------------------------------------------------------------
\* Calls and their answers.

Goto(call, d) == pc' = call /\ cur' = d /\ tries' = 0 /\ UNCHANGED <<found, calm>>

\* CallbackExecutionException: the task fails, and with it the plan.
Stop == pc' = "failed" /\ UNCHANGED <<cur, found, tries, calm>>

\* Mutant of Repeat: calls without an answer are repeated forever.
RepeatForever == tries' = 1 - tries /\ UNCHANGED <<pc, cur, found, calm>>

\* A call with retries=1 is repeated once when no answer comes in time,
\* although the agent has done its work.
Repeat == /\ tries = 0 /\ tries' = 1
          /\ UNCHANGED <<pc, cur, found, calm>>

\* The agent has done its work, and answers; unless calm it may also report
\* an error, after part of its work that does not show.
Answer(call, d) == Goto(call, d) \/ (~calm /\ Stop)
AnswerOrRepeat(call, d) == Answer(call, d) \/ Repeat

\* The next disk of a loop over all disks, or what comes after the loop.
NextDisk(call, after) == IF cur < N THEN AnswerOrRepeat(call, cur + 1)
                                    ELSE AnswerOrRepeat(after, 1)

\* A call that has no effect, and fails.
Fault == /\ pc \in Calls /\ ~calm
         /\ Stop
         /\ UNCHANGED records

-----------------------------------------------------------------------------
\* What the agent's commands do.

Exists(g) == \E d \in Disks : disk[d] = g

\* vxfenadm: the registrations, then the reservations of the disk.  What the
\* commands that preempt or clear a key report is not read.
KeysCleared(d) == /\ keys' = keys \ {d} \/ (~calm /\ keys' = keys)
                  /\ UNCHANGED <<disk, imported, auto, coord>>

\* vxdg -t import; the action answers with a retcode that nobody reads, so
\* that a failed import looks like any other.
ImportT(g) ==
    \/ /\ Exists(g) /\ g \notin imported
       /\ imported' = imported \cup {g} /\ auto' = auto \ {g}
       /\ UNCHANGED <<disk, coord, keys>>
    \/ /\ ~Exists(g) \/ g \in imported \/ ~calm
       /\ UNCHANGED records

\* vxdg set coordinator=on and off: needs the group imported.  The outcome is
\* a retcode again.
CoordinatorOn(g) ==
    \/ /\ g \in imported /\ coord' = coord \cup {g}
       /\ UNCHANGED <<disk, imported, auto, keys>>
    \/ (g \notin imported \/ ~calm) /\ UNCHANGED records

\* Mutant of CoordinatorOff: the flag stays.
CoordinatorOffNot(g) == UNCHANGED records

CoordinatorOff(g) ==
    \/ /\ g \in imported /\ coord' = coord \ {g}
       /\ UNCHANGED <<disk, imported, auto, keys>>
    \/ (g \notin imported \/ ~calm) /\ UNCHANGED records

\* vxdg deport, of an imported group only.
Deported(g) == /\ g \in imported /\ imported' = imported \ {g}
               /\ UNCHANGED <<disk, auto, coord, keys>>

\* vxdg destroy; 11, no such disk group, is a success: the group is not
\* imported.  A coordinator group cannot be destroyed.
Destroyed(g) ==
    \/ g \notin imported /\ UNCHANGED records
    \/ /\ g \in imported \ coord
       /\ disk' = [d \in Disks |-> IF disk[d] = g THEN "free" ELSE disk[d]]
       /\ imported' = imported \ {g} /\ auto' = auto \ {g}
       /\ UNCHANGED <<coord, keys>>

\* vxdisksetup -if, with vxdiskunsetup and once more if need be.  A disk of an
\* imported group cannot be reinitialized, which is taken for a success.
DiskSetUp(d) ==
    /\ disk' = IF disk[d] \in imported THEN disk
                                       ELSE [disk EXCEPT ![d] = "free"]
    /\ UNCHANGED <<imported, auto, coord, keys>>

\* vxdg -f import in the background, to recover an earlier plan, then vxdg
\* init, which fails with "exists and is imported" if the import was first.
GroupCreated(d) ==
    \/ /\ Exists(Ours)
       /\ imported' = imported \cup {Ours}
       /\ auto' = IF Ours \in imported THEN auto ELSE auto \cup {Ours}
       /\ UNCHANGED <<disk, coord, keys>>
    \/ /\ Ours \notin imported /\ disk[d] = "free"
       /\ disk' = [disk EXCEPT ![d] = Ours]
       /\ imported' = imported \cup {Ours}
       /\ auto' = auto \cup {Ours} /\ coord' = coord \ {Ours}
       /\ UNCHANGED keys

\* disk_is_in_group: grep finds the names in one line of vxdisk list.
InGroup(d) == \E e \in Disks : <<e, d>> \in Contains /\ disk[e] = Ours

\* vxdg adddisk, unless the disk is in the group.
CanAdd(d) == InGroup(d) \/ (Ours \in imported \ coord /\ disk[d] = "free")
DiskAdded(d) == /\ CanAdd(d)
                /\ disk' = IF InGroup(d) THEN disk
                                         ELSE [disk EXCEPT ![d] = Ours]
                /\ UNCHANGED <<imported, auto, coord, keys>>

-----------------------------------------------------------------------------
\* The task.

\* _clear_scsi_keys: registrations and reservations of every disk.
ClearKeys == pc = "clear" /\ KeysCleared(cur) /\ NextDisk("clear", "list")

\* _check_disk_for_dg: the group in the output of vxdisk list, if there is one.
ListDisk == /\ pc = "list"
            /\ \/ /\ disk[cur] \in Groups
                  /\ found' = disk[cur] /\ pc' = "import"
                  /\ UNCHANGED <<cur, tries, calm>>
               \/ disk[cur] \notin Groups /\ Goto("setup", cur)
            /\ UNCHANGED records

ImportFound == pc = "import" /\ ImportT(found) /\ Answer("uncoord", cur)
UncoordFound == pc = "uncoord" /\ CoordinatorOff(found) /\ Answer("destroy", cur)
DestroyFound == /\ pc = "destroy"
                /\ \/ Destroyed(found) /\ Answer("setup", cur)
                   \/ found \in imported \cap coord /\ Stop /\ UNCHANGED records

\* _setup_vx_disk, after the check of each disk.
SetUpDisk == /\ pc = "setup"
             /\ DiskSetUp(cur)
             /\ NextDisk("list", "create")

\* Mutant of AddDisk: the loop goes one disk too far.
AddDiskTooFar ==
    /\ pc = "add"
    /\ \/ DiskAdded(cur) /\ (IF cur <= N THEN AnswerOrRepeat("add", cur + 1)
                                         ELSE AnswerOrRepeat("coord", 1))
       \/ ~CanAdd(cur) /\ Stop /\ UNCHANGED records

\* _initialise_vx_disk_group: the first disk, then the others one by one.
CreateGroup == /\ pc = "create"
               /\ \/ GroupCreated(1) /\ NextDisk("add", "coord")
                  \/ ~Exists(Ours) /\ disk[1] # "free" /\ Stop /\ UNCHANGED records
AddDisk == /\ pc = "add"
           /\ \/ DiskAdded(cur) /\ NextDisk("add", "coord")
              \/ ~CanAdd(cur) /\ Stop /\ UNCHANGED records

SetCoordinator == pc = "coord" /\ CoordinatorOn(Ours) /\ Answer("deport", 1)

Deport == /\ pc = "deport"
          /\ \/ Deported(Ours) /\ Answer("reimport", 1)
             \/ Ours \notin imported /\ Stop /\ UNCHANGED records

\* Mutant of Reimport: imported without -t.
ReimportPlain == /\ pc = "reimport"
                 /\ imported' = imported \cup {Ours}
                 /\ UNCHANGED <<disk, auto, coord, keys>>
                 /\ Answer("redeport", 1)

\* Imported with -t, to disable auto import at the next reboot.
Reimport == pc = "reimport" /\ ImportT(Ours) /\ Answer("redeport", 1)

Redeport == /\ pc = "redeport"
            /\ \/ Deported(Ours) /\ Answer("done", 1)
               \/ Ours \notin imported /\ Stop /\ UNCHANGED records

\* A new plan after a failure runs the task from its start.
Again == /\ pc = "failed"
         /\ pc' = "clear" /\ cur' = 1 /\ tries' = 0 /\ calm' \in BOOLEAN
         /\ UNCHANGED <<records, found>>

\* The node restarts: groups are imported that were not with -t.
NodeRestart == /\ imported' = {g \in auto : Exists(g)}
               /\ UNCHANGED <<disk, auto, coord, keys>>
               /\ IF pc \in Calls THEN ~calm /\ Stop ELSE UNCHANGED task

Step == \/ ClearKeys \/ ListDisk \/ ImportFound \/ UncoordFound \/ DestroyFound
        \/ SetUpDisk \/ CreateGroup \/ AddDisk \/ SetCoordinator
        \/ Deport \/ Reimport \/ Redeport

Init == /\ disk \in [Disks -> {"raw", "free"} \cup Groups]
        /\ imported \in SUBSET {g \in Groups : Exists(g)}
        /\ auto \in SUBSET Groups
        /\ coord \in SUBSET Groups
        /\ keys \in {{}, Disks}
        /\ pc = "clear" /\ cur = 1 /\ found = Ours /\ tries = 0
        /\ calm \in BOOLEAN

Next == Step \/ Fault \/ Again \/ NodeRestart

Spec == Init /\ [][Next]_vars

\* The execution manager goes on to the next call, and every call ends.
FairSpec == Spec /\ WF_vars(Step)

-----------------------------------------------------------------------------
\* The task only ends well with all fencing disks in the group of the cluster,
\* and the group deported so that also a restart does not import it.  Old keys
\* are gone and the coordinator flag is on if no command failed: these are the
\* failures that go unnoticed (vxvm.rb sets retcode where status is read).
SetupIsComplete == pc = "done" => /\ \A d \in Disks : disk[d] = Ours
                                  /\ Ours \notin imported
                                  /\ calm => keys = {} /\ Ours \in coord

\* Whatever an earlier installation, or attempts that failed at any call,
\* left on the disks, an attempt in which no command fails for a reason of
\* its own succeeds, even if every repeatable call is made twice.
RetrySucceeds == calm => pc # "failed"

\* Every attempt ends.
AttemptEnds == pc \in Calls ~> pc \in {"done", "failed"}

\* The inductive invariant of FencingSetupProofs: what each call finds.
Cleared == calm => /\ pc = "clear" => \A d \in keys : d >= cur
                   /\ pc \notin {"clear", "failed"} => keys = {}
Freed == /\ pc \in {"list", "import", "uncoord", "destroy", "setup"} =>
               \A d \in Disks : d < cur => disk[d] = "free"
         /\ pc \in {"import", "uncoord", "destroy"} => disk[cur] = found
         /\ pc = "destroy" /\ calm => found \notin imported \cap coord
         /\ pc = "setup" => disk[cur] \notin imported
Begun == pc = "create" =>
            /\ cur = 1
            /\ \A d \in Disks : d > 1 => disk[d] = "free"
            /\ \/ disk[1] = "free"
               \/ disk[1] = Ours /\ Ours \in imported \ coord
Filled == pc = "add" =>
            /\ Ours \in imported \ coord
            /\ \A d \in Disks : d < cur => disk[d] = Ours
            /\ \A d \in Disks : d > cur => disk[d] = "free"
            /\ disk[cur] \in {"free", Ours}
Made == /\ pc \in {"coord", "deport", "reimport", "redeport", "done"} =>
               \A d \in Disks : disk[d] = Ours
        /\ pc \in {"coord", "deport"} => Ours \in imported
        /\ pc \in {"deport", "reimport", "redeport", "done"} =>
               (calm => Ours \in coord)
        /\ pc = "reimport" => Ours \notin imported
        /\ pc = "redeport" => /\ calm => Ours \in imported
                              /\ Ours \in imported => Ours \notin auto
        /\ pc = "done" => Ours \notin imported \cup auto
=============================================================================
