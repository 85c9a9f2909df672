------------------------------ MODULE VxDeploy ------------------------------
(***************************************************************************)
(* The plans that build, extend and remove a VxVM disk group with data     *)
(* (drivers/vxvm.py), task by task, with what the actions of the vxvm      *)
(* agent do.  The group is imported on one node at a time; the tasks that  *)
(* set up disks run on the first node of the cluster, those on volumes on  *)
(* the node that had the group when the plan was made, and others look for *)
(* the group when they run.  Between any two tasks the group may move to   *)
(* another node.  A task that fails or is not answered ends the plan, and  *)
(* the next plan is made from the items that are not applied.              *)
(***************************************************************************)
EXTENDS Naturals

CONSTANTS
    Nodes, First,  \* the nodes of the cluster, and its first one
    NoNode,        \* no node
    Disks,         \* disks for the group, shared by the nodes
    Fs,            \* file systems, each on the volume of the same name
    Contains       \* <<d, e>>: the device name of d contains that of e

ASSUME VxAssumption == /\ First \in Nodes /\ NoNode \notin Nodes
                       /\ Disks \cap Fs = {}
                       /\ Contains \subseteq Disks \X Disks
                       /\ \A d \in Disks : <<d, d>> \in Contains

VARIABLES
    disk,      \* raw, set (up for VxVM), or member of the group
    imp,       \* the node that has the group imported
    landing,   \* a node with an import in the background
    vols,      \* volumes of the group,
    made,      \*   those with a file system,
    ready,     \*   and those prepared for snapshots
    carries,   \* disks that volumes lie on
    vg,        \* the state of the item of the group
    modelled,  \* the disks and file systems of the model
    applied,   \* those whose item is applied
    larger,    \* applied file systems with a new size
    running,   \* is a plan running?
    fsNode,    \* the node its volume tasks name
    founding,  \* is it still to create the group ("due")?
    founders,  \* disks that the group was created for
    setups, adds,               \* disks it is still to set up, and to add
    volumes, formats, prepares, \* file systems it is still to make
    resizes,                    \* and to resize
    teardown,  \* the task of a removal that comes next
    unsetups,  \* disks it is still to give back
    calm       \* do calls no longer fail, and does the group stay?

content == <<vols, made, ready, carries>>
store == <<disk, imp, landing, content>>
model == <<vg, modelled, applied, larger, founders>>
todo == <<founding, setups, adds, volumes, formats, prepares, resizes, teardown, unsetups>>
vars == <<store, model, running, fsNode, todo, calm>>

TypeOK == /\ disk \in [Disks -> {"raw", "set", "member"}]
          /\ imp \in Nodes \cup {NoNode} /\ landing \in Nodes \cup {NoNode}
          /\ vols \subseteq Fs /\ made \subseteq vols /\ ready \subseteq vols
          /\ carries \subseteq Disks
          /\ vg \in {"initial", "applied", "removal", "removed"}
          /\ modelled \subseteq Disks \cup Fs /\ applied \subseteq modelled
          /\ larger \subseteq Fs /\ founders \subseteq Disks
          /\ running \in BOOLEAN /\ fsNode \in Nodes
          /\ founding \in {"no", "due"}
          /\ setups \subseteq Disks /\ adds \subseteq Disks
          /\ volumes \subseteq Fs /\ formats \subseteq Fs /\ prepares \subseteq Fs
          /\ resizes \subseteq Fs
          /\ teardown \in {"none", "stop", "destroy", "unsetup"}
          /\ unsetups \subseteq Disks
          /\ calm \in BOOLEAN

-----------------------------------------------------------------------------
\* What the commands of the agent do.

Members == {d \in Disks : disk[d] = "member"}
Exists == Members # {}

\* vxdisksetup -if, vxdiskunsetup -Cf and vxdisksetup once more.  Only a disk
\* of a group that this node has imported cannot be reinitialized, which is
\* taken for a success; any other disk is, also one of a group elsewhere.
DiskSetUp(d) == /\ disk' = IF disk[d] = "member" /\ imp = First
                           THEN disk ELSE [disk EXCEPT ![d] = "set"]
                /\ UNCHANGED <<imp, landing, content>>

\* The import in the background, then vxdg init on the first node with all the
\* disks.  A group that is there and imported is taken for the new one.
Initialised(D) == /\ \A d \in D : disk[d] = "set"
                  /\ disk' = [d \in Disks |-> IF d \in D THEN "member" ELSE disk[d]]
                  /\ imp' = First /\ UNCHANGED landing
                  /\ vols' = {} /\ made' = {} /\ ready' = {} /\ carries' = {}
AlreadyThere == /\ Exists /\ imp \in {First, NoNode}
                /\ imp' = First /\ UNCHANGED <<disk, landing, content>>
NotYetThere == /\ imp # First /\ \E d \in modelled \cap Disks : disk[d] # "set"
               /\ landing' = IF imp = NoNode /\ Exists THEN First ELSE landing
               /\ UNCHANGED <<disk, imp, content>>

\* get_dg_hostname: the node that has the group, or the first one, which is
\* made to import it.
Located == imp' = IF imp = NoNode THEN First ELSE imp

\* disk_is_in_group: grep finds the names in one line of vxdisk list.
InGroup(d) == \E e \in Members : <<e, d>> \in Contains

\* Mutant of DiskAdded: on the first node, not on the one that has the group.
DiskAddedOnFirst(d) ==
    /\ InGroup(d) \/ (disk[d] = "set" /\ imp = First)
    /\ disk' = IF InGroup(d) THEN disk ELSE [disk EXCEPT ![d] = "member"]
    /\ UNCHANGED <<imp, landing, content>>

\* vxdg adddisk on the node that has the group, unless the disk is in it.
DiskAdded(d) == /\ InGroup(d) \/ disk[d] = "set"
                /\ disk' = IF InGroup(d) THEN disk ELSE [disk EXCEPT ![d] = "member"]
                /\ Located /\ UNCHANGED <<landing, content>>

\* vxassist make, unless vxprint shows the volume.
VolumeMade(f) == /\ imp = fsNode /\ Exists
                 /\ vols' = vols \cup {f}
                 /\ IF f \in vols THEN UNCHANGED carries
                    ELSE \E D \in SUBSET Members : D # {} /\ carries' = carries \cup D
                 /\ UNCHANGED <<disk, imp, landing, made, ready>>

\* mkfs, and vxsnap prepare.
Formatted(f) == /\ imp = fsNode /\ f \in vols /\ made' = made \cup {f}
                /\ UNCHANGED <<disk, imp, landing, vols, ready, carries>>
Prepared(f) == /\ imp = fsNode /\ f \in vols /\ ready' = ready \cup {f}
               /\ UNCHANGED <<disk, imp, landing, vols, made, carries>>

\* vxresize, which may take space on any disk of the group.
Resized(f) == /\ f \in vols /\ Located
              /\ \E D \in SUBSET Members : carries' = carries \cup D
              /\ UNCHANGED <<disk, landing, vols, made, ready>>

-----------------------------------------------------------------------------
\* Plans.

Work == modelled \ applied

\* Mutant of NewDisks: the disks of an applied group are set up once more.
AllDisks == modelled \cap Disks

NewDisks == IF vg = "initial" THEN modelled \cap Disks ELSE Work \cap Disks

\* gen_tasks_for_storage_profile: all disks of a new group are set up, and new
\* disks of an applied one are set up and added.  A new file system of an
\* applied group needs the node of the group, now; a new group is taken to
\* stay on the first node.
MakePlan ==
    /\ ~running /\ vg \in {"initial", "applied"}
    /\ vg = "initial" \/ Work # {} \/ larger # {}
    /\ running' = TRUE
    /\ setups' = NewDisks
    /\ founding' = IF vg = "initial" THEN "due" ELSE "no"
    /\ adds' = IF vg = "applied" THEN NewDisks ELSE {}
    /\ volumes' = Work \cap Fs /\ formats' = Work \cap Fs /\ prepares' = Work \cap Fs
    /\ resizes' = larger
    /\ IF vg = "applied" /\ Work \cap Fs # {}
       THEN Located /\ fsNode' = imp' ELSE fsNode' = First /\ UNCHANGED imp
    /\ UNCHANGED <<disk, landing, content, model, teardown, unsetups, calm>>

\* destroy_vg_tasks: the tasks of a removal are all on the first node.
MakeRemoval ==
    /\ ~running /\ vg = "removal"
    /\ running' = TRUE /\ teardown' = "stop" /\ unsetups' = modelled \cap Disks
    /\ UNCHANGED <<store, model, fsNode, calm, founding, setups, adds, volumes, formats,
                   prepares, resizes>>

\* Mutant of Open: what has a volume counts as made.
OpenVolumes == setups \cup adds \cup volumes

\* Items with a task that has not succeeded.
Open == setups \cup adds \cup volumes \cup formats \cup prepares

Founded == vg = "initial" /\ founding = "no"

\* An item is applied when all its tasks have succeeded.
EndPlan ==
    /\ running' = FALSE
    /\ vg' = IF Founded THEN "applied"
             ELSE IF teardown = "unsetup" /\ unsetups = {} THEN "removed" ELSE vg
    /\ founders' = IF Founded THEN modelled \cap Disks ELSE founders
    /\ applied' = IF teardown = "none" THEN modelled \ Open ELSE applied
    /\ founding' = "no" /\ setups' = {} /\ adds' = {}
    /\ volumes' = {} /\ formats' = {} /\ prepares' = {} /\ resizes' = {}
    /\ teardown' = "none" /\ unsetups' = {}
    /\ UNCHANGED <<modelled, larger, fsNode>>

Finish == /\ running /\ Open = {} /\ resizes = {} /\ founding = "no"
          /\ teardown \in {"none", "unsetup"} /\ unsetups = {}
          /\ EndPlan /\ UNCHANGED <<store, calm>>

\* A call fails, or is done and not answered in time.
NotAnswered == ~calm /\ EndPlan
PlanBreaks == running /\ NotAnswered /\ UNCHANGED <<store, calm>>

SetUpDisk(d) ==
    /\ running /\ d \in setups /\ DiskSetUp(d)
    /\ \/ /\ setups' = setups \ {d}
          /\ UNCHANGED <<model, running, fsNode, founding, adds, volumes, formats, prepares,
                         resizes, teardown, unsetups>>
       \/ NotAnswered
    /\ UNCHANGED calm

CreateGroup ==
    /\ running /\ founding = "due" /\ setups = {}
    /\ \/ /\ Initialised(modelled \cap Disks) \/ AlreadyThere
          /\ \/ /\ founding' = "no"
                /\ UNCHANGED <<model, running, fsNode, setups, adds, volumes, formats, prepares,
                               resizes, teardown, unsetups>>
             \/ NotAnswered
       \/ NotYetThere /\ EndPlan
    /\ UNCHANGED calm

AddDisk(d) ==
    /\ running /\ d \in adds /\ setups = {} /\ DiskAdded(d)
    /\ \/ /\ adds' = adds \ {d}
          /\ UNCHANGED <<model, running, fsNode, founding, setups, volumes, formats, prepares,
                         resizes, teardown, unsetups>>
       \/ NotAnswered
    /\ UNCHANGED calm

FsTurn == running /\ setups = {} /\ adds = {} /\ founding = "no"

MakeVolume(f) ==
    /\ FsTurn /\ f \in volumes /\ VolumeMade(f)
    /\ \/ /\ volumes' = volumes \ {f}
          /\ UNCHANGED <<model, running, fsNode, founding, setups, adds, formats, prepares,
                         resizes, teardown, unsetups>>
       \/ NotAnswered
    /\ UNCHANGED calm

\* Mutant of Format: the file system is not made after the volume.
FormatEarly(f) ==
    /\ FsTurn /\ f \in formats /\ made' = made \cup {f}
    /\ formats' = formats \ {f}
    /\ UNCHANGED <<disk, imp, landing, vols, ready, carries, model, running, fsNode, founding,
                   setups, adds, volumes, prepares, resizes, teardown, unsetups, calm>>

Format(f) ==
    /\ FsTurn /\ f \in formats \ volumes /\ Formatted(f)
    /\ \/ /\ formats' = formats \ {f}
          /\ UNCHANGED <<model, running, fsNode, founding, setups, adds, volumes, prepares,
                         resizes, teardown, unsetups>>
       \/ NotAnswered
    /\ UNCHANGED calm

Prepare(f) ==
    /\ FsTurn /\ f \in prepares \ (volumes \cup formats) /\ Prepared(f)
    /\ \/ /\ prepares' = prepares \ {f}
          /\ UNCHANGED <<model, running, fsNode, founding, setups, adds, volumes, formats,
                         resizes, teardown, unsetups>>
       \/ NotAnswered
    /\ UNCHANGED calm

\* The group has left the node that the volume tasks name.
Misplaced == /\ FsTurn /\ volumes \cup formats \cup prepares # {}
             /\ imp # fsNode
             /\ EndPlan /\ UNCHANGED <<store, calm>>

Resize(f) ==
    /\ FsTurn /\ f \in resizes /\ Resized(f)
    /\ \/ /\ resizes' = resizes \ {f} /\ larger' = larger \ {f}
          /\ UNCHANGED <<vg, modelled, applied, founders, running, fsNode, founding, setups,
                         adds, volumes, formats, prepares, teardown, unsetups>>
       \/ NotAnswered
    /\ UNCHANGED calm

-----------------------------------------------------------------------------
\* The removal.  The agent takes the codes for a group or a disk that is not
\* there for a success: 9, 11 and 1, which is also that of a refused command.

TeardownGoes(step) == /\ teardown' = step
               /\ UNCHANGED <<model, running, fsNode, founding, setups, adds, volumes,
                              formats, prepares, resizes, unsetups>>

StopVolumes ==
    /\ running /\ teardown = "stop"
    /\ landing' = IF imp = NoNode /\ Exists THEN First ELSE landing
    /\ TeardownGoes("destroy") \/ NotAnswered
    /\ UNCHANGED <<disk, imp, content, calm>>

DestroyGroup ==
    /\ running /\ teardown = "destroy"
    /\ \/ /\ imp = First /\ imp' = NoNode
          /\ disk' = [d \in Disks |-> IF disk[d] = "member" THEN "set" ELSE disk[d]]
          /\ vols' = {} /\ made' = {} /\ ready' = {} /\ carries' = {}
       \/ imp # First /\ UNCHANGED <<disk, imp, content>>
    /\ TeardownGoes("unsetup") \/ NotAnswered
    /\ UNCHANGED <<landing, calm>>

\* Mutant of UnsetUpDisk: a disk that is raw already is an error.
UnsetUpDiskOnce(d) ==
    /\ running /\ teardown = "unsetup" /\ d \in unsetups
    /\ disk' = IF disk[d] = "member" /\ imp = First THEN disk ELSE [disk EXCEPT ![d] = "raw"]
    /\ \/ /\ disk[d] # "raw" /\ unsetups' = unsetups \ {d}
          /\ UNCHANGED <<model, running, fsNode, founding, setups, adds, volumes, formats,
                         prepares, resizes, teardown>>
       \/ disk[d] = "raw" /\ EndPlan
       \/ NotAnswered
    /\ UNCHANGED <<imp, landing, content, calm>>

UnsetUpDisk(d) ==
    /\ running /\ teardown = "unsetup" /\ d \in unsetups
    /\ disk' = IF disk[d] = "member" /\ imp = First THEN disk ELSE [disk EXCEPT ![d] = "raw"]
    /\ \/ /\ unsetups' = unsetups \ {d}
          /\ UNCHANGED <<model, running, fsNode, founding, setups, adds, volumes, formats,
                         prepares, resizes, teardown>>
       \/ NotAnswered
    /\ UNCHANGED <<imp, landing, content, calm>>

-----------------------------------------------------------------------------
\* The operator and the cluster.

AddItem(x) == /\ ~running /\ vg \in {"initial", "applied"}
              /\ x \notin modelled /\ modelled' = modelled \cup {x}
              /\ UNCHANGED <<store, vg, applied, larger, founders, running, fsNode, todo, calm>>
Enlarge(f) == /\ ~running /\ vg = "applied" /\ f \in applied
              /\ larger' = larger \cup {f}
              /\ UNCHANGED <<store, vg, modelled, applied, founders, running, fsNode, todo, calm>>

\* The services that use the group are taken away before it.
Withdraw == /\ ~running /\ vg = "applied" /\ vg' = "removal"
            /\ imp' \in {imp, NoNode}
            /\ UNCHANGED <<disk, landing, content, modelled, applied, larger, founders, running,
                           fsNode, todo, calm>>

\* A node restarts; or VCS, which knows the group once it is applied, moves it.
GroupMoves == /\ ~calm
              /\ imp' \in IF vg = "applied" THEN Nodes \cup {NoNode} ELSE {NoNode}
              /\ landing' \in {landing, NoNode}
              /\ UNCHANGED <<disk, content, model, running, fsNode, todo, calm>>
ImportLands == /\ landing # NoNode /\ landing' = NoNode
               /\ imp' = IF imp = NoNode /\ Exists THEN landing ELSE imp
               /\ UNCHANGED <<disk, content, model, running, fsNode, todo, calm>>
Settle == ~calm /\ calm' = TRUE /\ UNCHANGED <<store, model, running, fsNode, todo>>

Init == /\ disk \in [Disks -> {"raw", "set"}]
        /\ imp = NoNode /\ landing = NoNode
        /\ vols = {} /\ made = {} /\ ready = {} /\ carries = {}
        /\ vg = "initial" /\ applied = {} /\ larger = {} /\ founders = {}
        /\ modelled \in SUBSET (Disks \cup Fs) /\ modelled \cap Disks # {}
        /\ running = FALSE /\ fsNode = First
        /\ founding = "no" /\ setups = {} /\ adds = {}
        /\ volumes = {} /\ formats = {} /\ prepares = {} /\ resizes = {}
        /\ teardown = "none" /\ unsetups = {} /\ calm = FALSE

Build == \/ \E d \in Disks : SetUpDisk(d) \/ AddDisk(d)
         \/ CreateGroup \/ Misplaced
         \/ \E f \in Fs : MakeVolume(f) \/ Format(f) \/ Prepare(f) \/ Resize(f)
Remove == StopVolumes \/ DestroyGroup \/ \E d \in Disks : UnsetUpDisk(d)
PlanStep == Build \/ Remove \/ Finish

Next == \/ MakePlan \/ MakeRemoval \/ PlanStep \/ PlanBreaks
        \/ \E x \in Disks \cup Fs : AddItem(x)
        \/ \E f \in Fs : Enlarge(f)
        \/ Withdraw \/ GroupMoves \/ ImportLands \/ Settle

Spec == Init /\ [][Next]_vars

\* The operator makes another plan after one that failed; the execution
\* manager goes on to the next task; an import in the background ends.
FairSpec == /\ Spec
            /\ WF_vars(MakePlan) /\ WF_vars(MakeRemoval) /\ WF_vars(PlanStep)
            /\ WF_vars(ImportLands)

-----------------------------------------------------------------------------
\* Until the group is withdrawn no disk leaves it that volumes lie on: not when
\* a plan that failed is repeated on the first node while another one has the
\* group, and takes the disks it finds for new ones.
DataDisksKept == vg \in {"initial", "applied"} => carries \subseteq Members

\* An applied file system has its volume, made and prepared, and an applied
\* disk is in the group, if it was added to a group that was there.
ItemsStand == vg = "applied" => /\ applied \cap Fs \subseteq made \cap ready
                                /\ applied \cap Disks \subseteq Members \cup founders

\* Repeated plans build what is modelled in the end, wherever the group and
\* the plans before have stopped.
EventuallyBuilt == calm ~> (applied = modelled /\ larger = {}) \/ vg \in {"removal", "removed"}

\* A removal that failed half way can be repeated until it is done.
EventuallyRemoved == (calm /\ vg = "removal") ~> vg = "removed"
=============================================================================
