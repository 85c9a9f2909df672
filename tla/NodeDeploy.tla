----------------------------- MODULE NodeDeploy -----------------------------
(***************************************************************************)
(* The deployment plans of one node's LVM volume group: purge its new      *)
(* disks, create and mount its file systems (puppet's work), and then put  *)
(* the names of the volumes into the boot files.  A task that fails, or is *)
(* not answered, ends the plan, and another plan is made from the items    *)
(* that are not applied.  The disks may come with volume groups of an      *)
(* earlier use, and the group may be in use already and only be extended.  *)
(***************************************************************************)
EXTENDS Killpart, GrubUpdate

CONSTANTS
    Vg,         \* the volume group of the model
    Fs,         \* its file systems, each on the volume of the same name
    Mountable   \* those with a mount point

ASSUME DeployAssumption ==
    /\ Vg \in Groups /\ Vg \in Names
    /\ Fs = VolumesOf(Vg) /\ Fs # {}
    /\ Mountable \subseteq Fs
    /\ Texts = SUBSET Fs
    /\ \A x \in Origin : x[1] \notin Fs

VARIABLES
    fitted,   \* disks whose item is applied
    applied,  \* file systems whose item is applied
    running,  \* is a plan running?
    purges,   \* disks the plan is still to purge
    creates,  \* file systems whose volume task is to come
    mounts,   \* file systems whose mount task is to come
    grubTask, \* is the grub task to come, or called and not ended?
    calm      \* do tasks and commands no longer fail?

todo == <<purges, creates, mounts, grubTask>>
plan == <<fitted, applied, running, todo>>
vars == <<lvm, killer, grubVars, plan, calm>>

TypeOK == /\ KillTypeOK /\ GrubTypeOK
          /\ fitted \subseteq Disks /\ applied \subseteq Fs
          /\ running \in BOOLEAN
          /\ purges \subseteq Disks /\ creates \subseteq Fs /\ mounts \subseteq Mountable
          /\ grubTask \in {"none", "due", "called"} /\ calm \in BOOLEAN

-----------------------------------------------------------------------------
\* Plans.

\* A new disk brings a volume task for every file system of the group, and a
\* new file system its mount tasks and the grub task.
MakePlan ==
    /\ ~running /\ (fitted # Disks \/ applied # Fs)
    /\ running' = TRUE
    /\ purges' = Disks \ fitted
    /\ creates' = IF fitted = Disks THEN Fs \ applied ELSE Fs
    /\ mounts' = Mountable \ applied
    /\ grubTask' = IF applied # Fs THEN "due" ELSE "none"
    /\ UNCHANGED <<lvm, killer, grubVars, fitted, applied, calm>>

\* An item is applied when all tasks that it belongs to have succeeded: a new
\* disk belongs to its purge and to all volume tasks.
EndPlan == /\ running' = FALSE
           /\ applied' = applied \cup (Fs \ (creates \cup mounts))
           /\ fitted' = IF purges = {} /\ creates = {} THEN Disks ELSE fitted
           /\ purges' = {} /\ creates' = {} /\ mounts' = {} /\ grubTask' = "none"

Finish == /\ running /\ purges = {} /\ creates = {} /\ mounts = {} /\ grubTask = "none"
          /\ EndPlan
          /\ UNCHANGED <<lvm, killer, grubVars, calm>>

\* The call of a purge task, and its end.  An answer may be lost.
CallPurge == /\ running
             /\ \E d \in purges : Clear(d)
             /\ UNCHANGED <<grubVars, plan, calm>>
PurgeEnds == /\ running /\ Heard
             /\ \/ /\ kout = "done" /\ purges' = purges \ {kdisk}
                   /\ UNCHANGED <<fitted, applied, running, creates, mounts, grubTask>>
                \/ (kout = "error" \/ ~calm) /\ EndPlan
             /\ UNCHANGED <<grubVars, calm>>

\* Mutant of VolumeTurn: the volume tasks do not require the purge tasks.
VolumeTurnEarly(f) == running /\ f \in creates

\* The tasks of the file systems require all purge tasks, and do not run beside
\* the grub task, with which they share no phase.
VolumeTurn(f) == running /\ purges = {} /\ f \in creates /\ grubTask # "called"

\* Puppet's lvm::volume brings all disks into the group and makes the volume.
\* A disk that is in another group, or a fault, lets it fail half way.
CreateVolume(f) ==
    /\ VolumeTurn(f)
    /\ \/ /\ \A d \in Disks : pv[d] \in {"blank", "orphan", Vg}
          /\ pv' = [d \in Disks |-> Vg] /\ name' = [name EXCEPT ![Vg] = Vg]
          /\ lvs' = lvs \cup {f} /\ creates' = creates \ {f}
          /\ UNCHANGED <<fitted, applied, running, purges, mounts, grubTask>>
       \/ /\ ~calm \/ \E d \in Disks : pv[d] \notin {"blank", "orphan", Vg}
          /\ \E J \in SUBSET {d \in Disks : pv[d] \in {"blank", "orphan"}} :
               /\ pv' = [d \in Disks |-> IF d \in J THEN Vg ELSE pv[d]]
               /\ name' = IF J = {} THEN name ELSE [name EXCEPT ![Vg] = Vg]
               /\ lvs' \in IF Vg \in Found \/ J # {} THEN {lvs, lvs \cup {f}} ELSE {lvs}
          /\ EndPlan
    /\ UNCHANGED <<mounted, matches, killer, grubVars, calm>>

\* Mutant of Mount: the mount task does not require the volume.
MountEarly(f) ==
    /\ running /\ purges = {} /\ f \in mounts
    /\ mounted' = mounted \cup {f} /\ mounts' = mounts \ {f}
    /\ UNCHANGED <<pv, name, lvs, matches, killer, grubVars, fitted, applied, running,
                   purges, creates, grubTask, calm>>

\* The mount tasks require the volume.
Mount(f) ==
    /\ running /\ purges = {} /\ f \in mounts \ creates /\ grubTask # "called"
    /\ \/ /\ f \in lvs /\ mounted' = mounted \cup {f} /\ mounts' = mounts \ {f}
          /\ UNCHANGED <<fitted, applied, running, purges, creates, grubTask>>
       \/ /\ ~calm \/ f \notin lvs
          /\ mounted' \in {mounted, mounted \cup ({f} \cap lvs)} /\ EndPlan
    /\ UNCHANGED <<pv, name, lvs, matches, killer, grubVars, calm>>

\* Mutant of GrubTurn: the grub task does not require the file systems.
GrubTurnEarly == running /\ grubTask = "due" /\ purges = {}

\* The grub task requires the file systems that are new, and so the purges.
\* Volumes of applied file systems that grow on a new disk may come after it.
GrubTurn == /\ running /\ grubTask = "due"
            /\ purges = {} /\ creates \subseteq applied /\ mounts = {}

CallGrub == /\ GrubTurn /\ Ask(Fs) /\ grubTask' = "called"
            /\ UNCHANGED <<lvm, killer, fitted, applied, running, purges, creates, mounts, calm>>
GrubEnds == /\ running /\ grubTask = "called" /\ told # "asked"
            /\ \/ /\ told = "done" /\ grubTask' = "none"
                  /\ UNCHANGED <<fitted, applied, running, purges, creates, mounts>>
               \/ (told # "done" \/ ~calm) /\ EndPlan
            /\ UNCHANGED <<lvm, killer, grubVars, calm>>

PlanStep == \/ Finish \/ CallPurge \/ PurgeEnds \/ CallGrub \/ GrubEnds
            \/ \E f \in Fs : CreateVolume(f) \/ Mount(f)

-----------------------------------------------------------------------------
\* Commands of the agents fail, and agents are ended, until the node is calm.
KillpartRuns(ok) == (ok \/ ~calm) /\ KillStep(ok) /\ UNCHANGED <<grubVars, plan, calm>>
KillpartEnds == ~calm /\ KillStops /\ UNCHANGED <<grubVars, plan, calm>>
GrubRuns(ok) == (ok \/ ~calm) /\ GrubStep(ok) /\ UNCHANGED <<lvm, killer, plan, calm>>
GrubIsEnded == ~calm /\ GrubStops /\ UNCHANGED <<lvm, killer, plan, calm>>
Settle == ~calm /\ calm' = TRUE /\ UNCHANGED <<lvm, killer, grubVars, plan>>

\* The group is new, or in use on the disks that are applied.  Other disks are
\* blank or belong to other groups, which may have the same name.
Init ==
    /\ pv \in [Disks -> Groups \cup {"blank", "orphan"}]
    /\ name \in [Groups -> Names] /\ name[Vg] = Vg
    /\ fitted = {d \in Disks : pv[d] = Vg}
    /\ applied \in SUBSET Fs /\ (applied = {} <=> fitted = {})
    /\ lvs \in SUBSET {v \in Volumes : GroupOf[v] \in Found} /\ lvs \cap Fs = applied
    /\ \A x \in Origin : x[1] \in lvs => x[2] \in lvs
    /\ mounted \in SUBSET lvs /\ mounted \cap Fs = applied \cap Mountable
    \* A system that uses a group of the name would be the one deployed.
    /\ \A v \in mounted \ Fs : name[GroupOf[v]] # Vg
    \* LVM tells groups of one name apart only while they are not in use.
    /\ \A g, h \in Groups \ {Vg} : name[g] = name[h] /\ g # h => name[g] = Vg
    /\ matches \in Likenesses
    /\ kdisk = NoDisk /\ kgroup = Vg /\ seen = "own" /\ kpc = "idle" /\ kdir = {} /\ kout = "none"
    /\ GrubInit /\ goal = Fs /\ text = [f \in Files |-> applied]
    /\ running = FALSE /\ purges = {} /\ creates = {} /\ mounts = {}
    /\ grubTask = "none" /\ calm = FALSE

Next == \/ MakePlan \/ PlanStep
        \/ \E ok \in BOOLEAN : KillpartRuns(ok) \/ GrubRuns(ok)
        \/ KillpartEnds \/ GrubIsEnded \/ Settle

Spec == Init /\ [][Next]_vars

\* The operator makes another plan after one that failed; the agents run.
FairSpec == /\ Spec
            /\ WF_vars(MakePlan) /\ WF_vars(PlanStep)
            /\ WF_vars(KillpartRuns(TRUE)) /\ WF_vars(GrubRuns(TRUE))

-----------------------------------------------------------------------------
\* Whatever plans fail and are made again, and whatever pvs and the facts tell
\* the agent, a file system that is applied and has a mount point keeps its
\* volume and its mount, and then an applied disk its place in the group: the
\* purge of a disk that an earlier plan has already put into the group does
\* not take from the group what is in use.
AppliedStands ==
    /\ applied \cap Mountable \subseteq mounted \cap lvs
    /\ applied \cap Mountable # {} => \A d \in fitted : pv[d] = Vg

\* No step, of a purge or of a volume task, removes a volume that is mounted or
\* takes a disk away from the group of one, also where that group came with
\* the disk, and also where its disk is the one to purge.  The one exception is
\* that disk itself, if pvs has failed or its facts have matched another disk:
\* the agent then wipes it unseen.
MountedKept ==
    [][\A v \in mounted :
         /\ v \in lvs'
         /\ \A d \in Disks : pv[d] = GroupOf[v] =>
              pv'[d] = pv[d] \/ (kpc = "wipe" /\ d = kdisk /\ seen = "amiss")]_vars

\* The boot files name no volume of a file system with a mount point that does
\* not exist, else the node would not boot: not while they are edited and
\* restored, nor when a plan that failed purges the disks again.
BootNamesExist == \A f \in present : text[f] \cap Mountable \subseteq lvs

\* Plans that are made again deploy the node in the end, where no group that
\* came with the disks is in use, the facts tell the disks apart and no name of
\* the group's volumes has a hyphen: left over physical volumes, half purged
\* groups, volumes of a plan that failed and disks wiped unseen do not stop it
\* for ever.
EventuallyDeployed ==
    (/\ calm /\ mounted \subseteq Fs /\ Fs \cap Hyphenated = {}
     /\ \A x \in matches : x[1] = x[2])
      ~> (applied = Fs /\ fitted = Disks)
=============================================================================
