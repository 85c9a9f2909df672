-------------------------- MODULE NodeDeployProofs --------------------------
(***************************************************************************)
(* Proofs about the deployment of a node, for any disks, volume groups,    *)
(* volumes and boot files, whatever fails.  What the purge of a disk       *)
(* promises needs no proviso: where pvs fails, or the facts of a disk      *)
(* match another one, the agent may wipe a disk that is in use, and what   *)
(* is proved says of that disk, and of no other, that it may be lost.      *)
(***************************************************************************)
EXTENDS NodeDeploy, GrubUpdateProofs

PlanTypeOK == /\ fitted \subseteq Disks /\ applied \subseteq Fs
              /\ purges \subseteq Disks /\ creates \subseteq Fs /\ mounts \subseteq Mountable
              /\ grubTask \in {"none", "due", "called"}

-----------------------------------------------------------------------------
\* Types.

LEMMA FsAreVolumes == Fs \subseteq Volumes /\ \A v \in Volumes : v \in Fs <=> GroupOf[v] = Vg
  BY DeployAssumption DEF VolumesOf

LEMMA InitTyped == Init => KillTypeOK /\ GrubTypeOK /\ PlanTypeOK
  <1> SUFFICES ASSUME Init PROVE KillTypeOK /\ GrubTypeOK /\ PlanTypeOK
    OBVIOUS
  <1>1. GrubTypeOK
    BY GrubInitInv DEF Init, GrubInv
  <1>2. KillTypeOK
    BY DeployAssumption, KillAssumption DEF Init, KillTypeOK
  <1>3. PlanTypeOK
    BY DEF Init, PlanTypeOK
  <1> QED
    BY <1>1, <1>2, <1>3

\* A step of the killpart agent keeps its types.
LEMMA KillStepTyped == ASSUME KillTypeOK, NEW ok, KillStep(ok) \/ KillStops PROVE KillTypeOK'
  <1> USE DEF KillTypeOK, KillGoto, KillReply, lvm
  <1>1. CASE Look(ok)
    BY <1>1 DEF Look
  <1>2. CASE Rename(ok)
    BY <1>2 DEF Rename
  <1>3. CASE List
    BY <1>3 DEF List
  <1>4. CASE RemoveGroup(ok)
    BY <1>4 DEF RemoveGroup, VolumesOf
  <1>5. CASE Wipe(ok)
    BY <1>5 DEF Wipe
  <1>6. ASSUME NEW v \in Volumes, NextVolume(v, ok) PROVE KillTypeOK'
    BY <1>6 DEF NextVolume
  <1>7. CASE KillStops
    BY <1>7 DEF KillStops
  <1> QED
    BY <1>1, <1>2, <1>3, <1>4, <1>5, <1>6, <1>7 DEF KillStep

LEMMA EndPlanTyped == PlanTypeOK /\ EndPlan => PlanTypeOK'
  BY DEF EndPlan, PlanTypeOK

LEMMA KillNextTyped == KillTypeOK /\ PlanTypeOK /\ [Next]_vars => KillTypeOK'
  <1> SUFFICES ASSUME KillTypeOK, PlanTypeOK, [Next]_vars PROVE KillTypeOK'
    OBVIOUS
  <1>1. CASE UNCHANGED <<lvm, killer>>
    BY <1>1 DEF KillTypeOK, lvm, killer
  <1>2. ASSUME NEW ok \in BOOLEAN, KillpartRuns(ok) \/ KillpartEnds PROVE KillTypeOK'
    BY <1>2, KillStepTyped DEF KillpartRuns, KillpartEnds
  <1>3. CASE CallPurge
    BY <1>3 DEF CallPurge, Clear, KillTypeOK, PlanTypeOK, lvm
  <1>4. CASE PurgeEnds
    BY <1>4 DEF PurgeEnds, Heard, KillTypeOK, lvm
  <1>5. ASSUME NEW f \in Fs, CreateVolume(f) PROVE KillTypeOK'
    <2> USE FsAreVolumes, DeployAssumption DEF KillTypeOK
    <2>1. pv' \in [Disks -> Groups \cup {"blank", "orphan"}]
      BY <1>5 DEF CreateVolume
    <2>2. name' \in [Groups -> Names]
      BY <1>5 DEF CreateVolume
    <2>3. lvs' \subseteq Volumes /\ lvs \subseteq lvs'
      BY <1>5 DEF CreateVolume
    <2> QED
      BY <1>5, <2>1, <2>2, <2>3 DEF CreateVolume, killer
  <1>6. ASSUME NEW f \in Fs, Mount(f) PROVE KillTypeOK'
    BY <1>6 DEF Mount, KillTypeOK, killer
  <1> QED
    BY <1>1, <1>2, <1>3, <1>4, <1>5, <1>6 DEF Next, PlanStep, MakePlan, Finish, CallGrub,
       GrubEnds, GrubRuns, GrubIsEnded, Settle, vars

LEMMA PlanNextTyped == PlanTypeOK /\ [Next]_vars => PlanTypeOK'
  <1> SUFFICES ASSUME PlanTypeOK, [Next]_vars PROVE PlanTypeOK'
    OBVIOUS
  <1>1. CASE UNCHANGED plan
    BY <1>1 DEF PlanTypeOK, plan, todo
  <1>2. CASE EndPlan
    BY <1>2, EndPlanTyped
  <1>3. CASE MakePlan
    BY <1>3 DEF MakePlan, PlanTypeOK
  <1>4. CASE PurgeEnds
    BY <1>2, <1>4 DEF PurgeEnds, PlanTypeOK
  <1>5. ASSUME NEW f \in Fs, CreateVolume(f) \/ Mount(f) PROVE PlanTypeOK'
    BY <1>2, <1>5 DEF CreateVolume, Mount, PlanTypeOK
  <1>6. CASE CallGrub \/ GrubEnds
    BY <1>2, <1>6 DEF CallGrub, GrubEnds, PlanTypeOK
  <1> QED
    BY <1>1, <1>2, <1>3, <1>4, <1>5, <1>6 DEF Next, PlanStep, Finish, CallPurge, KillpartRuns,
       KillpartEnds, GrubRuns, GrubIsEnded, Settle, vars

\* Every step of the node is a step of the grub agent or does not concern it.
LEMMA GrubInNode == [Next]_vars => [GrubNext]_grubVars
  <1> SUFFICES ASSUME [Next]_vars PROVE [GrubNext]_grubVars
    OBVIOUS
  <1>1. CASE CallGrub
    BY <1>1, DeployAssumption DEF CallGrub, GrubNext
  <1>2. ASSUME NEW ok \in BOOLEAN, GrubRuns(ok) PROVE GrubNext
    BY <1>2 DEF GrubRuns, GrubNext
  <1>3. CASE GrubIsEnded
    BY <1>3 DEF GrubIsEnded, GrubNext
  <1>4. ASSUME NEW f \in Fs, CreateVolume(f) \/ Mount(f) PROVE UNCHANGED grubVars
    BY <1>4 DEF CreateVolume, Mount
  <1> QED
    BY <1>1, <1>2, <1>3, <1>4 DEF Next, PlanStep, MakePlan, Finish, CallPurge, PurgeEnds,
       GrubEnds, KillpartRuns, KillpartEnds, Settle, vars

LEMMA NodeGrubSpec == Spec => GrubSpec
  <1>1. Init => GrubInit
    BY DEF Init
  <1> QED
    BY <1>1, GrubInNode, PTL DEF Spec, GrubSpec

BoolsTyped == running \in BOOLEAN /\ calm \in BOOLEAN

LEMMA BoolsStay == BoolsTyped /\ [Next]_vars => BoolsTyped'
  <1> SUFFICES ASSUME BoolsTyped, [Next]_vars PROVE BoolsTyped'
    OBVIOUS
  <1>1. calm' = calm \/ calm' = TRUE
    BY DEF Next, PlanStep, MakePlan, Finish, CallPurge, PurgeEnds, CallGrub, GrubEnds,
       CreateVolume, Mount, KillpartRuns, KillpartEnds, GrubRuns, GrubIsEnded, Settle, vars
  <1>2. running' = running \/ running' = TRUE \/ running' = FALSE
    BY DEF Next, PlanStep, MakePlan, Finish, CallPurge, PurgeEnds, CallGrub, GrubEnds,
       CreateVolume, Mount, KillpartRuns, KillpartEnds, GrubRuns, GrubIsEnded, Settle, vars,
       EndPlan, plan
  <1> QED
    BY <1>1, <1>2 DEF BoolsTyped

Typed == KillTypeOK /\ GrubTypeOK /\ PlanTypeOK /\ BoolsTyped

LEMMA AlwaysTyped == Spec => []Typed
  <1>1. Init => BoolsTyped
    BY DEF Init, BoolsTyped
  <1>2. GrubTypeOK /\ [Next]_vars => GrubTypeOK'
    BY GrubInNode, GrubTyped
  <1>3. Init => Typed
    BY <1>1, InitTyped DEF Typed
  <1>4. Typed /\ [Next]_vars => Typed'
    BY <1>2, KillNextTyped, PlanNextTyped, BoolsStay DEF Typed
  <1> QED
    BY <1>3, <1>4, PTL DEF Spec

\* TypeOK: the disks, the volumes, the agents and the plan stay within what
\* the code knows, and what is mounted exists.
THEOREM TypeCorrect == Spec => []TypeOK
  <1>1. Typed => TypeOK
    BY DEF Typed, TypeOK, PlanTypeOK, BoolsTyped
  <1> QED
    BY <1>1, AlwaysTyped, PTL

\* The agent keeps its promise about boot files when it is called by plans
\* that fail, and are made again, at any point.
THEOREM BootIsAtomic == Spec => UpdatesBootAtomically
  BY NodeGrubSpec, GrubIsAtomic, PTL

-----------------------------------------------------------------------------
\* The inductive invariant.

\* The purge agent works only for a purge task of the plan, on a new disk.
Turns == /\ ~running => /\ purges = {} /\ creates = {} /\ mounts = {}
                        /\ grubTask = "none" /\ kdisk = NoDisk
         /\ kdisk # NoDisk => kdisk \in purges
         /\ kdisk = NoDisk => kpc = "idle" /\ kout = "none"
         /\ kout # "none" => kpc = "idle"
         /\ purges \cap fitted = {}
         /\ grubTask = "called" => purges = {}

\* What it does is about the group of that disk, if it has seen it.
Looked == /\ kpc \in {"name", "list", "kill"} /\ seen = "own" => pv[kdisk] = kgroup
          /\ kpc = "wipe" /\ seen = "own" => pv[kdisk] \in {"blank", "orphan"}

\* What is applied, or done in this plan, is in use, if it has a mount point.
Stands == /\ applied \cap Mountable \subseteq mounted
          /\ running => Mountable \ mounts \subseteq mounted
          /\ applied \cap Mountable # {} => \A d \in fitted : pv[d] = Vg
          /\ fitted = Disks => purges = {} /\ \A d \in Disks : pv[d] = Vg
          /\ running /\ creates # Fs /\ fitted # Disks =>
               purges = {} /\ \A d \in Disks : pv[d] = Vg

\* Boot files, and what may be restored to them, name what is mounted.
NamesStand == /\ \A f \in present : text[f] \cap Mountable \subseteq mounted
              /\ \A f \in saved : copy[f] \cap Mountable \subseteq mounted
              /\ gpc # "idle" => goal \cap Mountable \subseteq mounted

LEMMA EndPlanTurns ==
    ASSUME KillTypeOK, EndPlan, kdisk' = NoDisk, kpc' = "idle", kout' = "none"
    PROVE  Turns'
  BY DEF EndPlan, Turns

\* Steps of the agent, of the grub agent and of the volumes' tasks.
AgentStep == KillpartEnds \/ \E ok \in BOOLEAN : KillpartRuns(ok)

LEMMA AgentKeepsCall ==
    ASSUME AgentStep
    PROVE  /\ kpc # "idle" /\ kdisk' = kdisk
           /\ (kpc' = "idle" \/ kout' = kout)
           /\ UNCHANGED <<grubVars, plan, calm>>
  <1>1. ASSUME NEW ok \in BOOLEAN, KillStep(ok) \/ KillStops
        PROVE  kpc # "idle" /\ kdisk' = kdisk /\ (kpc' = "idle" \/ kout' = kout)
    BY <1>1 DEF KillStep, KillStops, Look, Rename, List, RemoveGroup, Wipe, NextVolume, KillGoto,
       KillReply
  <1> QED
    BY <1>1 DEF AgentStep, KillpartEnds, KillpartRuns

LEMMA TurnsNext == Typed /\ Turns /\ [Next]_vars => Turns'
  <1> SUFFICES ASSUME Typed, Turns, [Next]_vars PROVE Turns'
    OBVIOUS
  <1>1. CASE UNCHANGED <<killer, plan>>
    BY <1>1 DEF Turns, killer, plan, todo
  <1>2. CASE AgentStep
    BY <1>2, AgentKeepsCall DEF Turns, plan, todo
  <1>3. CASE EndPlan /\ running /\ UNCHANGED killer /\ kdisk = NoDisk
    BY <1>3, EndPlanTurns DEF Turns, killer, Typed
  <1>4. CASE MakePlan
    BY <1>4 DEF MakePlan, Turns, killer
  <1>5. CASE CallPurge
    BY <1>5, KillAssumption DEF CallPurge, Clear, Turns, plan, todo, Typed, PlanTypeOK
  <1>6. CASE PurgeEnds
    <2>1. kdisk' = NoDisk /\ kpc' = "idle" /\ kout' = "none"
      BY <1>6 DEF PurgeEnds, Heard, Turns
    <2>2. CASE EndPlan
      BY <2>1, <2>2, EndPlanTurns DEF Typed
    <2> QED
      BY <1>6, <2>1, <2>2 DEF PurgeEnds, Turns
  <1>7. ASSUME NEW f \in Fs, CreateVolume(f) \/ Mount(f) PROVE Turns'
    <2>1. running /\ purges = {} /\ kdisk = NoDisk /\ UNCHANGED killer
      BY <1>7 DEF CreateVolume, VolumeTurn, Mount, Turns
    <2>2. CASE EndPlan
      BY <1>3, <2>1, <2>2
    <2>3. CASE UNCHANGED <<fitted, running, purges, grubTask>>
      BY <2>1, <2>3 DEF Turns, killer
    <2> QED
      BY <1>7, <2>2, <2>3 DEF CreateVolume, Mount
  <1>8. CASE Finish \/ GrubEnds
    <2>1. running /\ UNCHANGED killer
      BY <1>8 DEF Finish, GrubEnds
    <2>2. CASE EndPlan /\ kdisk = NoDisk
      BY <1>3, <2>1, <2>2
    <2>3. CASE UNCHANGED <<fitted, running, purges>> /\ grubTask' = "none"
      BY <2>1, <2>3 DEF Turns, killer
    <2>4. CASE EndPlan /\ kdisk # NoDisk
      BY <1>8, <2>4 DEF Finish, GrubEnds, Turns
    <2> QED
      BY <1>8, <2>2, <2>3, <2>4 DEF Finish, GrubEnds
  <1>9. CASE CallGrub
    BY <1>9 DEF CallGrub, GrubTurn, Turns, killer
  <1> QED
    BY <1>1, <1>2, <1>4, <1>5, <1>6, <1>7, <1>8, <1>9 DEF Next, PlanStep, AgentStep,
       GrubRuns, GrubIsEnded, Settle, vars

-----------------------------------------------------------------------------
\* Nothing takes away what is mounted, but for a disk that is wiped unseen.

InUseStays ==
    /\ mounted \subseteq mounted' /\ mounted \subseteq lvs'
    /\ \A v \in mounted : \A d \in Disks : pv[d] = GroupOf[v] =>
         pv'[d] = pv[d] \/ (kpc = "wipe" /\ d = kdisk /\ seen = "amiss")

LEMMA AgentLooks ==
    ASSUME Typed, Turns, Looked, NEW ok \in BOOLEAN, KillStep(ok)
    PROVE  Looked' /\ InUseStays /\ mounted' = mounted
  <1> USE KillAssumption DEF KillGoto, KillReply, lvm, Looked
  <1>0. KillTypeOK /\ mounted \subseteq lvs /\ mounted \subseteq Volumes
    BY DEF Typed, KillTypeOK
  <1>1. kpc # "idle" => kdisk \in Disks
    BY DEF Typed, Turns, KillTypeOK
  <1>2. CASE Look(ok)
    <2>1. UNCHANGED lvm /\ kpc = "look"
      BY <1>2 DEF Look
    <2>2. ASSUME NEW d \in Disks, seen' = IF d = kdisk THEN "own" ELSE "amiss",
                 UNCHANGED kdisk,
                 \/ pv[d] \in Groups /\ kgroup' = pv[d] /\ kpc' = "name"
                 \/ pv[d] = "orphan" /\ kgroup' = kgroup /\ kpc' = "wipe"
          PROVE  Looked'
      BY <2>1, <2>2
    <2>3. ASSUME kpc' = "wipe", UNCHANGED kdisk,
                 seen' = "amiss" \/ seen' = IF pv[kdisk] = "blank" THEN "own" ELSE "amiss"
          PROVE  Looked'
      BY <2>1, <2>3
    <2>4. Looked'
      BY <1>2, <2>2, <2>3 DEF Look
    <2> QED
      BY <1>0, <2>1, <2>4 DEF InUseStays
  <1>3. CASE Rename(ok)
    <2>1. Looked' /\ UNCHANGED <<pv, lvs, mounted>>
      BY <1>3 DEF Rename
    <2> QED
      BY <1>0, <2>1 DEF InUseStays
  <1>4. CASE List
    BY <1>0, <1>4 DEF List, InUseStays
  <1>5. ASSUME NEW v \in Volumes, NextVolume(v, ok) PROVE Looked' /\ InUseStays /\ mounted' = mounted
    <2>1. Looked' /\ UNCHANGED <<pv, mounted>>
      BY <1>5 DEF NextVolume
    <2>2. mounted \subseteq lvs'
      BY <1>0, <1>5 DEF NextVolume
    <2> QED
      BY <1>0, <2>1, <2>2 DEF InUseStays
  <1>6. CASE RemoveGroup(ok)
    <2>1. CASE UNCHANGED lvm /\ kpc' = "idle"
      BY <1>0, <2>1 DEF InUseStays
    <2>2. CASE /\ VolumesOf(kgroup) \cap mounted = {}
               /\ pv' = [d \in Disks |-> IF pv[d] = kgroup THEN "orphan" ELSE pv[d]]
               /\ lvs' = lvs \ VolumesOf(kgroup) /\ KillGoto("wipe") /\ UNCHANGED <<name, mounted>>
      <3>1. kpc = "kill"
        BY <1>6 DEF RemoveGroup
      <3>2. Looked'
        BY <1>1, <2>2, <3>1
      <3>3. \A v \in mounted : GroupOf[v] # kgroup
        BY <1>0, <2>2 DEF VolumesOf
      <3> QED
        BY <1>0, <2>2, <3>2, <3>3 DEF InUseStays
    <2> QED
      BY <1>6, <2>1, <2>2 DEF RemoveGroup
  <1>7. CASE Wipe(ok)
    <2>1. /\ kpc = "wipe" /\ kpc' = "idle" /\ UNCHANGED <<name, lvs, mounted>>
          /\ pv' = [pv EXCEPT ![kdisk] = "blank"] \/ pv' = pv
      BY <1>7 DEF Wipe
    <2>2. \A v \in mounted : GroupOf[v] \notin {"blank", "orphan"}
      BY <1>0
    <2>3. \A d \in Disks : d # kdisk => pv'[d] = pv[d]
      BY <1>0, <1>1, <2>1 DEF KillTypeOK
    <2>4. seen \in {"own", "amiss"}
      BY <1>0 DEF KillTypeOK
    <2>5. \A v \in mounted : pv[kdisk] = GroupOf[v] => seen = "amiss"
      BY <2>1, <2>2, <2>4
    <2> QED
      BY <1>0, <2>1, <2>3, <2>5 DEF InUseStays
  <1> QED
    BY <1>2, <1>3, <1>4, <1>5, <1>6, <1>7 DEF KillStep

LEMMA StopLooks ==
    ASSUME Typed, KillStops PROVE Looked' /\ InUseStays /\ mounted' = mounted
  BY DEF KillStops, KillReply, lvm, Looked, InUseStays, Typed, KillTypeOK

\* Volume tasks have the node to themselves, and only add to the group.
LEMMA VolumeTaskKeeps ==
    ASSUME Typed, Turns, NEW f \in Fs, CreateVolume(f) \/ Mount(f)
    PROVE  Looked' /\ InUseStays /\ kpc = "idle" /\ \A d \in Disks : pv[d] = Vg => pv'[d] = Vg
  <1>0. mounted \subseteq lvs /\ mounted \subseteq Volumes /\ \A v \in mounted : GroupOf[v] \in Groups
    BY KillAssumption DEF Typed, KillTypeOK
  <1>1. kpc = "idle" /\ UNCHANGED killer
    BY DEF CreateVolume, VolumeTurn, Mount, Turns
  <1>2. Looked'
    BY <1>1 DEF Looked, killer
  <1>3. CASE CreateVolume(f)
    <2>1. mounted' = mounted /\ lvs \subseteq lvs'
      BY <1>3 DEF CreateVolume
    <2>2. \A d \in Disks : pv[d] \in Groups => pv'[d] = pv[d]
      BY <1>3, KillAssumption, DeployAssumption DEF CreateVolume
    <2> QED
      BY <1>0, <1>1, <1>2, <2>1, <2>2, DeployAssumption DEF InUseStays
  <1>4. CASE Mount(f)
    BY <1>0, <1>1, <1>2, <1>4 DEF Mount, InUseStays
  <1> QED
    BY <1>3, <1>4

LEMMA LooksNext ==
    ASSUME Typed, Turns, Looked, [Next]_vars PROVE Looked' /\ InUseStays
  <1>1. CASE UNCHANGED lvm /\ UNCHANGED killer
    BY <1>1 DEF lvm, killer, Looked, InUseStays, Typed, KillTypeOK
  <1>2. CASE CallPurge \/ PurgeEnds
    <2>1. UNCHANGED lvm /\ (kpc' = "look" \/ (kpc' = kpc /\ kpc = "idle"))
      BY <1>2 DEF CallPurge, Clear, PurgeEnds, Heard, Turns
    <2> QED
      BY <2>1 DEF lvm, Looked, InUseStays, Typed, KillTypeOK
  <1>3. ASSUME NEW ok \in BOOLEAN, KillpartRuns(ok) \/ KillpartEnds PROVE Looked' /\ InUseStays
    BY <1>3, AgentLooks, StopLooks DEF KillpartRuns, KillpartEnds
  <1> QED
    BY <1>1, <1>2, <1>3, VolumeTaskKeeps DEF Next, PlanStep, MakePlan, Finish, CallGrub,
       GrubEnds, GrubRuns, GrubIsEnded, Settle, vars

-----------------------------------------------------------------------------
\* What is applied stands.

LEMMA EndPlanStands ==
    ASSUME Typed, Stands, running, EndPlan, mounted \subseteq mounted',
           \A d \in Disks : pv[d] = Vg => pv'[d] = Vg
    PROVE  Stands'
  <1>1. /\ applied' \cap Mountable \subseteq mounted' /\ ~running'
        /\ applied' = applied \cup (Fs \ (creates \cup mounts))
        /\ purges' = {} /\ creates' = {} /\ mounts' = {}
    BY DEF EndPlan, Stands
  <1>2. CASE purges = {} /\ creates = {}
    <2>1. \A d \in Disks : pv[d] = Vg
      BY <1>2, DeployAssumption DEF Stands
    <2>2. fitted' = Disks
      BY <1>2 DEF EndPlan
    <2> QED
      BY <1>1, <2>1, <2>2 DEF Stands
  <1>3. CASE ~(purges = {} /\ creates = {})
    <2>1. fitted' = fitted /\ fitted \subseteq Disks
      BY <1>3 DEF EndPlan, Typed, PlanTypeOK
    <2>2. ASSUME applied' \cap Mountable # {} PROVE \A d \in fitted : pv[d] = Vg
      <3>1. CASE applied \cap Mountable # {}
        BY <3>1 DEF Stands
      <3>2. CASE creates # Fs /\ fitted # Disks
        BY <2>1, <3>2 DEF Stands
      <3>3. CASE fitted = Disks
        BY <3>3 DEF Stands
      <3>4. CASE creates = Fs /\ applied \cap Mountable = {}
        BY <1>1, <2>2, <3>4
      <3> QED
        BY <3>1, <3>2, <3>3, <3>4
    <2> QED
      BY <1>1, <2>1, <2>2 DEF Stands
  <1> QED
    BY <1>2, <1>3

LEMMA AgentStands ==
    ASSUME Typed, Turns, Stands, InUseStays, AgentStep PROVE Stands'
  <1>1. /\ kdisk \in purges /\ kdisk \in Disks /\ kdisk \notin fitted
        /\ UNCHANGED <<fitted, applied, running, purges, creates, mounts>>
    BY AgentKeepsCall DEF Turns, plan, todo, Typed, PlanTypeOK
  <1>2. fitted # Disks /\ ~(running /\ creates # Fs /\ fitted # Disks)
    BY <1>1 DEF Stands
  <1>3. ASSUME applied \cap Mountable # {} PROVE \A d \in fitted : pv'[d] = Vg
    <2>1. PICK v \in applied : v \in mounted /\ GroupOf[v] = Vg
      BY <1>3, FsAreVolumes DEF Stands, Typed, PlanTypeOK
    <2>2. \A d \in fitted : d \in Disks /\ d # kdisk /\ pv[d] = GroupOf[v]
      BY <1>1, <1>3, <2>1 DEF Stands, Typed, PlanTypeOK
    <2> QED
      BY <2>1, <2>2 DEF InUseStays
  <1>4. mounted \subseteq mounted'
    BY DEF InUseStays
  <1> QED
    BY <1>1, <1>2, <1>3, <1>4 DEF Stands

LEMMA StandsNext ==
    ASSUME Typed, Turns, Stands, InUseStays, [Next]_vars PROVE Stands'
  <1>1. CASE UNCHANGED <<lvm, fitted, applied, running, purges, creates, mounts>>
    BY <1>1 DEF lvm, Stands
  <1>2. CASE AgentStep
    BY <1>2, AgentStands
  <1>3. CASE MakePlan
    BY <1>3 DEF MakePlan, Stands, lvm
  <1>4. CASE PurgeEnds
    <2>1. running /\ UNCHANGED lvm
      BY <1>4 DEF PurgeEnds, Heard
    <2>2. CASE EndPlan
      BY <2>1, <2>2, EndPlanStands DEF lvm
    <2>3. CASE purges' = purges \ {kdisk} /\ UNCHANGED <<fitted, applied, running, creates, mounts>>
      BY <2>1, <2>3 DEF Stands, lvm
    <2> QED
      BY <1>4, <2>2, <2>3 DEF PurgeEnds
  <1>5. ASSUME NEW f \in Fs, CreateVolume(f) PROVE Stands'
    <2>1. running /\ purges = {} /\ f \in creates /\ mounted' = mounted
      BY <1>5 DEF CreateVolume, VolumeTurn
    <2>2. CASE EndPlan
      BY <1>5, <2>1, <2>2, EndPlanStands, VolumeTaskKeeps
    <2>3. CASE /\ pv' = [d \in Disks |-> Vg]
               /\ UNCHANGED <<fitted, applied, running, purges, mounts>>
      BY <2>1, <2>3 DEF Stands, Typed, PlanTypeOK
    <2> QED
      BY <1>5, <2>2, <2>3 DEF CreateVolume
  <1>6. ASSUME NEW f \in Fs, Mount(f) PROVE Stands'
    <2>1. running /\ pv' = pv /\ mounted \subseteq mounted'
      BY <1>6 DEF Mount
    <2>2. CASE EndPlan
      BY <2>1, <2>2, EndPlanStands
    <2>3. CASE /\ mounted' = mounted \cup {f} /\ mounts' = mounts \ {f}
               /\ UNCHANGED <<fitted, applied, running, purges, creates>>
      BY <2>1, <2>3 DEF Stands
    <2> QED
      BY <1>6, <2>2, <2>3 DEF Mount
  <1>7. CASE Finish \/ GrubEnds
    <2>1. running /\ UNCHANGED lvm
      BY <1>7 DEF Finish, GrubEnds
    <2>2. CASE EndPlan
      BY <2>1, <2>2, EndPlanStands DEF lvm
    <2> QED
      BY <1>1, <1>7, <2>1, <2>2 DEF Finish, GrubEnds
  <1> QED
    BY <1>1, <1>2, <1>3, <1>4, <1>5, <1>6, <1>7 DEF Next, PlanStep, AgentStep, CallPurge, Clear,
       CallGrub, GrubRuns, GrubIsEnded, Settle, vars, plan, todo

-----------------------------------------------------------------------------
\* Names in boot files.

LEMMA GrubStepNames ==
    ASSUME GrubInv, NamesStand, NEW ok \in BOOLEAN, GrubStep(ok) \/ GrubStops, mounted' = mounted
    PROVE  NamesStand'
  <1> USE DEF GrubGoto, NextFile, AtFile, AtEnd, boot, NamesStand
  <1>0. GrubTypeOK
    BY DEF GrubInv
  <1>1. CASE Backup(ok)
    <2>1. File \in Files
      BY <1>0, <1>1, FileInFiles DEF Backup
    <2> QED
      BY <1>0, <1>1, <2>1 DEF Backup, GrubTypeOK
  <1>2. CASE BackedUp \/ Edited
    BY <1>2 DEF BackedUp, Edited
  <1>3. CASE Edit(ok)
    <2>1. File \in Files /\ gpc = "edit"
      BY <1>0, <1>3, FileInFiles DEF Edit
    <2>2. ASSUME NEW names \in Texts, Written(File, names) PROVE names \cap Mountable \subseteq mounted
      BY <1>3, <2>1, <2>2 DEF Written
    <2>3. \A f \in present : text'[f] \cap Mountable \subseteq mounted
      BY <1>0, <1>3, <2>1, <2>2 DEF Edit, GrubTypeOK
    <2> QED
      BY <1>3, <2>1, <2>3 DEF Edit
  <1>4. CASE Restore
    <2>1. File \in Files
      BY <1>0, <1>4, FileInFiles DEF Restore
    <2> QED
      BY <1>0, <1>4, <2>1 DEF Restore, GrubTypeOK
  <1>5. CASE Discard
    BY <1>5 DEF Discard
  <1>6. CASE Restored \/ Discarded \/ GrubStops
    BY <1>6 DEF Restored, Discarded, GrubStops, GrubReply
  <1> QED
    BY <1>1, <1>2, <1>3, <1>4, <1>5, <1>6 DEF GrubStep

LEMMA NamesNext ==
    ASSUME GrubInv, Turns, Stands, InUseStays, NamesStand, [Next]_vars PROVE NamesStand'
  <1>1. CASE UNCHANGED grubVars
    BY <1>1 DEF grubVars, boot, agent, NamesStand, InUseStays
  <1>2. CASE CallGrub
    BY <1>2 DEF CallGrub, GrubTurn, Ask, boot, Stands, NamesStand, lvm
  <1>3. ASSUME NEW ok \in BOOLEAN, GrubRuns(ok) \/ GrubIsEnded PROVE NamesStand'
    <2>1. mounted' = mounted
      BY <1>3 DEF GrubRuns, GrubIsEnded, lvm
    <2> QED
      BY <1>3, <2>1, GrubStepNames DEF GrubRuns, GrubIsEnded
  <1>4. ASSUME NEW f \in Fs, CreateVolume(f) \/ Mount(f) PROVE UNCHANGED grubVars
    BY <1>4 DEF CreateVolume, Mount
  <1> QED
    BY <1>1, <1>2, <1>3, <1>4 DEF Next, PlanStep, MakePlan, Finish, CallPurge, PurgeEnds,
       GrubEnds, KillpartRuns, KillpartEnds, Settle, vars

-----------------------------------------------------------------------------
\* The theorems about the node.

Inv == Typed /\ GrubInv /\ Turns /\ Looked /\ Stands /\ NamesStand

LEMMA InitInv == Init => Inv
  <1> SUFFICES ASSUME Init PROVE Inv
    OBVIOUS
  <1>1. Typed
    BY InitTyped DEF Init, Typed, BoolsTyped
  <1>2. GrubInv
    BY GrubInitInv DEF Init
  <1>3. Turns /\ Looked
    BY DEF Init, Turns, Looked
  <1>4. Stands
    BY DEF Init, Stands
  <1>5. NamesStand
    <2>1. applied \cap Mountable \subseteq mounted /\ present \subseteq Files
      BY <1>4, <1>1 DEF Stands, Typed, GrubTypeOK
    <2> QED
      BY <2>1 DEF Init, GrubInit, NamesStand
  <1> QED
    BY <1>1, <1>2, <1>3, <1>4, <1>5 DEF Inv

LEMMA NextInv == Inv /\ [Next]_vars => Inv' /\ InUseStays
  <1> SUFFICES ASSUME Inv, [Next]_vars PROVE Inv' /\ InUseStays
    OBVIOUS
  <1>1. Typed'
    <2>1. GrubTypeOK'
      BY GrubInNode, GrubTyped DEF Inv, Typed
    <2> QED
      BY <2>1, KillNextTyped, PlanNextTyped, BoolsStay DEF Inv, Typed
  <1>2. GrubInv'
    BY GrubInNode, GrubNextInv DEF Inv
  <1>3. Turns' /\ Looked' /\ InUseStays
    BY TurnsNext, LooksNext DEF Inv
  <1>4. Stands' /\ NamesStand'
    BY <1>3, StandsNext, NamesNext DEF Inv
  <1> QED
    BY <1>1, <1>2, <1>3, <1>4 DEF Inv

LEMMA Invariant == Spec => []Inv
  <1> QED
    BY InitInv, NextInv, PTL DEF Spec

\* No purge of a plan that fails or is made again takes anything from what is
\* applied and mounted, or a disk from the applied ones, whatever pvs and the
\* facts tell the agent: the disks it purges are not applied, and a group of
\* which a volume is mounted is never removed.
THEOREM AppliedStandsAlways == Spec => []AppliedStands
  <1>1. Inv => AppliedStands
    BY DEF Inv, Stands, AppliedStands, Typed, KillTypeOK
  <1> QED
    BY <1>1, Invariant, PTL

\* No step of the node removes a mounted volume or a disk from under one, but for
\* the disk that is purged if the agent has not seen what is on it.
THEOREM MountedAreKept == Spec => MountedKept
  <1>1. Inv /\ [Next]_vars =>
          [\A v \in mounted :
             /\ v \in lvs'
             /\ \A d \in Disks : pv[d] = GroupOf[v] =>
                  pv'[d] = pv[d] \/ (kpc = "wipe" /\ d = kdisk /\ seen = "amiss")]_vars
    BY NextInv DEF InUseStays
  <1> QED
    BY <1>1, Invariant, PTL DEF Spec, MountedKept

\* The boot files only ever name volumes that exist, of the file systems that
\* have a mount point.
THEOREM BootNamesAlwaysExist == Spec => []BootNamesExist
  <1>1. Inv => BootNamesExist
    BY DEF Inv, NamesStand, BootNamesExist, Typed, KillTypeOK
  <1> QED
    BY <1>1, Invariant, PTL

-----------------------------------------------------------------------------
\* What waits for what: a purge task for its agent or the agent's answer, and
\* the grub task for the grub agent, which works for no one else.
Answering == /\ kdisk # NoDisk => kpc # "idle" \/ kout # "none"
             /\ gpc # "idle" => running /\ grubTask = "called"
             /\ grubTask = "called" => running /\ mounts = {}
             /\ Sources \cap present # {}

LEMMA AnsweringNext == Typed /\ GrubInv /\ Turns /\ Answering /\ [Next]_vars => Answering'
  <1> SUFFICES ASSUME Typed, GrubInv, Turns, Answering, [Next]_vars PROVE Answering'
    OBVIOUS
  <1>0. present' = present
    <2>1. [GrubNext]_grubVars
      BY GrubInNode
    <2> QED
      BY <2>1 DEF GrubNext, Ask, GrubStep, Backup, BackedUp, Edit, Edited, Restore, Restored,
         Discard, Discarded, GrubStops, GrubReply, boot, grubVars
  <1>1. CASE UNCHANGED <<killer, agent, running, todo>>
    BY <1>0, <1>1 DEF Answering, killer, agent, todo
  <1>2. CASE AgentStep
    <2>1. /\ kdisk' = kdisk /\ (kpc' # "idle" \/ kout' # "none")
          /\ UNCHANGED <<agent, running, todo>>
      <3>1. ASSUME NEW ok \in BOOLEAN, KillStep(ok) \/ KillStops
            PROVE  kpc' # "idle" \/ kout' # "none"
        BY <3>1 DEF KillStep, KillStops, Look, Rename, List, RemoveGroup, Wipe, NextVolume,
           KillGoto, KillReply
      <3> QED
        BY <1>2, <3>1, AgentKeepsCall DEF AgentStep, KillpartEnds, KillpartRuns, grubVars, plan
    <2> QED
      BY <1>0, <2>1 DEF Answering, agent, todo
  <1>3. ASSUME EndPlan, UNCHANGED agent, gpc = "idle", kdisk' = NoDisk PROVE Answering'
    BY <1>0, <1>3 DEF Answering, EndPlan, agent
  <1>4. CASE MakePlan
    BY <1>0, <1>4 DEF MakePlan, Answering, Turns, killer, grubVars, agent
  <1>5. CASE CallPurge
    BY <1>0, <1>5 DEF CallPurge, Clear, Answering, grubVars, agent, plan, todo
  <1>6. CASE PurgeEnds
    <2>1. kdisk' = NoDisk /\ UNCHANGED agent /\ grubTask # "called" /\ gpc = "idle"
      BY <1>6 DEF PurgeEnds, Heard, Turns, Answering, grubVars
    <2> QED
      BY <1>0, <1>3, <1>6, <2>1 DEF PurgeEnds, Answering, agent
  <1>7. ASSUME NEW f \in Fs, CreateVolume(f) \/ Mount(f) PROVE Answering'
    <2>1. /\ grubTask # "called" /\ purges = {} /\ UNCHANGED <<killer, grubVars>>
      BY <1>7 DEF CreateVolume, VolumeTurn, Mount
    <2>2. gpc = "idle" /\ kdisk = NoDisk
      BY <2>1 DEF Answering, Turns
    <2>3. CASE EndPlan
      BY <1>3, <2>1, <2>2, <2>3 DEF killer, grubVars
    <2>4. CASE UNCHANGED grubTask
      BY <1>0, <2>1, <2>2, <2>4 DEF Answering, killer, grubVars, agent
    <2> QED
      BY <1>7, <2>3, <2>4 DEF CreateVolume, Mount
  <1>8. CASE Finish
    BY <1>0, <1>8 DEF Finish, EndPlan, Answering, Turns, killer, grubVars, agent
  <1>9. CASE CallGrub
    BY <1>0, <1>9 DEF CallGrub, GrubTurn, Ask, GrubGoto, Answering, killer
  <1>10. CASE GrubEnds
    <2>1. /\ gpc = "idle" /\ UNCHANGED <<killer, agent>> /\ grubTask' = "none"
          /\ kdisk = NoDisk
      BY <1>10 DEF GrubEnds, GrubInv, Waiting, Turns, grubVars, EndPlan
    <2> QED
      BY <1>0, <2>1 DEF Answering, killer, agent
  <1>11. ASSUME NEW ok \in BOOLEAN, GrubRuns(ok) \/ GrubIsEnded PROVE Answering'
    <2>1. gpc # "idle"
      BY <1>11 DEF GrubRuns, GrubIsEnded, GrubStep, GrubStops, Backup, BackedUp, Edit, Edited,
         Restore, Restored, Discard, Discarded, AtFile, AtEnd
    <2>2. UNCHANGED <<killer, plan>>
      BY <1>11 DEF GrubRuns, GrubIsEnded
    <2> QED
      BY <1>0, <2>1, <2>2 DEF Answering, killer, plan, todo
  <1>12. CASE Settle
    BY <1>1, <1>12 DEF Settle, grubVars, plan
  <1> QED
    BY <1>1, <1>2, <1>4, <1>5, <1>6, <1>7, <1>8, <1>9, <1>10, <1>11, <1>12 DEF Next, PlanStep,
       AgentStep, vars, grubVars, plan

AlwaysAnswering == Typed /\ GrubInv /\ Turns /\ Answering

LEMMA AnsweringInvariant == Spec => []AlwaysAnswering
  <1>1. Init => AlwaysAnswering
    <2>1. ASSUME Init PROVE Typed /\ GrubInv /\ Turns /\ Answering
      BY <2>1, InitTyped, GrubInitInv DEF Init, GrubInit, Typed, BoolsTyped, Turns, Answering
    <2> QED
      BY <2>1 DEF AlwaysAnswering
  <1>2. AlwaysAnswering /\ [Next]_vars => AlwaysAnswering'
    <2> SUFFICES ASSUME AlwaysAnswering, [Next]_vars PROVE AlwaysAnswering'
      OBVIOUS
    <2>1. GrubInv' /\ Turns' /\ Answering'
      BY GrubInNode, GrubNextInv, TurnsNext, AnsweringNext DEF AlwaysAnswering
    <2>2. KillTypeOK' /\ PlanTypeOK' /\ BoolsTyped' /\ GrubTypeOK'
      BY <2>1, KillNextTyped, PlanNextTyped, BoolsStay DEF AlwaysAnswering, Typed, GrubInv
    <2> QED
      BY <2>1, <2>2 DEF AlwaysAnswering, Typed
  <1> QED
    BY <1>1, <1>2, PTL DEF Spec

-----------------------------------------------------------------------------
\* While a plan runs, a task can go on or an agent works for it.

PlanTurn == \/ purges # {} /\ kdisk = NoDisk
            \/ kout \in {"done", "error"}
            \/ purges = {} /\ creates # {} /\ grubTask # "called"
            \/ purges = {} /\ mounts \ creates # {} /\ grubTask # "called"
            \/ GrubTurn /\ told # "asked" /\ gpc = "idle"
            \/ grubTask = "called" /\ told # "asked"
            \/ purges = {} /\ creates = {} /\ mounts = {} /\ grubTask = "none"

\* The commands of the killpart agent find what they are about.
KillTurn == \/ /\ kpc = "look"
               /\ \/ \E d \in Disks : <<d, kdisk>> \in matches /\ pv[d] \in Groups
                  \/ \E d \in Disks : <<d, kdisk>> \in matches /\ pv[d] = "orphan"
                  \/ \A d \in Disks : <<d, kdisk>> \in matches => pv[d] = "blank"
            \/ /\ kpc = "name"
               /\ Clashes(kgroup) => \E n \in Names : \A h \in Groups : name[h] # n
            \/ kpc = "list"
            \/ kpc = "kill" /\ (kdir = {} \/ kdir \cap Volumes # {})
            \/ kpc = "wipe"

\* Those of the grub agent find a source for what they write.
EditTurn == /\ gpc # "idle" /\ gk \in 1 .. Len(Order) + 1
            /\ AtFile("edit") /\ File \in present => \E names \in Texts : Written(File, names)

\* A random name is one that no group has.
SpareName == \A used \in [Groups -> Names] : \E n \in Names : \A h \in Groups : used[h] # n

LEMMA AgentCanGoOn ==
  ASSUME SpareName, KillTypeOK, kpc # "idle"
  PROVE  KillTurn
  <1>1. CASE kpc = "look"
    BY <1>1 DEF KillTurn, KillTypeOK
  <1>2. CASE kpc = "name"
    BY <1>2 DEF KillTurn, KillTypeOK, SpareName
  <1>3. CASE kpc = "kill"
    <2>1. kdir = {} \/ kdir \cap Volumes # {}
      BY DEF KillTypeOK
    <2> QED
      BY <1>3, <2>1 DEF KillTurn
  <1>4. CASE kpc \in {"list", "wipe"}
    BY <1>4 DEF KillTurn
  <1>5. kpc \in {"idle", "look", "name", "list", "kill", "wipe"}
    BY DEF KillTypeOK
  <1> QED
    BY <1>1, <1>2, <1>3, <1>4, <1>5

LEMMA GrubCanGoOn ==
  ASSUME GrubTypeOK, Sources \cap present # {}, gpc # "idle"
  PROVE  EditTurn
  <1>1. gk \in 1 .. Len(Order) + 1
    BY DEF GrubTypeOK
  <1>2. goal \in Texts
    BY DEF GrubTypeOK
  <1>3. PICK s \in Sources \cap present : TRUE
    OBVIOUS
  <1>4. text[s] \in Texts
    BY <1>3 DEF GrubTypeOK
  <1>5. \E names \in Texts : Written(File, names)
    BY <1>2, <1>3, <1>4 DEF Written
  <1> QED
    BY <1>1, <1>5 DEF EditTurn

LEMMA TurnComes ==
  ASSUME SpareName, AlwaysAnswering, running
  PROVE  PlanTurn \/ KillTurn \/ EditTurn
  <1> USE DEF AlwaysAnswering
  <1>1. CASE kpc # "idle"
    BY <1>1, AgentCanGoOn DEF Typed
  <1>2. CASE gpc # "idle"
    BY <1>2, GrubCanGoOn DEF Typed, Answering
  <1>3. CASE kpc = "idle" /\ gpc = "idle"
    <2>1. told # "asked"
      BY <1>3 DEF GrubInv, Waiting
    <2>2. CASE kdisk # NoDisk
      BY <1>3, <2>2 DEF Answering, Typed, KillTypeOK, PlanTurn
    <2>3. CASE kdisk = NoDisk /\ purges # {}
      BY <2>3 DEF PlanTurn
    <2>4. CASE purges = {} /\ (creates # {} \/ mounts # {})
      BY <2>1, <2>4 DEF PlanTurn
    <2>5. CASE purges = {} /\ creates = {} /\ mounts = {}
      <3>1. grubTask \in {"none", "due", "called"}
        BY DEF Typed, PlanTypeOK
      <3> QED
        BY <1>3, <2>1, <2>5, <3>1 DEF PlanTurn, GrubTurn
    <2> QED
      BY <2>2, <2>3, <2>4, <2>5
  <1> QED
    BY <1>1, <1>2, <1>3

\* While a plan runs, the turn of a task comes, or an agent works that can go
\* on: no answer is waited for that no agent gives, and the grub task finds no
\* agent of an earlier plan.
THEOREM NoTaskWaitsInVain ==
    ASSUME SpareName PROVE Spec => [](running => PlanTurn \/ KillTurn \/ EditTurn)
  <1>1. AlwaysAnswering => (running => PlanTurn \/ KillTurn \/ EditTurn)
    BY TurnComes
  <1> QED
    BY <1>1, AnsweringInvariant, PTL

-----------------------------------------------------------------------------
\* Plans are finite.

KillStage(step) == CASE step = "look" -> 1 [] step = "name" -> 2 [] step = "list" -> 3
                     [] step = "kill" -> 4 [] step = "wipe" -> 5 [] step = "idle" -> 6
GrubStage(step) == CASE step = "backup" -> 1 [] step = "edit" -> 2 [] step = "restore" -> 3
                     [] step = "discard" -> 4 [] step = "idle" -> 5

\* A task is done, or calls an agent; or the agent that is called comes to its
\* next command.
TaskMoves == /\ todo' # todo
             /\ purges' \subseteq purges /\ creates' \subseteq creates
             /\ mounts' \subseteq mounts
             /\ \/ grubTask' = grubTask
                \/ <<grubTask, grubTask'>> \in {<<"due", "called">>, <<"called", "none">>}
CallMoves == todo' = todo /\ kdisk = NoDisk /\ kdisk' \in purges
KillMoves == /\ todo' = todo /\ kdisk' = kdisk /\ kdisk # NoDisk
             /\ \/ KillStage(kpc') > KillStage(kpc)
                \/ kpc' = kpc /\ kdir' \subseteq kdir /\ kdir' # kdir
GrubMoves == /\ UNCHANGED <<todo, killer>> /\ grubTask = "called"
             /\ \/ GrubStage(gpc') > GrubStage(gpc)
                \/ gpc' = gpc /\ gk' = gk + 1
PlanMoves == TaskMoves \/ CallMoves \/ KillMoves \/ GrubMoves

LEMMA KillAgentMoves ==
  ASSUME AlwaysAnswering, AgentStep
  PROVE  KillMoves
  <1>1. todo' = todo /\ kdisk' = kdisk /\ kdisk # NoDisk
    BY AgentKeepsCall DEF plan, AlwaysAnswering, Turns
  <1>2. ASSUME NEW ok \in BOOLEAN, KillStep(ok) \/ KillStops
        PROVE  \/ KillStage(kpc') > KillStage(kpc)
               \/ kpc' = kpc /\ kdir' \subseteq kdir /\ kdir' # kdir
    <2> USE DEF KillGoto, KillReply, KillStage
    <2>1. CASE Look(ok)
      <3>1. kpc = "look" /\ kpc' \in {"name", "wipe", "idle"}
        BY <2>1 DEF Look
      <3> QED
        BY <3>1
    <2>2. CASE Rename(ok) \/ List \/ RemoveGroup(ok) \/ Wipe(ok)
      BY <2>2 DEF Rename, List, RemoveGroup, Wipe
    <2>3. ASSUME NEW v \in Volumes, NextVolume(v, ok)
          PROVE  \/ KillStage(kpc') > KillStage(kpc)
                 \/ kpc' = kpc /\ kdir' \subseteq kdir /\ kdir' # kdir
      <3>1. kpc = "kill" /\ v \in kdir
        BY <2>3 DEF NextVolume
      <3>2. kpc' = "idle" \/ (kpc' = kpc /\ kdir' = kdir \ {v})
        BY <2>3 DEF NextVolume
      <3> QED
        BY <3>1, <3>2
    <2>4. CASE KillStops
      <3>1. kpc \in {"idle", "look", "name", "list", "kill", "wipe"}
        BY DEF AlwaysAnswering, Typed, KillTypeOK
      <3> QED
        BY <2>4, <3>1 DEF KillStops
    <2> QED
      BY <1>2, <2>1, <2>2, <2>3, <2>4 DEF KillStep
  <1>3. \/ KillStage(kpc') > KillStage(kpc)
        \/ kpc' = kpc /\ kdir' \subseteq kdir /\ kdir' # kdir
    BY <1>2 DEF AgentStep, KillpartRuns, KillpartEnds
  <1> QED
    BY <1>1, <1>3 DEF KillMoves

LEMMA GrubAgentMoves ==
  ASSUME AlwaysAnswering, NEW ok \in BOOLEAN, GrubRuns(ok) \/ GrubIsEnded
  PROVE  GrubMoves
  <1> USE DEF GrubGoto, NextFile, AtFile, AtEnd, GrubReply, GrubStage
  <1>0. gpc \in {"idle", "backup", "edit", "restore", "discard"}
    BY DEF AlwaysAnswering, Typed, GrubTypeOK
  <1>1. ASSUME GrubStep(ok)
        PROVE  gpc # "idle" /\ (GrubStage(gpc') > GrubStage(gpc) \/ (gpc' = gpc /\ gk' = gk + 1))
    <2>1. CASE Backup(ok)
      BY <2>1 DEF Backup
    <2>2. CASE Edit(ok)
      BY <2>2 DEF Edit
    <2>3. CASE BackedUp \/ Edited \/ Restored \/ Discarded
      BY <2>3 DEF BackedUp, Edited, Restored, Discarded
    <2>4. CASE Restore \/ Discard
      BY <2>4 DEF Restore, Discard
    <2> QED
      BY <1>1, <2>1, <2>2, <2>3, <2>4 DEF GrubStep
  <1>2. ASSUME GrubStops
        PROVE  gpc # "idle" /\ GrubStage(gpc') > GrubStage(gpc)
    BY <1>0, <1>2 DEF GrubStops
  <1>3. UNCHANGED <<todo, killer>>
    BY DEF GrubRuns, GrubIsEnded, plan
  <1>4. grubTask = "called"
    BY <1>1, <1>2 DEF GrubRuns, GrubIsEnded, AlwaysAnswering, Answering
  <1> QED
    BY <1>1, <1>2, <1>3, <1>4 DEF GrubRuns, GrubIsEnded, GrubMoves

LEMMA PlanStepMoves ==
  ASSUME AlwaysAnswering, PlanStep, running'
  PROVE  TaskMoves \/ CallMoves
  <1> USE DEF todo, TaskMoves
  <1>0. ~EndPlan
    BY DEF EndPlan
  <1>1. ~Finish
    BY <1>0 DEF Finish
  <1>2. CASE CallPurge
    BY <1>2 DEF CallPurge, Clear, CallMoves, plan
  <1>3. CASE PurgeEnds
    <2>1. kdisk \in purges /\ purges' = purges \ {kdisk} /\ UNCHANGED <<creates, mounts, grubTask>>
      BY <1>0, <1>3 DEF PurgeEnds, Heard, AlwaysAnswering, Turns
    <2> QED
      BY <2>1
  <1>4. ASSUME NEW f \in Fs, CreateVolume(f) PROVE TaskMoves
    <2>1. f \in creates /\ creates' = creates \ {f} /\ UNCHANGED <<purges, mounts, grubTask>>
      BY <1>0, <1>4 DEF CreateVolume, VolumeTurn
    <2> QED
      BY <2>1
  <1>5. ASSUME NEW f \in Fs, Mount(f) PROVE TaskMoves
    <2>1. f \in mounts /\ mounts' = mounts \ {f} /\ UNCHANGED <<purges, creates, grubTask>>
      BY <1>0, <1>5 DEF Mount
    <2> QED
      BY <2>1
  <1>6. CASE CallGrub
    BY <1>6 DEF CallGrub, GrubTurn
  <1>7. CASE GrubEnds
    BY <1>0, <1>7 DEF GrubEnds
  <1> QED
    BY <1>1, <1>2, <1>3, <1>4, <1>5, <1>6, <1>7 DEF PlanStep

\* While a plan runs every step but the settling of the node moves it: a task
\* is done and leaves the plan, or calls an agent once, which goes from command
\* to command and never back.  So no plan is without end.
PlanRunsDown == running /\ running' => PlanMoves \/ (Settle /\ UNCHANGED <<todo, killer, agent>>)

THEOREM PlansRunDown == Spec => [][PlanRunsDown]_vars
  <1>1. AlwaysAnswering /\ [Next]_vars => [PlanRunsDown]_vars
    <2> SUFFICES ASSUME AlwaysAnswering, Next, running, running' PROVE PlanRunsDown
      BY DEF PlanRunsDown
    <2> USE DEF PlanRunsDown, PlanMoves
    <2>1. CASE PlanStep
      BY <2>1, PlanStepMoves
    <2>2. CASE AgentStep
      BY <2>2, KillAgentMoves
    <2>3. ASSUME NEW ok \in BOOLEAN, GrubRuns(ok) \/ GrubIsEnded PROVE PlanRunsDown
      BY <2>3, GrubAgentMoves
    <2>4. CASE Settle
      BY <2>4 DEF Settle, plan, grubVars
    <2>5. ~MakePlan
      BY DEF MakePlan
    <2> QED
      BY <2>1, <2>2, <2>3, <2>4, <2>5 DEF Next, AgentStep
  <1> QED
    BY <1>1, AnsweringInvariant, PTL DEF Spec
=============================================================================
