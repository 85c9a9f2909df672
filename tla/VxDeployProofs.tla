--------------------------- MODULE VxDeployProofs ---------------------------
(***************************************************************************)
(* Proofs about the plans for a data disk group, for any nodes, disks and  *)
(* file systems, any failures and any moves of the group.  That an added   *)
(* disk is in the group rests on disk names that are not part of each      *)
(* other (NamesApart), because disk_is_in_group greps for them.            *)
(***************************************************************************)
EXTENDS VxDeploy, TLAPS

NamesApart == \A x \in Contains : x[1] = x[2]

StoreTyped == /\ disk \in [Disks -> {"raw", "set", "member"}]
              /\ imp \in Nodes \cup {NoNode} /\ landing \in Nodes \cup {NoNode}
              /\ vols \subseteq Fs /\ made \subseteq vols /\ ready \subseteq vols
              /\ carries \subseteq Disks
PlanTyped == /\ vg \in {"initial", "applied", "removal", "removed"}
             /\ modelled \subseteq Disks \cup Fs /\ applied \subseteq modelled
             /\ larger \subseteq Fs /\ founders \subseteq Disks
             /\ fsNode \in Nodes
             /\ founding \in {"no", "due"}
             /\ setups \subseteq Disks /\ adds \subseteq Disks
             /\ volumes \subseteq Fs /\ formats \subseteq Fs /\ prepares \subseteq Fs
             /\ resizes \subseteq Fs
             /\ teardown \in {"none", "stop", "destroy", "unsetup"}
             /\ unsetups \subseteq Disks
BoolsTyped == running \in BOOLEAN /\ calm \in BOOLEAN
Typed == StoreTyped /\ PlanTyped /\ BoolsTyped

-----------------------------------------------------------------------------
\* Types.

LEMMA InitTyped == Init => Typed
  BY VxAssumption DEF Init, Typed, StoreTyped, PlanTyped, BoolsTyped

LEMMA StoreNext == StoreTyped /\ PlanTyped /\ [Next]_vars => StoreTyped'
  <1> SUFFICES ASSUME StoreTyped, PlanTyped, [Next]_vars PROVE StoreTyped'
    OBVIOUS
  <1> USE VxAssumption DEF StoreTyped, content
  <1>1. CASE UNCHANGED store
    BY <1>1 DEF store
  <1>2. ASSUME NEW d \in Disks, DiskSetUp(d) \/ DiskAdded(d) PROVE StoreTyped'
    BY <1>2 DEF DiskSetUp, DiskAdded, Located
  <1>3. CASE Initialised(modelled \cap Disks) \/ AlreadyThere \/ NotYetThere
    BY <1>3 DEF Initialised, AlreadyThere, NotYetThere
  <1>4. ASSUME NEW f \in Fs, VolumeMade(f) \/ Formatted(f) \/ Prepared(f) \/ Resized(f)
        PROVE  StoreTyped'
    BY <1>4 DEF VolumeMade, Formatted, Prepared, Resized, Located, Members
  <1>5. CASE StopVolumes
    BY <1>5 DEF StopVolumes
  <1>6. CASE DestroyGroup
    BY <1>6 DEF DestroyGroup
  <1>7. ASSUME NEW d \in Disks, UnsetUpDisk(d) PROVE StoreTyped'
    BY <1>7 DEF UnsetUpDisk
  <1>8. CASE MakePlan \/ Withdraw \/ GroupMoves \/ ImportLands
    BY <1>8 DEF MakePlan, Withdraw, GroupMoves, ImportLands, Located
  <1>9. ASSUME NEW d \in Disks, SetUpDisk(d) \/ AddDisk(d) PROVE StoreTyped'
    BY <1>2, <1>9 DEF SetUpDisk, AddDisk
  <1>10. ASSUME NEW f \in Fs, MakeVolume(f) \/ Format(f) \/ Prepare(f) \/ Resize(f)
         PROVE  StoreTyped'
    BY <1>4, <1>10 DEF MakeVolume, Format, Prepare, Resize
  <1>11. ASSUME NEW x, AddItem(x) PROVE UNCHANGED store
    BY <1>11 DEF AddItem
  <1>12. ASSUME NEW x, Enlarge(x) PROVE UNCHANGED store
    BY <1>12 DEF Enlarge
  <1> QED
    BY <1>1, <1>3, <1>5, <1>6, <1>7, <1>8, <1>9, <1>10, <1>11, <1>12 DEF Next, PlanStep, Build,
       Remove, CreateGroup, Misplaced, Finish, PlanBreaks, MakeRemoval, Settle, vars

LEMMA EndPlanTyped == PlanTyped /\ EndPlan => PlanTyped' /\ running' = FALSE
  BY DEF PlanTyped, EndPlan

LEMMA PlanNext == StoreTyped /\ PlanTyped /\ [Next]_vars => PlanTyped'
  <1> SUFFICES ASSUME StoreTyped, PlanTyped, [Next]_vars PROVE PlanTyped'
    OBVIOUS
  <1> USE DEF PlanTyped, model
  <1>1. CASE UNCHANGED <<model, fsNode, todo>>
    BY <1>1 DEF todo
  <1>2. CASE EndPlan
    BY <1>2, EndPlanTyped
  <1>3. CASE MakePlan
    <2>1. fsNode' \in Nodes
      BY <1>3, VxAssumption DEF MakePlan, Located, StoreTyped
    <2> QED
      BY <1>3, <2>1 DEF MakePlan, NewDisks, Work
  <1>4. CASE MakeRemoval
    BY <1>4 DEF MakeRemoval
  <1>5. ASSUME NEW d \in Disks, SetUpDisk(d) \/ AddDisk(d) \/ UnsetUpDisk(d) PROVE PlanTyped'
    BY <1>2, <1>5 DEF SetUpDisk, AddDisk, UnsetUpDisk, NotAnswered
  <1>6. CASE CreateGroup
    BY <1>2, <1>6 DEF CreateGroup, NotAnswered
  <1>7. ASSUME NEW f \in Fs, MakeVolume(f) \/ Format(f) \/ Prepare(f) \/ Resize(f) PROVE PlanTyped'
    BY <1>2, <1>7 DEF MakeVolume, Format, Prepare, Resize, NotAnswered
  <1>8. CASE StopVolumes \/ DestroyGroup
    BY <1>2, <1>8 DEF StopVolumes, DestroyGroup, TeardownGoes, NotAnswered
  <1>9. ASSUME NEW x \in Disks \cup Fs, AddItem(x) PROVE PlanTyped'
    BY <1>9 DEF AddItem, todo
  <1>10. ASSUME NEW f \in Fs, Enlarge(f) PROVE PlanTyped'
    BY <1>10 DEF Enlarge, todo
  <1>11. CASE Withdraw
    BY <1>11 DEF Withdraw, todo
  <1> QED
    BY <1>1, <1>2, <1>3, <1>4, <1>5, <1>6, <1>7, <1>8, <1>9, <1>10, <1>11 DEF Next, PlanStep,
       Build, Remove, Misplaced, Finish, PlanBreaks, NotAnswered, GroupMoves, ImportLands,
       Settle, vars

LEMMA BoolsNext == BoolsTyped /\ [Next]_vars => BoolsTyped'
  <1> SUFFICES ASSUME BoolsTyped, [Next]_vars PROVE BoolsTyped'
    OBVIOUS
  <1> USE DEF EndPlan, NotAnswered
  <1>1. ASSUME NEW x, \/ SetUpDisk(x) \/ AddDisk(x) \/ UnsetUpDisk(x) \/ MakeVolume(x)
                      \/ Format(x) \/ Prepare(x) \/ Resize(x) \/ AddItem(x) \/ Enlarge(x)
        PROVE  calm' = calm /\ (running' = running \/ running' = FALSE)
    BY <1>1 DEF SetUpDisk, AddDisk, UnsetUpDisk, MakeVolume, Format, Prepare, Resize, AddItem,
       Enlarge
  <1>2. CASE CreateGroup \/ Misplaced \/ Finish \/ PlanBreaks \/ StopVolumes \/ DestroyGroup
    <2>1. calm' = calm /\ (running' = running \/ running' = FALSE)
      BY <1>2 DEF CreateGroup, Misplaced, Finish, PlanBreaks, StopVolumes, DestroyGroup,
         TeardownGoes
    <2> QED
      BY <2>1 DEF BoolsTyped
  <1>3. CASE MakePlan \/ MakeRemoval \/ Withdraw \/ GroupMoves \/ ImportLands \/ Settle
    <2>1. (calm' = calm \/ calm' = TRUE) /\ (running' = running \/ running' = TRUE)
      BY <1>3 DEF MakePlan, MakeRemoval, Withdraw, GroupMoves, ImportLands, Settle
    <2> QED
      BY <2>1 DEF BoolsTyped
  <1>4. CASE UNCHANGED vars
    BY <1>4 DEF vars, BoolsTyped
  <1> QED
    BY <1>1, <1>2, <1>3, <1>4 DEF Next, PlanStep, Build, Remove, BoolsTyped

LEMMA NextTyped == Typed /\ [Next]_vars => Typed'
  BY StoreNext, PlanNext, BoolsNext DEF Typed

\* TypeOK: the group, the items and the tasks of a plan stay what they are;
\* what is formatted or prepared is a volume.
THEOREM TypeCorrect == Spec => []TypeOK
  <1>1. Typed => TypeOK
    BY DEF Typed, StoreTyped, PlanTyped, BoolsTyped, TypeOK
  <1> QED
    BY <1>1, InitTyped, NextTyped, PTL DEF Spec

-----------------------------------------------------------------------------
\* Where a plan stands.  A plan for a new group makes every file system, a
\* plan for an applied one sets up only disks that it also adds, and the tasks
\* of a removal are alone.

AtRest == ~running => /\ founding = "no" /\ setups = {} /\ adds = {} /\ volumes = {}
                      /\ formats = {} /\ prepares = {} /\ teardown = "none"
Removing == teardown # "none" => /\ running /\ vg = "removal" /\ founding = "no"
                                 /\ setups = {} /\ adds = {} /\ volumes = {}
                                 /\ formats = {} /\ prepares = {}
Building == running /\ teardown = "none" => vg \in {"initial", "applied"}
Founding == founding = "due" => /\ running /\ vg = "initial"
                                /\ modelled \cap Fs \subseteq volumes
                                /\ modelled \cap Fs \subseteq formats
                                /\ modelled \cap Fs \subseteq prepares
Setting == /\ vg = "initial" /\ setups # {} => founding = "due"
           /\ vg = "applied" => setups \subseteq adds /\ adds \cap applied = {}
           /\ adds # {} => vg = "applied"
           /\ adds \subseteq modelled
NoneYet == vg = "initial" => applied \cap Fs = {}
Phase == AtRest /\ Removing /\ Building /\ Founding /\ Setting /\ NoneYet

LEMMA EndPlanPhase == PlanTyped /\ Phase /\ running /\ EndPlan => Phase'
  BY DEF PlanTyped, EndPlan, Founded, Open, Phase, AtRest, Removing, Building, Founding,
         Setting, NoneYet

\* The tasks of a plan that goes on only become fewer, and before a group is
\* created only its disks are set up.
Fewer == /\ running /\ UNCHANGED <<vg, modelled, applied, founders, running>>
         /\ setups' \subseteq setups /\ adds' \subseteq adds
         /\ volumes' \subseteq volumes /\ formats' \subseteq formats
         /\ prepares' \subseteq prepares
         /\ teardown' = "none" <=> teardown = "none"
         /\ \/ UNCHANGED <<founding, volumes, formats, prepares>>
            \/ founding = "no" /\ founding' = "no"
            \/ setups = {} /\ founding' = "no"
         /\ setups = {} \/ adds' = adds

LEMMA FewerPhase == PlanTyped /\ Phase /\ Fewer => Phase'
  BY DEF PlanTyped, Fewer, Phase, AtRest, Removing, Building, Founding, Setting, NoneYet

LEMMA PlanStepPhase == PlanTyped /\ (PlanStep \/ PlanBreaks) => Fewer \/ (running /\ EndPlan)
  <1> SUFFICES ASSUME PlanTyped, PlanStep \/ PlanBreaks, ~(running /\ EndPlan) PROVE Fewer
    OBVIOUS
  <1> USE DEF NotAnswered, model
  <1>1. ASSUME NEW d \in Disks, SetUpDisk(d) \/ AddDisk(d) \/ UnsetUpDisk(d) PROVE Fewer
    BY <1>1 DEF SetUpDisk, AddDisk, UnsetUpDisk, Fewer
  <1>2. ASSUME NEW f \in Fs, MakeVolume(f) \/ Format(f) \/ Prepare(f) \/ Resize(f) PROVE Fewer
    BY <1>2 DEF MakeVolume, Format, Prepare, Resize, FsTurn, Fewer
  <1>3. CASE CreateGroup
    BY <1>3 DEF CreateGroup, Fewer
  <1>4. CASE StopVolumes \/ DestroyGroup
    BY <1>4 DEF StopVolumes, DestroyGroup, TeardownGoes, Fewer
  <1>5. CASE Misplaced \/ Finish \/ PlanBreaks
    BY <1>5 DEF Misplaced, FsTurn, Finish, PlanBreaks
  <1> QED
    BY <1>1, <1>2, <1>3, <1>4, <1>5 DEF PlanStep, Build, Remove

LEMMA NextPhase == PlanTyped /\ Phase /\ [Next]_vars => Phase'
  <1> SUFFICES ASSUME PlanTyped, Phase, [Next]_vars PROVE Phase'
    OBVIOUS
  <1>1. CASE UNCHANGED <<model, running, todo>>
    BY <1>1 DEF model, todo, Phase, AtRest, Removing, Building, Founding, Setting, NoneYet
  <1>2. CASE PlanStep \/ PlanBreaks
    BY <1>2, PlanStepPhase, FewerPhase, EndPlanPhase
  <1>3. CASE MakePlan
    BY <1>3 DEF MakePlan, model, NewDisks, Work, PlanTyped, Phase, AtRest, Removing, Building,
       Founding, Setting, NoneYet
  <1>4. CASE MakeRemoval
    BY <1>4 DEF MakeRemoval, model, Phase, AtRest, Removing, Building, Founding, Setting, NoneYet
  <1>5. ASSUME NEW x \in Disks \cup Fs, AddItem(x) \/ Enlarge(x) PROVE Phase'
    BY <1>5 DEF AddItem, Enlarge, todo, Phase, AtRest, Removing, Building, Founding, Setting,
       NoneYet
  <1>6. CASE Withdraw
    BY <1>6 DEF Withdraw, todo, Phase, AtRest, Removing, Building, Founding, Setting, NoneYet
  <1> QED
    BY <1>1, <1>2, <1>3, <1>4, <1>5, <1>6 DEF Next, GroupMoves, ImportLands, Settle, vars

-----------------------------------------------------------------------------
\* The disks under volumes.  Disks to be set up or added carry none, since what
\* carries volumes after a plan is applied.  M stands for the members of the
\* group and c for the disks under volumes, before or after a task.

Kept(M, c) ==
    /\ M \subseteq modelled \cap Disks
    /\ vg \in {"initial", "applied"} => c \subseteq M
    /\ vg = "initial" /\ (~running \/ founding = "due") => c = {}
    /\ vg = "applied" => c \cap setups = {} /\ c \cap adds = {} /\ (~running => c \subseteq applied)

LEMMA EndPlanKept ==
  ASSUME PlanTyped, Phase, Kept(Members', carries'), running, EndPlan
  PROVE  Kept(Members, carries)'
  BY VxAssumption DEF PlanTyped, Phase, Removing, Building, Founding, Setting, Kept, EndPlan,
     Founded, Open

LEMMA FewerKept ==
  ASSUME Phase, Kept(Members', carries'), Fewer
  PROVE  Kept(Members, carries)'
  BY DEF Phase, Setting, Founding, Kept, Fewer

LEMMA TaskKept ==
  ASSUME StoreTyped, PlanTyped, Phase, Kept(Members, carries), PlanStep \/ PlanBreaks
  PROVE  Kept(Members', carries')
  <1> USE DEF StoreTyped, content
  <1>1. CASE UNCHANGED <<disk, carries>>
    BY <1>1 DEF Members, Kept
  <1>2. ASSUME NEW d \in Disks, SetUpDisk(d) PROVE Kept(Members', carries')
    <2>1. running /\ d \in setups /\ carries' = carries
      BY <1>2 DEF SetUpDisk, DiskSetUp
    <2>2. Members' = Members \/ Members' = Members \ {d}
      BY <1>2 DEF SetUpDisk, DiskSetUp, Members
    <2> QED
      BY <2>1, <2>2 DEF Kept, Phase, Removing, Setting, Founding, PlanTyped
  <1>3. ASSUME NEW d \in Disks, AddDisk(d) PROVE Kept(Members', carries')
    <2>1. running /\ d \in adds /\ carries' = carries
      BY <1>3 DEF AddDisk, DiskAdded
    <2>2. Members' = Members \/ Members' = Members \cup {d}
      BY <1>3 DEF AddDisk, DiskAdded, Members
    <2> QED
      BY <2>1, <2>2 DEF Kept, Phase, Setting
  <1>4. CASE CreateGroup
    <2>1. running /\ founding = "due"
      BY <1>4 DEF CreateGroup
    <2>2. vg = "initial" /\ carries = {}
      BY <2>1 DEF Phase, Founding, Kept
    <2>3. carries' = {}
      BY <1>4, <2>2 DEF CreateGroup, Initialised, AlreadyThere, NotYetThere
    <2>4. Members' \subseteq Members \cup (modelled \cap Disks)
      BY <1>4 DEF CreateGroup, Initialised, AlreadyThere, NotYetThere, Members
    <2> QED
      BY <2>2, <2>3, <2>4 DEF Kept
  <1>5. ASSUME NEW f \in Fs, MakeVolume(f) \/ Resize(f) PROVE Kept(Members', carries')
    <2>1. FsTurn /\ Members' = Members
      BY <1>5 DEF MakeVolume, Resize, VolumeMade, Resized, Members, FsTurn
    <2>2. carries' \subseteq carries \cup Members
      BY <1>5 DEF MakeVolume, Resize, VolumeMade, Resized
    <2> QED
      BY <2>1, <2>2 DEF Kept, FsTurn
  <1>6. CASE DestroyGroup
    <2>1. teardown = "destroy" /\ Members' \subseteq Members
      BY <1>6 DEF DestroyGroup, Members
    <2> QED
      BY <2>1 DEF Kept, Phase, Removing
  <1>7. ASSUME NEW d \in Disks, UnsetUpDisk(d) PROVE Kept(Members', carries')
    <2>1. teardown = "unsetup" /\ Members' \subseteq Members
      BY <1>7 DEF UnsetUpDisk, Members
    <2> QED
      BY <2>1 DEF Kept, Phase, Removing
  <1>8. ASSUME NEW f \in Fs, Format(f) \/ Prepare(f) PROVE UNCHANGED <<disk, carries>>
    BY <1>8 DEF Format, Prepare, Formatted, Prepared
  <1> QED
    BY <1>1, <1>2, <1>3, <1>4, <1>5, <1>6, <1>7, <1>8 DEF PlanStep, Build, Remove, Misplaced,
       Finish, PlanBreaks, StopVolumes, store

LEMMA NextKept ==
  ASSUME StoreTyped, PlanTyped, Phase, Kept(Members, carries), [Next]_vars
  PROVE  Kept(Members, carries)'
  <1>1. CASE PlanStep \/ PlanBreaks
    BY <1>1, TaskKept, PlanStepPhase, EndPlanKept, FewerKept
  <1>2. CASE MakePlan
    <2>1. UNCHANGED <<Members, carries>> /\ ~running
      BY <1>2 DEF MakePlan, content, Members
    <2> QED
      BY <1>2, <2>1 DEF MakePlan, model, NewDisks, Work, Kept
  <1>3. CASE MakeRemoval
    <2>1. UNCHANGED <<Members, carries>>
      BY <1>3 DEF MakeRemoval, store, content, Members
    <2> QED
      BY <1>3, <2>1 DEF MakeRemoval, model, Kept
  <1>4. ASSUME NEW x \in Disks \cup Fs, AddItem(x) \/ Enlarge(x) PROVE Kept(Members, carries)'
    <2>1. UNCHANGED <<Members, carries>>
      BY <1>4 DEF AddItem, Enlarge, store, content, Members
    <2> QED
      BY <1>4, <2>1 DEF AddItem, Enlarge, todo, Kept
  <1>5. CASE Withdraw \/ GroupMoves \/ ImportLands \/ Settle \/ UNCHANGED vars
    <2>1. UNCHANGED <<Members, carries, modelled, applied, running, founding, setups, adds>>
      BY <1>5 DEF Withdraw, GroupMoves, ImportLands, Settle, vars, store, content, model, todo,
         Members
    <2>2. vg' = vg \/ vg' = "removal"
      BY <1>5 DEF Withdraw, GroupMoves, ImportLands, Settle, vars, model
    <2> QED
      BY <2>1, <2>2 DEF Kept
  <1> QED
    BY <1>1, <1>2, <1>3, <1>4, <1>5 DEF Next

LEMMA InitPhase == Init => Phase /\ Kept(Members, carries)
  BY DEF Init, Phase, AtRest, Removing, Building, Founding, Setting, NoneYet, Kept, Members

\* DataDisksKept: the disks that volumes lie on stay in the group until it is
\* withdrawn, whatever fails and wherever the group is when a plan is repeated.
THEOREM DisksKept == Spec => []DataDisksKept
  <1>1. Init => Typed /\ Phase /\ Kept(Members, carries)
    BY InitTyped, InitPhase
  <1>2. /\ Typed /\ Phase /\ Kept(Members, carries) /\ [Next]_vars
        => (Typed /\ Phase /\ Kept(Members, carries))'
    BY NextTyped, NextPhase, NextKept DEF Typed
  <1>3. Kept(Members, carries) => DataDisksKept
    BY DEF Kept, DataDisksKept
  <1> QED
    BY <1>1, <1>2, <1>3, PTL DEF Spec

-----------------------------------------------------------------------------
\* The file systems.  m are the volumes with a file system, r those that are
\* prepared; what a plan has not made yet is still among its tasks.

Built(m, r) ==
    /\ running /\ teardown = "none" => /\ modelled \cap Fs \subseteq m \cup formats
                                       /\ modelled \cap Fs \subseteq r \cup prepares
    /\ vg = "applied" => applied \cap Fs \subseteq m \cap r

LEMMA EndPlanBuilt ==
  ASSUME PlanTyped, Phase, Built(made', ready'), running, EndPlan
  PROVE  Built(made, ready)'
  BY DEF PlanTyped, Phase, Removing, Built, EndPlan, Founded, Open

\* A task leaves the plan when it is done.
FilesDone == /\ formats \subseteq formats' \cup made'
             /\ prepares \subseteq prepares' \cup ready'

LEMMA FewerBuilt ==
  ASSUME Phase, Built(made', ready'), Fewer, FilesDone
  PROVE  Built(made, ready)'
  BY DEF Fewer, FilesDone, Built

LEMMA FileTasksDone ==
  ASSUME PlanStep \/ PlanBreaks, ~(running /\ EndPlan)
  PROVE  FilesDone
  <1> USE DEF NotAnswered
  <1>1. CASE UNCHANGED <<formats, prepares>>
    BY <1>1 DEF FilesDone
  <1>2. ASSUME NEW f \in Fs, Format(f) PROVE FilesDone
    BY <1>2 DEF Format, Formatted, FsTurn, FilesDone
  <1>3. ASSUME NEW f \in Fs, Prepare(f) PROVE FilesDone
    BY <1>3 DEF Prepare, Prepared, FsTurn, FilesDone
  <1>4. ASSUME NEW d \in Disks, SetUpDisk(d) \/ AddDisk(d) \/ UnsetUpDisk(d)
        PROVE  UNCHANGED <<formats, prepares>>
    BY <1>4 DEF SetUpDisk, AddDisk, UnsetUpDisk
  <1>5. ASSUME NEW f \in Fs, MakeVolume(f) \/ Resize(f) PROVE UNCHANGED <<formats, prepares>>
    BY <1>5 DEF MakeVolume, Resize, FsTurn
  <1>6. CASE CreateGroup \/ StopVolumes \/ DestroyGroup
    BY <1>1, <1>6 DEF CreateGroup, StopVolumes, DestroyGroup, TeardownGoes
  <1>7. CASE Misplaced \/ Finish \/ PlanBreaks
    BY <1>7 DEF Misplaced, FsTurn, Finish, PlanBreaks
  <1> QED
    BY <1>1, <1>2, <1>3, <1>4, <1>5, <1>6, <1>7 DEF PlanStep, Build, Remove

\* Only the creation and the destruction of the group take volumes away.
LEMMA VolumesStay ==
  ASSUME PlanStep \/ PlanBreaks, ~CreateGroup, ~DestroyGroup
  PROVE  vols \subseteq vols' /\ made \subseteq made' /\ ready \subseteq ready'
  <1> USE DEF content
  <1>1. ASSUME NEW d \in Disks, SetUpDisk(d) \/ AddDisk(d) \/ UnsetUpDisk(d)
        PROVE  UNCHANGED <<vols, made, ready>>
    BY <1>1 DEF SetUpDisk, DiskSetUp, AddDisk, DiskAdded, UnsetUpDisk
  <1>2. ASSUME NEW f \in Fs, MakeVolume(f) \/ Format(f) \/ Prepare(f) \/ Resize(f)
        PROVE  vols \subseteq vols' /\ made \subseteq made' /\ ready \subseteq ready'
    BY <1>2 DEF MakeVolume, Format, Prepare, Resize, VolumeMade, Formatted, Prepared, Resized
  <1>3. CASE Misplaced \/ Finish \/ PlanBreaks \/ StopVolumes
    BY <1>3 DEF Misplaced, Finish, PlanBreaks, StopVolumes, store
  <1> QED
    BY <1>1, <1>2, <1>3 DEF PlanStep, Build, Remove

LEMMA TaskBuilt ==
  ASSUME PlanTyped, Phase, Built(made, ready), PlanStep \/ PlanBreaks
  PROVE  Built(made', ready')
  <1>1. CASE CreateGroup
    BY <1>1 DEF CreateGroup, Phase, Founding, Built
  <1>2. CASE DestroyGroup
    BY <1>2 DEF DestroyGroup, Phase, Removing, Built
  <1>3. CASE ~CreateGroup /\ ~DestroyGroup
    BY <1>3, VolumesStay DEF Built
  <1> QED
    BY <1>1, <1>2, <1>3

LEMMA NextBuilt ==
  ASSUME PlanTyped, Phase, Built(made, ready), [Next]_vars
  PROVE  Built(made, ready)'
  <1>1. CASE PlanStep \/ PlanBreaks
    BY <1>1, TaskBuilt, PlanStepPhase, FileTasksDone, EndPlanBuilt, FewerBuilt
  <1>2. CASE MakePlan
    BY <1>2 DEF MakePlan, content, model, Work, Phase, NoneYet, Built
  <1>3. CASE MakeRemoval
    BY <1>3 DEF MakeRemoval, store, content, model, Built
  <1>4. ASSUME NEW x \in Disks \cup Fs, AddItem(x) \/ Enlarge(x) PROVE Built(made, ready)'
    BY <1>4 DEF AddItem, Enlarge, store, content, todo, Built
  <1>5. CASE Withdraw \/ GroupMoves \/ ImportLands \/ Settle \/ UNCHANGED vars
    <2>1. UNCHANGED <<made, ready, modelled, applied, running, todo>>
      BY <1>5 DEF Withdraw, GroupMoves, ImportLands, Settle, vars, store, content, model, todo
    <2>2. vg' = vg \/ vg' = "removal"
      BY <1>5 DEF Withdraw, GroupMoves, ImportLands, Settle, vars, model
    <2> QED
      BY <2>1, <2>2 DEF todo, Built
  <1> QED
    BY <1>1, <1>2, <1>3, <1>4, <1>5 DEF Next

LEMMA InitBuilt == Init => Built(made, ready)
  BY DEF Init, Built

\* The half of ItemsStand that is about file systems needs nothing of the names
\* of the disks: what is reported as deployed is made and prepared.
FilesStand == vg = "applied" => applied \cap Fs \subseteq made \cap ready

THEOREM FilesAlwaysStand == Spec => []FilesStand
  <1>1. Init => Typed /\ Phase /\ Built(made, ready)
    BY InitTyped, InitPhase, InitBuilt
  <1>2. /\ Typed /\ Phase /\ Built(made, ready) /\ [Next]_vars
        => (Typed /\ Phase /\ Built(made, ready))'
    BY NextTyped, NextPhase, NextBuilt DEF Typed
  <1>3. Built(made, ready) => FilesStand
    BY DEF Built, FilesStand
  <1> QED
    BY <1>1, <1>2, <1>3, PTL DEF Spec

-----------------------------------------------------------------------------
\* The disks.  M stands for the members of the group; what a plan has not added
\* yet is still among its tasks.

Joined(M) ==
    /\ vg = "applied" => applied \cap Disks \subseteq M \cup founders
    /\ running /\ vg = "applied" => modelled \cap Disks \subseteq M \cup founders \cup adds

LEMMA EndPlanJoined ==
  ASSUME PlanTyped, Phase, Joined(Members'), running, EndPlan
  PROVE  Joined(Members)'
  BY DEF PlanTyped, Phase, Removing, Joined, EndPlan, Founded, Open

LEMMA FewerJoined ==
  ASSUME Phase, Joined(Members'), Fewer, adds \subseteq adds' \cup Members'
  PROVE  Joined(Members)'
  BY DEF Fewer, Joined

LEMMA DisksDone ==
  ASSUME NamesApart, StoreTyped, PlanTyped, PlanStep \/ PlanBreaks, ~(running /\ EndPlan)
  PROVE  adds \subseteq adds' \cup Members'
  <1> USE DEF NotAnswered
  <1>1. ASSUME NEW d \in Disks, AddDisk(d) PROVE adds \subseteq adds' \cup Members'
    <2>1. d \in Members' /\ adds' = adds \ {d}
      BY <1>1 DEF AddDisk, DiskAdded, InGroup, NamesApart, Members, StoreTyped
    <2> QED
      BY <2>1
  <1>2. ASSUME NEW d \in Disks, SetUpDisk(d) \/ UnsetUpDisk(d) PROVE adds' = adds
    BY <1>2 DEF SetUpDisk, UnsetUpDisk
  <1>3. ASSUME NEW f \in Fs, MakeVolume(f) \/ Format(f) \/ Prepare(f) \/ Resize(f)
        PROVE  adds' = adds
    BY <1>3 DEF MakeVolume, Format, Prepare, Resize, FsTurn
  <1>4. CASE CreateGroup \/ StopVolumes \/ DestroyGroup
    BY <1>4 DEF CreateGroup, StopVolumes, DestroyGroup, TeardownGoes
  <1>5. CASE Misplaced \/ Finish \/ PlanBreaks
    BY <1>5 DEF Misplaced, FsTurn, Finish, PlanBreaks
  <1> QED
    BY <1>1, <1>2, <1>3, <1>4, <1>5 DEF PlanStep, Build, Remove

LEMMA TaskJoined ==
  ASSUME StoreTyped, PlanTyped, Phase, Joined(Members), PlanStep \/ PlanBreaks
  PROVE  Joined(Members')
  <1> USE DEF StoreTyped, content
  <1>1. ASSUME Members \subseteq Members' PROVE Joined(Members')
    BY <1>1 DEF Joined
  <1>2. CASE UNCHANGED disk
    <2>1. Members' = Members
      BY <1>2 DEF Members
    <2> QED
      BY <1>1, <2>1
  <1>3. ASSUME NEW d \in Disks, SetUpDisk(d) PROVE Joined(Members')
    <2>1. running /\ d \in setups
      BY <1>3 DEF SetUpDisk
    <2>2. Members \subseteq Members' \cup {d}
      BY <1>3 DEF SetUpDisk, DiskSetUp, Members
    <2> QED
      BY <2>1, <2>2 DEF Joined, Phase, Setting
  <1>4. ASSUME NEW d \in Disks, AddDisk(d) PROVE Joined(Members')
    <2>1. Members \subseteq Members'
      BY <1>4 DEF AddDisk, DiskAdded, Members
    <2> QED
      BY <1>1, <2>1
  <1>5. CASE CreateGroup
    BY <1>5 DEF CreateGroup, Phase, Founding, Joined
  <1>6. ASSUME NEW f \in Fs, MakeVolume(f) \/ Format(f) \/ Prepare(f) \/ Resize(f)
        PROVE  UNCHANGED disk
    BY <1>6 DEF MakeVolume, Format, Prepare, Resize, VolumeMade, Formatted, Prepared, Resized
  <1>7. ASSUME NEW d \in Disks, UnsetUpDisk(d) PROVE Joined(Members')
    BY <1>7 DEF UnsetUpDisk, Phase, Removing, Joined
  <1>8. CASE DestroyGroup
    BY <1>8 DEF DestroyGroup, Phase, Removing, Joined
  <1> QED
    BY <1>2, <1>3, <1>4, <1>5, <1>6, <1>7, <1>8 DEF PlanStep, Build, Remove, Misplaced,
       Finish, PlanBreaks, StopVolumes, store

LEMMA NextJoined ==
  ASSUME NamesApart, StoreTyped, PlanTyped, Phase, Joined(Members), [Next]_vars
  PROVE  Joined(Members)'
  <1>1. CASE PlanStep \/ PlanBreaks
    BY <1>1, TaskJoined, PlanStepPhase, DisksDone, EndPlanJoined, FewerJoined
  <1>2. CASE MakePlan
    <2>1. Members' = Members /\ ~running
      BY <1>2 DEF MakePlan, Members
    <2> QED
      BY <1>2, <2>1 DEF MakePlan, model, NewDisks, Work, Joined
  <1>3. CASE MakeRemoval
    <2>1. Members' = Members
      BY <1>3 DEF MakeRemoval, store, Members
    <2> QED
      BY <1>3, <2>1 DEF MakeRemoval, model, Joined
  <1>4. ASSUME NEW x \in Disks \cup Fs, AddItem(x) \/ Enlarge(x) PROVE Joined(Members)'
    <2>1. Members' = Members
      BY <1>4 DEF AddItem, Enlarge, store, Members
    <2> QED
      BY <1>4, <2>1 DEF AddItem, Enlarge, todo, Joined
  <1>5. CASE Withdraw \/ GroupMoves \/ ImportLands \/ Settle \/ UNCHANGED vars
    <2>1. UNCHANGED <<Members, modelled, applied, founders, running, todo>>
      BY <1>5 DEF Withdraw, GroupMoves, ImportLands, Settle, vars, store, model, todo, Members
    <2>2. vg' = vg \/ vg' = "removal"
      BY <1>5 DEF Withdraw, GroupMoves, ImportLands, Settle, vars, model
    <2> QED
      BY <2>1, <2>2 DEF todo, Joined
  <1> QED
    BY <1>1, <1>2, <1>3, <1>4, <1>5 DEF Next

LEMMA InitJoined == Init => Joined(Members)
  BY DEF Init, Joined

\* ItemsStand: a file system is not reported as deployed while a task of it is
\* missing, and a disk not while it is outside the group, when plans are
\* repeated and tasks that were done are done once more.
THEOREM ItemsAlwaysStand == ASSUME NamesApart PROVE Spec => []ItemsStand
  <1>1. Init => Typed /\ Phase /\ Built(made, ready) /\ Joined(Members)
    BY InitTyped, InitPhase, InitBuilt, InitJoined
  <1>2. /\ Typed /\ Phase /\ Built(made, ready) /\ Joined(Members) /\ [Next]_vars
        => (Typed /\ Phase /\ Built(made, ready) /\ Joined(Members))'
    BY NextTyped, NextPhase, NextBuilt, NextJoined DEF Typed
  <1>3. Built(made, ready) /\ Joined(Members) => ItemsStand
    BY DEF Built, Joined, ItemsStand
  <1> QED
    BY <1>1, <1>2, <1>3, PTL DEF Spec

-----------------------------------------------------------------------------
\* What a task needs when its turn comes.

\* A group that is applied has a disk that no plan sets up or adds again, so
\* that it does not vanish, and one that was just created is there.
Rooted(M) == /\ modelled \cap Disks # {}
             /\ vg = "applied" => applied \cap M # {}
             /\ running /\ vg = "initial" /\ founding = "no" => M # {}

\* Disks that the creation of the group or an addition waits for are set up.
SetUpFirst == \A d \in Disks : d \in adds \ setups \/ (founding = "due" /\ d \in modelled \ setups)
                               => disk[d] # "raw"

\* v are the volumes.  What is to be formatted, prepared or resized has a
\* volume, or is still to get it.
Provided(v) == /\ formats \cup prepares \subseteq modelled
               /\ (formats \cup prepares) \ volumes \subseteq v
               /\ resizes \subseteq larger
               /\ vg = "initial" => larger = {}
               /\ vg = "applied" => larger \subseteq v
               /\ ~running \/ teardown # "none" => resizes = {}

LEMMA EndPlanRooted ==
  ASSUME PlanTyped, Phase, Kept(Members', carries'), Rooted(Members'), running, EndPlan
  PROVE  Rooted(Members)'
  <1>1. CASE Founded
    <2>1. teardown = "none" /\ setups = {} /\ adds = {}
      BY <1>1 DEF Founded, Phase, Removing, Setting
    <2>2. modelled \cap Disks \subseteq applied'
      BY <2>1, VxAssumption DEF EndPlan, Open, PlanTyped
    <2>3. Members' # {} /\ Members' \subseteq modelled \cap Disks
      BY <1>1 DEF Founded, Rooted, Kept
    <2> QED
      BY <2>2, <2>3 DEF EndPlan, Rooted
  <1>2. CASE ~Founded /\ vg' = "applied"
    <2>1. vg = "applied"
      BY <1>2 DEF EndPlan
    <2>2. setups \cap applied = {} /\ adds \cap applied = {} /\ teardown = "none"
      BY <2>1 DEF Phase, Setting, Removing
    <2>3. applied \cap Disks \subseteq applied'
      BY <2>2, VxAssumption DEF EndPlan, Open, PlanTyped
    <2>4. applied \cap Members' # {} /\ Members' \subseteq Disks
      BY <2>1 DEF Rooted, Kept
    <2> QED
      BY <2>3, <2>4 DEF EndPlan, Rooted
  <1>3. CASE vg' # "applied"
    BY <1>3 DEF EndPlan, Rooted
  <1> QED
    BY <1>1, <1>2, <1>3

LEMMA TaskRooted ==
  ASSUME StoreTyped, PlanTyped, Phase, Rooted(Members), PlanStep \/ PlanBreaks
  PROVE  Rooted(Members') /\ (~EndPlan /\ founding # "no" /\ founding' = "no" => Members' # {})
  <1> USE DEF StoreTyped, content
  <1>1. ASSUME Members \subseteq Members', founding' = founding \/ EndPlan
        PROVE  Rooted(Members') /\ (~EndPlan /\ founding # "no" /\ founding' = "no" => Members' # {})
    BY <1>1 DEF Rooted
  <1>2. CASE UNCHANGED disk /\ (founding' = founding \/ EndPlan)
    <2>1. Members' = Members
      BY <1>2 DEF Members
    <2> QED
      BY <1>1, <1>2, <2>1
  <1>3. ASSUME NEW d \in Disks, SetUpDisk(d)
        PROVE  Rooted(Members') /\ (founding' = founding \/ EndPlan)
    <2>1. running /\ d \in setups /\ (founding' = founding \/ EndPlan)
      BY <1>3 DEF SetUpDisk, NotAnswered
    <2>2. Members \subseteq Members' \cup {d}
      BY <1>3 DEF SetUpDisk, DiskSetUp, Members
    <2> QED
      BY <2>1, <2>2 DEF Rooted, Phase, Setting
  <1>4. ASSUME NEW d \in Disks, AddDisk(d)
        PROVE  Members \subseteq Members' /\ (founding' = founding \/ EndPlan)
    BY <1>4 DEF AddDisk, DiskAdded, Members, NotAnswered
  <1>5. CASE CreateGroup
    <2>1. founding = "due" /\ vg = "initial"
      BY <1>5 DEF CreateGroup, Phase, Founding
    <2>2. CASE Initialised(modelled \cap Disks)
      <3>1. Members' = Members \cup (modelled \cap Disks)
        BY <2>2 DEF Initialised, Members
      <3> QED
        BY <2>1, <3>1 DEF Rooted
    <2>3. CASE AlreadyThere
      <3>1. Members' = Members /\ Members # {}
        BY <2>3 DEF AlreadyThere, Exists, Members
      <3> QED
        BY <2>1, <3>1 DEF Rooted
    <2>4. CASE EndPlan
      BY <2>1, <2>4 DEF Rooted
    <2> QED
      BY <1>5, <2>2, <2>3, <2>4 DEF CreateGroup
  <1>6. ASSUME NEW f \in Fs, MakeVolume(f) \/ Format(f) \/ Prepare(f) \/ Resize(f)
        PROVE  UNCHANGED disk /\ (founding' = founding \/ EndPlan)
    BY <1>6 DEF MakeVolume, Format, Prepare, Resize, VolumeMade, Formatted, Prepared, Resized,
       NotAnswered
  <1>7. ASSUME NEW d \in Disks, UnsetUpDisk(d) PROVE vg = "removal" /\ founding = "no"
    BY <1>7 DEF UnsetUpDisk, Phase, Removing
  <1>8. ASSUME DestroyGroup PROVE vg = "removal" /\ founding = "no"
    BY <1>8 DEF DestroyGroup, Phase, Removing
  <1>9. ASSUME vg = "removal", founding = "no"
        PROVE  Rooted(Members') /\ (~EndPlan /\ founding # "no" /\ founding' = "no" => Members' # {})
    BY <1>9 DEF Rooted
  <1>10. CASE Misplaced \/ Finish \/ PlanBreaks \/ StopVolumes
    <2>1. UNCHANGED disk /\ (founding' = founding \/ EndPlan)
      BY <1>10 DEF Misplaced, Finish, PlanBreaks, StopVolumes, TeardownGoes, NotAnswered, store
    <2> QED
      BY <1>2, <2>1
  <1> QED
    BY <1>1, <1>2, <1>3, <1>4, <1>5, <1>6, <1>7, <1>8, <1>9, <1>10 DEF PlanStep, Build, Remove

LEMMA NextRooted ==
  ASSUME StoreTyped, PlanTyped, Phase, Kept(Members, carries), Rooted(Members), [Next]_vars
  PROVE  Rooted(Members)'
  <1>1. CASE (PlanStep \/ PlanBreaks) /\ running /\ EndPlan
    BY <1>1, TaskRooted, TaskKept, EndPlanRooted
  <1>2. CASE (PlanStep \/ PlanBreaks) /\ Fewer /\ ~(running /\ EndPlan)
    <2>1. Rooted(Members') /\ (founding # "no" /\ founding' = "no" => Members' # {})
      BY <1>2, TaskRooted DEF Fewer
    <2> QED
      BY <1>2, <2>1 DEF Fewer, Rooted
  <1>3. CASE MakePlan
    <2>1. Members' = Members
      BY <1>3 DEF MakePlan, Members
    <2> QED
      BY <1>3, <2>1 DEF MakePlan, model, Rooted
  <1>4. CASE MakeRemoval
    <2>1. Members' = Members
      BY <1>4 DEF MakeRemoval, store, Members
    <2> QED
      BY <1>4, <2>1 DEF MakeRemoval, model, Rooted
  <1>5. ASSUME NEW x \in Disks \cup Fs, AddItem(x) \/ Enlarge(x) PROVE Rooted(Members)'
    <2>1. Members' = Members
      BY <1>5 DEF AddItem, Enlarge, store, Members
    <2> QED
      BY <1>5, <2>1 DEF AddItem, Enlarge, todo, Rooted
  <1>6. CASE Withdraw \/ GroupMoves \/ ImportLands \/ Settle \/ UNCHANGED vars
    <2>1. UNCHANGED <<Members, modelled, applied, running, todo>>
      BY <1>6 DEF Withdraw, GroupMoves, ImportLands, Settle, vars, store, model, todo, Members
    <2>2. vg' = vg \/ vg' = "removal"
      BY <1>6 DEF Withdraw, GroupMoves, ImportLands, Settle, vars, model
    <2> QED
      BY <2>1, <2>2 DEF todo, Rooted
  <1> QED
    BY <1>1, <1>2, <1>3, <1>4, <1>5, <1>6, PlanStepPhase DEF Next

LEMMA NextSetUpFirst ==
  ASSUME StoreTyped, PlanTyped, Phase, SetUpFirst, [Next]_vars
  PROVE  SetUpFirst'
  <1> USE DEF content
  <1>1. CASE UNCHANGED <<disk, modelled, founding, setups, adds>>
    BY <1>1 DEF SetUpFirst
  <1>2. CASE EndPlan
    BY <1>2 DEF EndPlan, SetUpFirst
  <1>3. CASE MakePlan
    <2>1. adds' \subseteq setups'
      BY <1>3 DEF MakePlan
    <2>2. founding' = "due" => setups' = modelled' \cap Disks
      BY <1>3 DEF MakePlan, NewDisks, model
    <2> QED
      BY <2>1, <2>2 DEF SetUpFirst
  <1>4. ASSUME NEW d \in Disks, SetUpDisk(d), ~EndPlan PROVE SetUpFirst'
    <2>1. /\ setups' = setups \ {d} /\ UNCHANGED <<modelled, founding, adds>>
          /\ disk' = [disk EXCEPT ![d] = "set"] \/ (disk' = disk /\ disk[d] = "member")
      BY <1>4 DEF SetUpDisk, DiskSetUp, NotAnswered, model
    <2> QED
      BY <2>1 DEF SetUpFirst, StoreTyped
  <1>5. ASSUME NEW d \in Disks, AddDisk(d), ~EndPlan PROVE SetUpFirst'
    <2>1. /\ adds' \subseteq adds /\ UNCHANGED <<modelled, founding, setups>>
          /\ disk' = disk \/ disk' = [disk EXCEPT ![d] = "member"]
      BY <1>5 DEF AddDisk, DiskAdded, NotAnswered, model
    <2> QED
      BY <2>1 DEF SetUpFirst, StoreTyped
  <1>6. CASE CreateGroup /\ ~EndPlan
    <2>1. founding' = "no" /\ adds' = adds /\ vg = "initial"
      BY <1>6 DEF CreateGroup, NotAnswered, Phase, Founding
    <2>2. adds = {}
      BY <2>1 DEF Phase, Setting
    <2> QED
      BY <2>1, <2>2 DEF SetUpFirst
  <1>7. ASSUME NEW f \in Fs, MakeVolume(f) \/ Format(f) \/ Prepare(f) \/ Resize(f), ~EndPlan
        PROVE  UNCHANGED <<disk, modelled, founding, setups, adds>>
    BY <1>7 DEF MakeVolume, Format, Prepare, Resize, VolumeMade, Formatted, Prepared, Resized,
       NotAnswered, model
  <1>8. ASSUME teardown # "none", UNCHANGED <<founding, adds>> PROVE SetUpFirst'
    BY <1>8 DEF SetUpFirst, Phase, Removing
  <1>9. ASSUME NEW d \in Disks, UnsetUpDisk(d), ~EndPlan
        PROVE  teardown # "none" /\ UNCHANGED <<founding, adds>>
    BY <1>9 DEF UnsetUpDisk, NotAnswered
  <1>10. ASSUME StopVolumes \/ DestroyGroup, ~EndPlan
         PROVE  teardown # "none" /\ UNCHANGED <<founding, adds>>
    BY <1>10 DEF StopVolumes, DestroyGroup, TeardownGoes, NotAnswered
  <1>11. ASSUME NEW x \in Disks \cup Fs, AddItem(x) \/ Enlarge(x) PROVE SetUpFirst'
    BY <1>11 DEF AddItem, Enlarge, store, todo, SetUpFirst, Phase, AtRest
  <1> QED
    BY <1>1, <1>2, <1>3, <1>4, <1>5, <1>6, <1>7, <1>8, <1>9, <1>10, <1>11 DEF Next, PlanStep,
       Build, Remove, Misplaced, Finish, PlanBreaks, NotAnswered, MakeRemoval, Withdraw,
       GroupMoves, ImportLands, Settle, vars, store, model, todo

LEMMA TaskProvided ==
  ASSUME PlanTyped, Phase, Provided(vols), PlanStep \/ PlanBreaks, ~EndPlan
  PROVE  Provided(vols)'
  <1> USE DEF NotAnswered, model, content
  <1>1. ASSUME vols \subseteq vols',
               UNCHANGED <<vg, modelled, volumes, larger, resizes, running>>,
               teardown' = "none" <=> teardown = "none",
               formats' \subseteq formats, prepares' \subseteq prepares
        PROVE  Provided(vols)'
    BY <1>1 DEF Provided
  <1>2. ASSUME NEW d \in Disks, SetUpDisk(d) \/ AddDisk(d) \/ UnsetUpDisk(d)
        PROVE  Provided(vols)'
    BY <1>1, <1>2 DEF SetUpDisk, DiskSetUp, AddDisk, DiskAdded, UnsetUpDisk
  <1>3. CASE CreateGroup
    <2>1. /\ founding = "due" /\ vg = "initial" /\ teardown = "none"
          /\ UNCHANGED <<vg, modelled, volumes, larger, formats, prepares, resizes, running, teardown>>
      BY <1>3 DEF CreateGroup, Phase, Founding, Removing
    <2>2. formats \cup prepares \subseteq modelled \cap Fs /\ modelled \cap Fs \subseteq volumes
      BY <2>1 DEF Phase, Founding, Provided, PlanTyped
    <2> QED
      BY <2>1, <2>2 DEF Provided
  <1>4. ASSUME NEW f \in Fs, MakeVolume(f) PROVE Provided(vols)'
    <2>1. /\ vols' = vols \cup {f} /\ volumes' = volumes \ {f}
          /\ UNCHANGED <<vg, modelled, larger, formats, prepares, resizes, running, teardown>>
      BY <1>4 DEF MakeVolume, VolumeMade, FsTurn
    <2> QED
      BY <2>1 DEF Provided
  <1>5. ASSUME NEW f \in Fs, Format(f) \/ Prepare(f) PROVE Provided(vols)'
    BY <1>1, <1>5 DEF Format, Prepare, Formatted, Prepared, FsTurn
  <1>6. ASSUME NEW f \in Fs, Resize(f) PROVE Provided(vols)'
    <2>1. /\ vols' = vols /\ resizes' = resizes \ {f} /\ larger' = larger \ {f}
          /\ UNCHANGED <<vg, modelled, volumes, formats, prepares, running, teardown>>
      BY <1>6 DEF Resize, Resized, FsTurn
    <2> QED
      BY <2>1 DEF Provided
  <1>7. CASE StopVolumes
    BY <1>1, <1>7 DEF StopVolumes, TeardownGoes
  <1>8. CASE DestroyGroup
    <2>1. /\ vg = "removal" /\ formats = {} /\ prepares = {} /\ teardown # "none" /\ teardown' # "none"
          /\ UNCHANGED <<vg, modelled, volumes, larger, formats, prepares, resizes, running>>
      BY <1>8 DEF DestroyGroup, TeardownGoes, Phase, Removing
    <2> QED
      BY <2>1 DEF Provided
  <1> QED
    BY <1>2, <1>3, <1>4, <1>5, <1>6, <1>7, <1>8 DEF PlanStep, Build, Remove, Misplaced, Finish,
       PlanBreaks

LEMMA NextProvided ==
  ASSUME StoreTyped, PlanTyped, Phase, Provided(vols), Built(made, ready), [Next]_vars
  PROVE  Provided(vols)'
  <1>1. CASE (PlanStep \/ PlanBreaks) /\ ~EndPlan
    BY <1>1, TaskProvided
  <1>2. CASE (PlanStep \/ PlanBreaks) /\ EndPlan
    <2>1. /\ formats' = {} /\ prepares' = {} /\ resizes' = {} /\ larger' = larger
          /\ vg' = "initial" => vg = "initial"
          /\ vg' = "applied" => vg = "applied" \/ larger = {}
      BY <1>2 DEF EndPlan, Founded, Provided
    <2>2. vg = "applied" => vols \subseteq vols'
      BY <1>2, VolumesStay DEF CreateGroup, DestroyGroup, Phase, Founding, Removing
    <2> QED
      BY <2>1, <2>2 DEF Provided
  <1>3. CASE MakePlan
    <2>1. UNCHANGED <<vols, vg, modelled, larger, teardown>> /\ ~running
      BY <1>3 DEF MakePlan, content, model
    <2>2. teardown' = "none" /\ running'
      BY <1>3, <2>1 DEF MakePlan, Phase, AtRest
    <2>3. /\ resizes' = larger /\ formats' = volumes' /\ prepares' = volumes'
          /\ volumes' \subseteq modelled
      BY <1>3 DEF MakePlan, Work
    <2> QED
      BY <2>1, <2>2, <2>3 DEF Provided
  <1>4. CASE MakeRemoval
    BY <1>4 DEF MakeRemoval, store, content, model, Provided
  <1>5. ASSUME NEW x \in Disks \cup Fs, AddItem(x) PROVE Provided(vols)'
    BY <1>5 DEF AddItem, store, content, todo, Provided
  <1>6. ASSUME NEW f \in Fs, Enlarge(f) PROVE Provided(vols)'
    <2>1. f \in vols /\ vg = "applied" /\ ~running
      BY <1>6 DEF Enlarge, Built, StoreTyped
    <2> QED
      BY <1>6, <2>1 DEF Enlarge, store, content, todo, Provided
  <1>7. CASE Withdraw \/ GroupMoves \/ ImportLands \/ Settle \/ UNCHANGED vars
    <2>1. UNCHANGED <<vols, modelled, larger, running, todo>>
      BY <1>7 DEF Withdraw, GroupMoves, ImportLands, Settle, vars, store, content, model, todo
    <2>2. vg' = vg \/ vg' = "removal"
      BY <1>7 DEF Withdraw, GroupMoves, ImportLands, Settle, vars, model
    <2> QED
      BY <2>1, <2>2 DEF todo, Provided
  <1> QED
    BY <1>1, <1>2, <1>3, <1>4, <1>5, <1>6, <1>7 DEF Next

LEMMA InitGrounded == Init => Rooted(Members) /\ SetUpFirst /\ Provided(vols)
  BY DEF Init, Rooted, SetUpFirst, Provided

\* The guards of the tasks, each with what its command needs to succeed.
DiskTurn == \/ setups # {}
            \/ \E d \in adds : InGroup(d) \/ disk[d] = "set"
GroupTurn == /\ founding = "due" /\ setups = {}
             /\ \/ \A d \in modelled \cap Disks : disk[d] = "set"
                \/ Exists /\ imp \in {First, NoNode}
                \/ imp # First /\ \E d \in modelled \cap Disks : disk[d] # "set"
FileTurn == FsTurn /\ \/ imp = fsNode /\ Exists /\ volumes # {}
                      \/ imp = fsNode /\ vols \cap (formats \ volumes) # {}
                      \/ imp = fsNode /\ vols \cap (prepares \ (volumes \cup formats)) # {}
                      \/ vols \cap resizes # {}
                      \/ imp # fsNode /\ volumes \cup formats \cup prepares # {}
RemovalTurn == \/ teardown \in {"stop", "destroy"}
               \/ teardown = "unsetup" /\ unsetups # {}
LastTurn == /\ Open = {} /\ resizes = {} /\ founding = "no"
            /\ teardown \in {"none", "unsetup"} /\ unsetups = {}
SomeTurn == DiskTurn \/ GroupTurn \/ FileTurn \/ RemovalTurn \/ LastTurn

LEMMA TurnComes ==
  ASSUME StoreTyped, PlanTyped, Phase, Rooted(Members), SetUpFirst, Provided(vols),
         ~running \/ teardown # "none" \/ unsetups = {}, running
  PROVE  SomeTurn
  <1>1. CASE setups # {}
    BY <1>1 DEF SomeTurn, DiskTurn
  <1>2. CASE setups = {} /\ founding = "due"
    <2>1. \A d \in modelled \cap Disks : disk[d] = "set" \/ d \in Members
      BY <1>2 DEF SetUpFirst, StoreTyped, Members
    <2>2. (\A d \in modelled \cap Disks : disk[d] = "set") \/ Exists
      BY <2>1 DEF Exists
    <2> QED
      BY <1>2, <2>2 DEF SomeTurn, GroupTurn
  <1>3. CASE setups = {} /\ adds # {}
    <2>1. PICK d \in adds : TRUE
      BY <1>3
    <2>2. d \in Disks /\ (disk[d] = "set" \/ d \in Members)
      BY <1>3, <2>1 DEF SetUpFirst, StoreTyped, PlanTyped, Members
    <2>3. d \in Members => InGroup(d)
      BY <2>2, VxAssumption DEF InGroup
    <2> QED
      BY <2>1, <2>2, <2>3 DEF SomeTurn, DiskTurn
  <1>4. CASE setups = {} /\ founding # "due" /\ adds = {} /\ teardown = "none"
    <2>1. FsTurn /\ vg \in {"initial", "applied"} /\ unsetups = {}
      BY <1>4 DEF FsTurn, PlanTyped, Phase, Building
    <2>2. Exists /\ resizes \subseteq vols
      BY <1>4, <2>1 DEF Rooted, Exists, Provided, FsTurn
    <2>3. CASE volumes \cup formats \cup prepares = {}
      BY <1>4, <2>1, <2>2, <2>3 DEF SomeTurn, FileTurn, LastTurn, Open, FsTurn
    <2>4. CASE volumes \cup formats \cup prepares # {}
      <3>1. volumes = {} => formats \cup prepares \subseteq vols
        BY DEF Provided
      <3> QED
        BY <2>1, <2>2, <2>4, <3>1 DEF SomeTurn, FileTurn
    <2> QED
      BY <2>3, <2>4
  <1>5. CASE teardown # "none"
    <2>1. Open = {} /\ founding = "no" /\ resizes = {}
      BY <1>5 DEF Phase, Removing, Open, Provided
    <2> QED
      BY <1>5, <2>1 DEF PlanTyped, SomeTurn, RemovalTurn, LastTurn
  <1> QED
    BY <1>1, <1>2, <1>3, <1>4, <1>5

\* Only a removal gives disks back.
GivesBack == unsetups # {} => teardown # "none"

LEMMA NextGivesBack == GivesBack /\ [Next]_vars => GivesBack'
  <1> SUFFICES ASSUME GivesBack, [Next]_vars PROVE GivesBack'
    OBVIOUS
  <1> USE DEF GivesBack
  <1>1. CASE UNCHANGED <<teardown, unsetups>>
    BY <1>1
  <1>2. CASE EndPlan
    BY <1>2 DEF EndPlan
  <1>3. CASE MakeRemoval
    BY <1>3 DEF MakeRemoval
  <1>4. ASSUME NEW d \in Disks, UnsetUpDisk(d) PROVE GivesBack'
    BY <1>2, <1>4 DEF UnsetUpDisk, NotAnswered
  <1>5. CASE StopVolumes \/ DestroyGroup
    BY <1>2, <1>5 DEF StopVolumes, DestroyGroup, TeardownGoes, NotAnswered
  <1>6. ASSUME NEW d \in Disks, SetUpDisk(d) \/ AddDisk(d) PROVE GivesBack'
    BY <1>1, <1>2, <1>6 DEF SetUpDisk, AddDisk, NotAnswered
  <1>7. ASSUME NEW f \in Fs, MakeVolume(f) \/ Format(f) \/ Prepare(f) \/ Resize(f)
        PROVE  GivesBack'
    BY <1>1, <1>2, <1>7 DEF MakeVolume, Format, Prepare, Resize, NotAnswered
  <1>8. CASE CreateGroup
    BY <1>1, <1>2, <1>8 DEF CreateGroup, NotAnswered
  <1>9. ASSUME NEW x \in Disks \cup Fs, AddItem(x) \/ Enlarge(x)
        PROVE  UNCHANGED <<teardown, unsetups>>
    BY <1>9 DEF AddItem, Enlarge, todo
  <1> QED
    BY <1>1, <1>2, <1>3, <1>4, <1>5, <1>6, <1>7, <1>8, <1>9 DEF Next, PlanStep, Build, Remove,
       Misplaced, Finish, PlanBreaks, NotAnswered, MakePlan, Withdraw, GroupMoves, ImportLands,
       Settle, vars, todo

Grounded == Rooted(Members) /\ SetUpFirst /\ Provided(vols) /\ GivesBack

\* While a plan runs the turn of some task comes that can succeed, or that
\* finds the group away and ends the plan: the group that a plan extends has
\* not vanished, and no file system waits for a volume that nothing makes,
\* whatever plans have failed before and wherever the group has been.
THEOREM NoTaskWaitsInVain == Spec => [](running => SomeTurn)
  <1> DEFINE Inv == /\ Typed /\ Phase /\ Kept(Members, carries) /\ Built(made, ready)
                    /\ Grounded
  <1>1. Init => Inv
    BY InitTyped, InitPhase, InitBuilt, InitGrounded DEF Init, Grounded, GivesBack
  <1>2. Inv /\ [Next]_vars => Inv'
    <2> SUFFICES ASSUME Inv, [Next]_vars PROVE Inv'
      OBVIOUS
    <2>1. Typed' /\ Phase' /\ Kept(Members, carries)' /\ Built(made, ready)'
      BY NextTyped, NextPhase, NextKept, NextBuilt DEF Typed
    <2>2. Grounded'
      BY NextRooted, NextSetUpFirst, NextProvided, NextGivesBack DEF Typed, Grounded
    <2> QED
      BY <2>1, <2>2
  <1>3. Inv => (running => SomeTurn)
    BY TurnComes DEF Typed, Grounded, GivesBack
  <1> QED
    BY <1>1, <1>2, <1>3, PTL DEF Spec

-----------------------------------------------------------------------------
\* Plans are finite.

Remains == /\ founding' = founding \/ founding' = "no"
           /\ setups' \subseteq setups /\ adds' \subseteq adds
           /\ volumes' \subseteq volumes /\ formats' \subseteq formats
           /\ prepares' \subseteq prepares /\ resizes' \subseteq resizes
           /\ unsetups' \subseteq unsetups
           /\ \/ teardown' = teardown
              \/ <<teardown, teardown'>> \in {<<"stop", "destroy">>, <<"destroy", "unsetup">>}

LEMMA TaskRemains ==
  ASSUME PlanTyped, PlanStep \/ PlanBreaks, ~EndPlan
  PROVE  Remains /\ todo' # todo
  <1> USE DEF NotAnswered, todo, Remains
  <1>1. ASSUME NEW d \in Disks, SetUpDisk(d) \/ AddDisk(d) \/ UnsetUpDisk(d)
        PROVE  Remains /\ todo' # todo
    BY <1>1 DEF SetUpDisk, AddDisk, UnsetUpDisk
  <1>2. ASSUME NEW f \in Fs, MakeVolume(f) \/ Format(f) \/ Prepare(f) \/ Resize(f)
        PROVE  Remains /\ todo' # todo
    BY <1>2 DEF MakeVolume, Format, Prepare, Resize
  <1>3. CASE CreateGroup
    BY <1>3 DEF CreateGroup
  <1>4. CASE StopVolumes \/ DestroyGroup
    BY <1>4 DEF StopVolumes, DestroyGroup, TeardownGoes
  <1> QED
    BY <1>1, <1>2, <1>3, <1>4 DEF PlanStep, Build, Remove, Misplaced, Finish, PlanBreaks

\* Every step of a plan ends it or takes something from its tasks, and nothing
\* that happens around it gives it more: a plan takes at most one step for each
\* of its tasks, and one to finish, however often the group moves.
PlanRunsDown == running /\ running' =>
                  IF PlanStep \/ PlanBreaks THEN Remains /\ todo' # todo ELSE todo' = todo

THEOREM PlansRunDown == Spec => [][PlanRunsDown]_vars
  <1>1. PlanTyped /\ [Next]_vars => [PlanRunsDown]_vars
    <2> SUFFICES ASSUME PlanTyped, Next, running, running' PROVE PlanRunsDown
      BY DEF PlanRunsDown
    <2>1. CASE PlanStep \/ PlanBreaks
      <3>1. ~EndPlan
        BY DEF EndPlan
      <3> QED
        BY <2>1, <3>1, TaskRemains DEF PlanRunsDown
    <2>2. CASE ~(PlanStep \/ PlanBreaks)
      <3>1. ASSUME NEW x \in Disks \cup Fs, AddItem(x) \/ Enlarge(x) PROVE FALSE
        BY <3>1 DEF AddItem, Enlarge
      <3>2. GroupMoves \/ ImportLands \/ Settle
        BY <2>2, <3>1 DEF Next, MakePlan, MakeRemoval, Withdraw
      <3>3. todo' = todo
        BY <3>2 DEF GroupMoves, ImportLands, Settle
      <3> QED
        BY <2>2, <3>3 DEF PlanRunsDown
    <2> QED
      BY <2>1, <2>2
  <1>2. Typed /\ [Next]_vars => Typed'
    BY NextTyped
  <1>3. Typed => PlanTyped
    BY DEF Typed
  <1> QED
    BY <1>1, <1>2, <1>3, InitTyped, PTL DEF Spec
=============================================================================
