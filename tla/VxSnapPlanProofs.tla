-------------------------- MODULE VxSnapPlanProofs --------------------------
(***************************************************************************)
(* Proofs about VxSnapPlan for every cluster, every number of disk groups  *)
(* and file systems, and every order of them.                              *)
(***************************************************************************)
EXTENDS VxSnapPlan, TLAPS

(***************************************************************************)
(* The plan stays in its list of tasks.                                    *)
(***************************************************************************)
InPlan == /\ at \in 1 .. LastTask + 1
          /\ ended = "no" => at <= LastTask
          /\ ended = "done" => at = LastTask + 1
          /\ step = "sync" => Task = "sync"

Settled(f) == said[f] = "done" \/ (Action = "remove" /\ said[f] = "absent")

\* The tasks before the one that runs have settled their file systems.
Accounted == ~forced => \A k \in 1 .. Len(Scan) :
                k + Len(Checks) < at => Settled(Scan[k])

Found == Inactive(Target) \/ Target \in probed \/ CutShort(Target)

\* What the scans of a file system's own task have found so far.
Looked == Task = "snapshot" /\ at <= LastTask =>
            /\ step = "present" =>
                 \A k \in 1 .. Len(Scan) : k < i /\ Scan[k] = Target => Found
            /\ step \in {"valid", "judge"} => Found

IInv == TypeOK /\ InPlan /\ Accounted /\ Looked

(***************************************************************************)
(* The list of tasks.                                                      *)
(***************************************************************************)
LEMMA ChecksType == Len(Checks) \in Nat /\ Len(Checks) >= 1 /\ Len(Scan) \in Nat
<1>1. CASE Action = "remove" /\ forced
  BY <1>1, PlanAssumption DEF Checks
<1>2. CASE Action = "remove" /\ ~forced
  BY <1>2, PlanAssumption DEF Checks
<1>3. CASE Action = "restore" /\ forced
  BY <1>3, PlanAssumption DEF Checks
<1>4. CASE Action = "restore" /\ ~forced
  BY <1>4, PlanAssumption DEF Checks
<1>. QED
  BY <1>1, <1>2, <1>3, <1>4, PlanAssumption

LEMMA ChecksTypeNext == Len(Checks') \in Nat /\ Len(Checks') >= 1
<1>1. CASE Action = "remove" /\ forced'
  BY <1>1, PlanAssumption DEF Checks
<1>2. CASE Action = "remove" /\ ~forced'
  BY <1>2, PlanAssumption DEF Checks
<1>3. CASE Action = "restore" /\ forced'
  BY <1>3, PlanAssumption DEF Checks
<1>4. CASE Action = "restore" /\ ~forced'
  BY <1>4, PlanAssumption DEF Checks
<1>. QED
  BY <1>1, <1>2, <1>3, <1>4, PlanAssumption

LEMMA TaskKinds ==
  ASSUME at \in Nat \ {0}
  PROVE  /\ at <= Len(Checks) => Task \in {"active", "presence", "validity", "sync"}
         /\ at > Len(Checks) => Task = "snapshot"
<1>1. CASE Action = "remove" /\ forced
  BY <1>1, PlanAssumption DEF Checks, Task
<1>2. CASE Action = "remove" /\ ~forced
  BY <1>2, PlanAssumption DEF Checks, Task
<1>3. CASE Action = "restore" /\ forced
  BY <1>3, PlanAssumption DEF Checks, Task
<1>4. CASE Action = "restore" /\ ~forced
  BY <1>4, PlanAssumption DEF Checks, Task
<1>. QED
  BY <1>1, <1>2, <1>3, <1>4, PlanAssumption

\* The target of a file system's task.
LEMMA TargetType ==
  ASSUME at \in Nat \ {0}, at <= LastTask, Task = "snapshot"
  PROVE  /\ at - Len(Checks) \in 1 .. Len(Scan)
         /\ Target = Scan[at - Len(Checks)]
         /\ Target \in FSs /\ VgOf[Target] \in VGs
<1>1. at > Len(Checks)
  BY TaskKinds, ChecksType
<1>2. at - Len(Checks) \in 1 .. Len(Scan)
  BY <1>1, ChecksType DEF LastTask
<1>. QED
  BY <1>2, PlanAssumption DEF Target

LEMMA SameTask ==
  ASSUME UNCHANGED <<at, forced>>
  PROVE  /\ Task' = Task /\ Target' = Target
         /\ Checks' = Checks /\ LastTask' = LastTask
  BY DEF Task, Target, Checks, LastTask

LEMMA InitIInv == Init => IInv
<1>. SUFFICES ASSUME Init PROVE IInv
  OBVIOUS
<1>1. TypeOK
  BY ChecksType DEF Init, TypeOK, Steps
<1>2. InPlan
  BY ChecksType DEF Init, InPlan, LastTask
<1>3. Accounted
  BY ChecksType DEF Init, Accounted
<1>4. Looked
  BY DEF Init, Looked
<1>. QED
  BY <1>1, <1>2, <1>3, <1>4 DEF IInv

(***************************************************************************)
(* The parts of the invariant that a step of a task can disturb.           *)
(***************************************************************************)
\* A step within a task leaves what the plan has reported.
LEMMA StaysInTask ==
  ASSUME IInv, UNCHANGED <<at, forced, said>>, ended' \in {ended, "failed"},
         step' = "sync" => Task = "sync"
  PROVE  InPlan' /\ Accounted'
<1>1. Task' = Task /\ Checks' = Checks /\ LastTask' = LastTask
  BY SameTask
<1>2. InPlan'
  BY <1>1 DEF IInv, InPlan
<1>3. Accounted'
  BY <1>1 DEF IInv, Accounted, Settled
<1>. QED
  BY <1>2, <1>3

LEMMA FailKeeps ==
  ASSUME IInv, Fail, UNCHANGED data
  PROVE  InPlan' /\ Accounted' /\ Looked'
<1>1. InPlan' /\ Accounted'
  BY StaysInTask DEF Fail, IInv, InPlan
<1>2. Looked'
  BY SameTask DEF Fail, data, IInv, Looked, Found, CutShort, Inactive
<1>. QED
  BY <1>1, <1>2

LEMMA NextTaskKeeps ==
  ASSUME IInv, NextTask, ended = "no",
         ~forced /\ Task = "snapshot" => said'[Target] = "done"
                                         \/ (Action = "remove" /\ said'[Target] = "absent"),
         \A f \in FSs : said'[f] # said[f] => Task = "snapshot" /\ f = Target
  PROVE  InPlan' /\ Accounted' /\ Looked'
<1>1. at' = at + 1 /\ at <= LastTask /\ at \in Nat \ {0}
  BY DEF IInv, TypeOK, InPlan, NextTask
<1>0. forced' = forced /\ Checks' = Checks /\ LastTask' = LastTask
  BY DEF NextTask, Checks, LastTask
<1>2. InPlan'
  BY <1>0, <1>1, ChecksType DEF NextTask, InPlan, LastTask
<1>3. Accounted'
  <2>. SUFFICES ASSUME ~forced, NEW k \in 1 .. Len(Scan), k + Len(Checks) < at'
                PROVE  Settled(Scan[k])'
    BY <1>0 DEF Accounted
  <2>0. Scan[k] \in FSs
    BY PlanAssumption, ChecksType
  <2>1. CASE k + Len(Checks) = at
    <3>1. Task = "snapshot" /\ Target = Scan[k]
      BY <1>1, <2>1, ChecksType, TaskKinds DEF Target
    <3>. QED
      BY <3>1 DEF Settled
  <2>2. CASE k + Len(Checks) < at
    <3>1. Settled(Scan[k])
      BY <2>2 DEF IInv, Accounted
    <3>2. Task = "snapshot" => Target # Scan[k]
      <4>. SUFFICES ASSUME Task = "snapshot" PROVE Target # Scan[k]
        OBVIOUS
      <4>1. /\ at - Len(Checks) \in 1 .. Len(Scan)
            /\ Target = Scan[at - Len(Checks)]
        BY <1>1, TargetType
      <4>2. at - Len(Checks) # k
        BY <2>2, <1>1, ChecksType
      <4>. QED
        BY <4>1, <4>2, PlanAssumption
    <3>. QED
      BY <2>0, <3>1, <3>2 DEF Settled
  <2>3. k + Len(Checks) = at \/ k + Len(Checks) < at
    BY <1>1, ChecksType
  <2>. QED
    BY <2>1, <2>2, <2>3
<1>4. Looked'
  BY DEF NextTask, Looked
<1>. QED
  BY <1>2, <1>3, <1>4

(***************************************************************************)
(* The calls of a task.                                                    *)
(***************************************************************************)
LEMMA QueryKeeps ==
  ASSUME IInv, ended = "no", Query
  PROVE  IInv'
<1>0. calm' \in BOOLEAN /\ ended' \in {"no", "done", "failed"}
  BY DEF IInv, TypeOK, Query, Goto
<1>1. TypeOK'
  BY <1>0, PlanAssumption, ChecksType
     DEF IInv, TypeOK, Query, Goto, AfterQuery, Steps, world
<1>2. UNCHANGED <<at, forced, said, ended, snap>> /\ step' \in {"import", AfterQuery} /\ i' = 1
  BY DEF Query, Goto, world
<1>3. AfterQuery = IF Task = "active" THEN "judge" ELSE "present"
  BY DEF AfterQuery
<1>4. InPlan' /\ Accounted'
  BY <1>2, <1>3, StaysInTask
<1>5. Looked'
  <2>1. Task' = Task
    BY <1>2, SameTask
  <2>. QED
    BY <1>2, <1>3, <2>1, ChecksType DEF Looked
<1>. QED
  BY <1>1, <1>4, <1>5 DEF IInv

LEMMA ImportKeeps ==
  ASSUME IInv, ended = "no", Import
  PROVE  IInv'
<1>1. TypeOK'
  BY PlanAssumption, ChecksType DEF IInv, TypeOK, Import, Goto, Fail, Steps, data
<1>2. UNCHANGED <<at, forced, said, snap>> /\ UNCHANGED data
  BY DEF Import, Goto, Fail
<1>3. InPlan' /\ Accounted' /\ Looked'
  <2>1. CASE Goto("requery")
    <3>1. InPlan' /\ Accounted'
      BY <2>1, StaysInTask DEF Goto
    <3>2. Looked'
      BY <2>1, SameTask DEF Goto, Looked
    <3>. QED
      BY <3>1, <3>2
  <2>2. CASE Fail
    BY <1>2, <2>2, FailKeeps
  <2>. QED
    BY <2>1, <2>2 DEF Import
<1>. QED
  BY <1>1, <1>3 DEF IInv

(***************************************************************************)
(* The scans.                                                              *)
(***************************************************************************)
LEMMA ScanMoves ==
  ASSUME IInv, i <= Len(Scan), Skip \/ NextInGroup \/ NextGroup
  PROVE  /\ i' \in i + 1 .. Len(Scan) + 1
         /\ i' \in 1 .. Len(Scan) + 1
         /\ UNCHANGED <<at, forced, step, said, ended, calm>>
<1>1. i \in 1 .. Len(Scan) + 1
  BY DEF IInv, TypeOK
<1>. QED
  BY <1>1, ChecksType DEF Skip, NextInGroup, NextGroup

LEMMA PresentScanKeeps ==
  ASSUME IInv, ended = "no", PresentScan
  PROVE  IInv'
<1>. DEFINE f == Scan[i]
<1>1. i \in 1 .. Len(Scan) /\ f \in FSs
  BY PlanAssumption, ChecksType DEF IInv, TypeOK, PresentScan
<1>2. Skip \/ NextInGroup \/ NextGroup
  BY DEF PresentScan
<1>3. /\ i' \in i + 1 .. Len(Scan) + 1 /\ i' \in 1 .. Len(Scan) + 1
      /\ UNCHANGED <<at, forced, step, said, ended, calm>>
  BY <1>1, <1>2, ScanMoves
<1>4. /\ UNCHANGED <<up, home, snap, busy, heard, active, valid, syncing>>
      /\ present' \in {present, present \cup {f}}
      /\ probed' \in {probed, probed \cup {f}}
  BY DEF PresentScan, world, data
<1>5. TypeOK'
  BY <1>1, <1>3, <1>4 DEF IInv, TypeOK
<1>6. InPlan' /\ Accounted'
  BY <1>3, StaysInTask DEF IInv, InPlan
<1>7. Looked'
  <2>1. Task' = Task /\ Target' = Target /\ LastTask' = LastTask
    BY <1>3, SameTask
  <2>2. step = "present" /\ step' = "present"
    BY <1>3 DEF PresentScan
  <2>. SUFFICES ASSUME Task = "snapshot",
                       NEW k \in 1 .. Len(Scan), k < i', Scan[k] = Target,
                       at <= LastTask
                PROVE  Found'
    BY <1>3, <2>1, <2>2 DEF Looked
  <2>3. Found => Found'
    BY <1>3, <1>4, <2>1 DEF Found, CutShort, Inactive
  <2>4. CASE k < i
    BY <2>2, <2>3, <2>4 DEF IInv, Looked
  <2>5. CASE k = i
    <3>1. f = Target
      BY <2>5
    <3>. QED
      BY <1>4, <2>1, <3>1 DEF PresentScan, Found, Inactive
  <2>6. CASE k > i
    <3>1. ~NextInGroup
      BY <1>1, <2>6 DEF NextInGroup
    <3>2. CASE Inactive(f) /\ forced
      <4>1. CutShort(Target)
        BY <1>1, <2>6, <3>2 DEF CutShort
      <4>. QED
        BY <2>3, <4>1 DEF Found
    <3>3. CASE ~Inactive(f) \/ ~forced
      <4>1. NextGroup
        BY <3>1, <3>3 DEF PresentScan, Skip
      <4>2. k \in i .. Len(Scan)
        BY <1>1, <2>6, ChecksType
      <4>3. VgOf[Target] = VgOf[f]
        BY <4>1, <4>2 DEF NextGroup
      <4>4. CASE Inactive(f)
        BY <2>3, <4>3, <4>4 DEF Found, Inactive
      <4>5. CASE ~Inactive(f)
        <5>1. probed' = probed \cup {f} /\ f = Target
          BY <3>1, <4>5 DEF PresentScan
        <5>. QED
          BY <2>1, <5>1 DEF Found
      <4>. QED
        BY <4>4, <4>5
    <3>. QED
      BY <3>2, <3>3
  <2>7. k < i \/ k = i \/ k > i
    BY <1>1
  <2>. QED
    BY <2>4, <2>5, <2>6, <2>7
<1>. QED
  BY <1>5, <1>6, <1>7 DEF IInv

\* The scans that come after leave what the first one has found.
LEMMA LaterScanKeeps ==
  ASSUME IInv, ended = "no", ValidScan \/ SyncScan
  PROVE  IInv'
<1>1. i \in 1 .. Len(Scan) /\ Scan[i] \in FSs
  BY PlanAssumption, ChecksType DEF IInv, TypeOK, ValidScan, SyncScan
<1>2. Skip \/ NextInGroup \/ NextGroup
  BY DEF ValidScan, SyncScan
<1>3. i' \in 1 .. Len(Scan) + 1 /\ UNCHANGED <<at, forced, step, said, ended, calm>>
  BY <1>1, <1>2, ScanMoves
<1>4. /\ UNCHANGED <<up, home, snap, busy, heard, active, present, probed>>
      /\ valid' \subseteq FSs /\ syncing' \subseteq FSs
  BY <1>1 DEF IInv, TypeOK, ValidScan, SyncScan, world, data
<1>5. TypeOK'
  BY <1>3, <1>4 DEF IInv, TypeOK
<1>6. InPlan' /\ Accounted'
  BY <1>3, StaysInTask DEF IInv, InPlan
<1>7. Looked'
  <2>1. Task' = Task /\ Target' = Target /\ LastTask' = LastTask
    BY <1>3, SameTask
  <2>2. step' # "present"
    BY <1>3 DEF ValidScan, SyncScan
  <2>. QED
    BY <1>3, <1>4, <2>1, <2>2 DEF IInv, Looked, Found, CutShort, Inactive
<1>. QED
  BY <1>5, <1>6, <1>7 DEF IInv

LEMMA EndScanKeeps ==
  ASSUME IInv, ended = "no", EndScan
  PROVE  IInv'
<1>1. /\ UNCHANGED <<at, forced, said, ended>> /\ UNCHANGED world /\ UNCHANGED data /\ i' = 1
      /\ step' = IF step = "present" THEN AfterPresent ELSE "judge"
      /\ step \in {"present", "valid", "sync"} /\ i = Len(Scan) + 1
  BY DEF EndScan, Goto
<1>2. /\ AfterPresent \in {"judge", "sync", "valid"}
      /\ AfterPresent = "sync" => Task = "sync"
  BY DEF AfterPresent
<1>0. calm' \in BOOLEAN
  BY DEF IInv, TypeOK, EndScan, Goto
<1>3. TypeOK'
  BY <1>0, <1>1, <1>2, ChecksType DEF IInv, TypeOK, world, data, Steps
<1>4. InPlan' /\ Accounted'
  BY <1>1, <1>2, StaysInTask
<1>5. Looked'
  <2>1. Task' = Task /\ Target' = Target /\ LastTask' = LastTask
    BY <1>1, SameTask
  <2>2. Found => Found'
    BY <1>1, <2>1 DEF Found, CutShort, Inactive, data
  <2>3. step' # "present"
    BY <1>1, <1>2
  <2>. SUFFICES ASSUME Task = "snapshot", at <= LastTask
                PROVE  Found
    BY <1>1, <2>1, <2>2, <2>3 DEF Looked
  <2>4. CASE step = "present"
    <3>1. at - Len(Checks) \in 1 .. Len(Scan) /\ Target = Scan[at - Len(Checks)]
      BY TargetType DEF IInv, TypeOK
    <3>2. at - Len(Checks) < i
      BY <1>1, <3>1, ChecksType
    <3>. QED
      BY <2>4, <3>1, <3>2 DEF IInv, Looked
  <2>5. CASE step = "valid"
    BY <2>5 DEF IInv, Looked
  <2>6. CASE step = "sync"
    BY <2>6 DEF IInv, InPlan
  <2>. QED
    BY <1>1, <2>4, <2>5, <2>6
<1>. QED
  BY <1>3, <1>4, <1>5 DEF IInv

(***************************************************************************)
(* The end of a task, and what happens around the plan.                    *)
(***************************************************************************)
\* A task that ends, with a report about its file system or without one.
LEMMA TaskEndKeeps ==
  ASSUME IInv, ended = "no", NextTask, UNCHANGED <<up, home>>,
         busy' \subseteq FSs, snap' \in [FSs -> {"absent", "valid", "invalid"}],
         said' \in [FSs -> {"nothing", "done", "absent", "inactive"}],
         ~forced /\ Task = "snapshot" => said'[Target] = "done"
                                         \/ (Action = "remove" /\ said'[Target] = "absent"),
         \A f \in FSs : said'[f] # said[f] => Task = "snapshot" /\ f = Target
  PROVE  IInv'
<1>0. calm' \in BOOLEAN
  BY DEF IInv, TypeOK, NextTask
<1>1. TypeOK'
  BY <1>0, ChecksType, PlanAssumption DEF IInv, TypeOK, NextTask, Blank, Steps
<1>2. InPlan' /\ Accounted' /\ Looked'
  BY NextTaskKeeps
<1>. QED
  BY <1>1, <1>2 DEF IInv

LEMMA FailedTaskKeeps ==
  ASSUME IInv, ended = "no", Fail, UNCHANGED data, UNCHANGED <<up, home>>,
         busy' \subseteq FSs, snap' \in [FSs -> {"absent", "valid", "invalid"}]
  PROVE  IInv'
<1>1. TypeOK'
  BY DEF IInv, TypeOK, Fail, data
<1>2. InPlan' /\ Accounted' /\ Looked'
  BY FailKeeps
<1>. QED
  BY <1>1, <1>2 DEF IInv

LEMMA CheckKeeps ==
  ASSUME IInv, ended = "no", Check
  PROVE  IInv'
<1>1. CASE NextTask
  BY <1>1, TaskEndKeeps DEF Check, world, IInv, TypeOK
<1>2. CASE Fail /\ UNCHANGED data
  BY <1>2, FailedTaskKeeps DEF Check, world, IInv, TypeOK
<1>. QED
  BY <1>1, <1>2 DEF Check

LEMMA NothingToDoKeeps ==
  ASSUME IInv, ended = "no", Task = "snapshot", NothingToDo
  PROVE  IInv'
<1>1. Target \in FSs
  BY TargetType DEF IInv, TypeOK, InPlan
<1>2. CASE Fail /\ UNCHANGED data
  BY <1>2, FailedTaskKeeps DEF NothingToDo, world, IInv, TypeOK
<1>3. CASE forced /\ Report("inactive")
  BY <1>1, <1>3, TaskEndKeeps DEF NothingToDo, Report, world, IInv, TypeOK
<1>4. CASE (forced \/ Action = "remove") /\ Report("absent")
  BY <1>1, <1>4, TaskEndKeeps DEF NothingToDo, Report, world, IInv, TypeOK
<1>. QED
  BY <1>2, <1>3, <1>4 DEF NothingToDo

LEMMA ChangeType ==
  ASSUME IInv, Target \in FSs, Change
  PROVE  /\ UNCHANGED <<up, home>> /\ busy' \subseteq FSs
         /\ snap' \in [FSs -> {"absent", "valid", "invalid"}]
         /\ \A f \in FSs : snap[f] = "absent" => snap'[f] = "absent"
         /\ Action = "remove" => snap'[Target] = "absent"
  BY DEF IInv, TypeOK, Change

LEMMA ActOnSnapshotKeeps ==
  ASSUME IInv, ended = "no", Task = "snapshot", ActOnSnapshot
  PROVE  IInv'
<1>1. Target \in FSs
  BY TargetType DEF IInv, TypeOK, InPlan
<1>2. CASE Change /\ Report("done")
  BY <1>1, <1>2, ChangeType, TaskEndKeeps DEF Report, IInv, TypeOK
<1>3. CASE Change /\ Fail /\ UNCHANGED data
  BY <1>1, <1>3, ChangeType, FailedTaskKeeps
<1>4. CASE Fail /\ UNCHANGED <<world, data>>
  BY <1>4, FailedTaskKeeps DEF world, IInv, TypeOK
<1>. QED
  BY <1>2, <1>3, <1>4 DEF ActOnSnapshot

LEMMA AroundKeeps ==
  ASSUME IInv, Around
  PROVE  IInv'
<1>1. UNCHANGED data /\ UNCHANGED plan
  BY DEF Around
<1>2. /\ up' \subseteq Nodes /\ home' \in [VGs -> Nodes \cup {NoNode}]
      /\ snap' \in [FSs -> {"absent", "valid", "invalid"}] /\ busy' \subseteq FSs
      /\ \A f \in FSs : snap[f] = "absent" => snap'[f] = "absent"
  <2>. USE DEF IInv, TypeOK
  <2>1. CASE \E f \in FSs : Synchronised(f)
    BY <2>1 DEF Synchronised
  <2>2. CASE \E n \in Nodes : Crash(n) \/ Boot(n)
    BY <2>2 DEF Crash, Boot
  <2>3. CASE \E v \in VGs : Deport(v) \/ \E n \in Nodes : FailOver(v, n)
    BY <2>3 DEF Deport, FailOver
  <2>4. CASE \E f \in FSs : Invalidate(f)
    BY <2>4 DEF Invalidate
  <2>. QED
    BY <2>1, <2>2, <2>3, <2>4 DEF Around
<1>3. TypeOK'
  BY <1>1, <1>2 DEF IInv, TypeOK, data, plan
<1>4. InPlan' /\ Accounted'
  BY <1>1, StaysInTask DEF plan, IInv, InPlan
<1>5. Looked'
  BY <1>1, SameTask DEF plan, data, IInv, Looked, Found, CutShort, Inactive
<1>. QED
  BY <1>3, <1>4, <1>5 DEF IInv

LEMMA AgainKeeps ==
  ASSUME IInv, Again
  PROVE  IInv'
<1>1. TypeOK'
  BY ChecksType, PlanAssumption DEF IInv, TypeOK, Again, Blank, Steps, world
<1>2. InPlan'
  BY ChecksType, ChecksTypeNext DEF Again, InPlan, LastTask
<1>3. Accounted'
  BY ChecksTypeNext, ChecksType DEF Again, Accounted
<1>4. Looked'
  BY DEF Again, Looked
<1>. QED
  BY <1>1, <1>2, <1>3, <1>4 DEF IInv

LEMMA NextIInv == IInv /\ [Next]_vars => IInv'
<1>. SUFFICES ASSUME IInv, [Next]_vars PROVE IInv'
  OBVIOUS
<1>1. CASE PlanStep
  <2>1. CASE SnapshotTask
    BY <1>1, <2>1, NothingToDoKeeps, ActOnSnapshotKeeps DEF PlanStep, SnapshotTask
  <2>. QED
    BY <1>1, <2>1, QueryKeeps, ImportKeeps, PresentScanKeeps, LaterScanKeeps,
       EndScanKeeps, CheckKeeps DEF PlanStep
<1>2. CASE CallRaises
  BY <1>2, FailedTaskKeeps DEF CallRaises, world, IInv, TypeOK
<1>3. CASE Again
  BY <1>3, AgainKeeps
<1>4. CASE Around
  BY <1>4, AroundKeeps
<1>5. CASE UNCHANGED vars
  <2>1. UNCHANGED world /\ UNCHANGED data /\ UNCHANGED plan
    BY <1>5 DEF vars
  <2>2. TypeOK'
    BY <2>1 DEF world, data, plan, IInv, TypeOK
  <2>3. InPlan' /\ Accounted'
    BY <2>1, StaysInTask DEF plan, IInv, InPlan
  <2>4. Looked'
    BY <2>1, SameTask DEF plan, data, IInv, Looked, Found, CutShort, Inactive
  <2>. QED
    BY <2>2, <2>3, <2>4 DEF IInv
<1>. QED
  BY <1>1, <1>2, <1>3, <1>4, <1>5 DEF Next

LEMMA AlwaysIInv == Spec => []IInv
  BY InitIInv, NextIInv, PTL DEF Spec

(***************************************************************************)
(* Results.                                                                *)
(***************************************************************************)
\* Every variable of the plan, its data manager and the cluster keeps its
\* type, in particular the cursor of a scan stays in the plan's dictionaries.
THEOREM TypeCorrect == Spec => []TypeOK
<1>1. IInv => TypeOK
  BY DEF IInv
<1>. QED
  BY <1>1, AlwaysIInv, PTL

\* A plan that was not forced and ends with success has restored, or removed
\* or missed in a probe of its own, the snapshot of every file system.
THEOREM NoneForgotten == Spec => []NothingForgotten
<1>1. IInv => NothingForgotten
  <2>. SUFFICES ASSUME IInv, ended = "done", ~forced, NEW f \in FSs
                PROVE  Settled(f)
    BY DEF NothingForgotten, Settled
  <2>1. PICK k \in 1 .. Len(Scan) : Scan[k] = f
    BY PlanAssumption
  <2>2. k + Len(Checks) < at
    BY ChecksType DEF IInv, InPlan, LastTask
  <2>. QED
    BY <2>1, <2>2 DEF IInv, Accounted
<1>. QED
  BY <1>1, AlwaysIInv, PTL

\* A task that reports that its file system has no snapshot has sent the call
\* that looks for it, or its plan was forced and the scan ended at a disk group
\* without an active node that comes before it.
THEOREM AbsentIsProbed == Spec => AbsentWasProbed
<1>1. IInv /\ [Next]_vars =>
        [\A f \in FSs : said'[f] = "absent" /\ said[f] # "absent"
                          => f \in probed \/ CutShort(f)]_vars
  <2>. SUFFICES ASSUME IInv, Next, NEW f \in FSs,
                       said'[f] = "absent", said[f] # "absent"
                PROVE  f \in probed \/ CutShort(f)
    OBVIOUS
  <2>1. CASE PlanStep
    <3>1. ended = "no" /\ SnapshotTask
      BY <2>1, ScanMoves DEF PlanStep, Query, Goto, Import, Fail, PresentScan,
         ValidScan, SyncScan, Skip, NextInGroup, NextGroup, EndScan, Check
    <3>2. Task = "snapshot" /\ step = "judge" /\ Target \in FSs /\ at <= LastTask
      BY <3>1, TargetType DEF SnapshotTask, IInv, TypeOK, InPlan
    <3>3. NothingToDo /\ ~Inactive(Target) /\ f = Target
      BY <3>1, <3>2 DEF SnapshotTask, NothingToDo, ActOnSnapshot, Report, Fail, IInv, TypeOK
    <3>4. Found
      BY <3>2 DEF IInv, Looked
    <3>. QED
      BY <3>3, <3>4 DEF Found
  <2>2. CASE CallRaises
    BY <2>2 DEF CallRaises, Fail
  <2>3. CASE Again
    BY <2>3 DEF Again
  <2>4. CASE Around
    BY <2>4 DEF Around, plan
  <2>. QED
    BY <2>1, <2>2, <2>3, <2>4 DEF Next
<1>. QED
  BY <1>1, AlwaysIInv, PTL DEF Spec, AbsentWasProbed

(***************************************************************************)
(* All or nothing: a restore that is not forced, in a cluster that keeps   *)
(* still, learns in its checks what its tasks then find.                   *)
(***************************************************************************)
Steady == calm /\ Action = "restore" /\ ~forced

\* What the data manager holds is true.
Knows == /\ \A v \in VGs : active[v] = NoNode \/ active[v] = home[v]
         /\ step # "query" => heard = up \cap Members
         /\ \A f \in present : snap[f] # "absent"
         /\ \A f \in valid : snap[f] = "valid"

\* After the first check every disk group has an active node, and keeps it.
Held == at > 1 => /\ Members # {} /\ Members \subseteq up
                  /\ \A v \in VGs : home[v] \in Members
                  /\ step \notin {"import", "requery"}
                  /\ step # "query" => \A v \in VGs : active[v] = home[v]

Unscanned == at = 1 => present = {} /\ step \in {"query", "import", "requery", "judge"}

\* File systems of one group that follow each other: one scan finds the
\* first of them or the second, never both.
Adjacent(j) == /\ j \in 1 .. Len(Scan) /\ j + 1 \in 1 .. Len(Scan)
               /\ VgOf[Scan[j]] = VgOf[Scan[j + 1]]

PresenceScanned ==
    at = 2 => /\ step \in {"query", "present", "judge"}
              /\ step = "query" => present = {}
              /\ step = "present" => \A j \in 1 .. Len(Scan) : Scan[j] \in present => j < i
              /\ \A j \in 1 .. Len(Scan) : Adjacent(j) /\ Scan[j] \in present =>
                   Scan[j + 1] \notin present /\ (step = "present" => j + 1 # i)

\* So the check of presence only passes if no two of them follow each other,
\* and the next scan of a cluster that keeps still finds all of them again.
ValidityScanned ==
    /\ at > 2 => /\ \A j \in 1 .. Len(Scan) : ~Adjacent(j)
                 /\ \A f \in FSs : snap[f] # "absent"
    /\ at = 3 => /\ step \in {"query", "present", "valid", "judge"}
                 /\ step = "present" => \A j \in 1 .. Len(Scan) : j < i => Scan[j] \in present
                 /\ step \in {"valid", "judge"} => FSs \subseteq present

Decided == IF at > 3 THEN \A f \in FSs : snap[f] = "valid"
                     ELSE \A f \in FSs : said[f] # "done"

SteadyInv == Steady => /\ Knows /\ Held /\ Unscanned
                       /\ PresenceScanned /\ ValidityScanned /\ Decided

LEMMA RestoreTasks ==
  ASSUME at \in Nat \ {0}, Action = "restore", ~forced
  PROVE  /\ Len(Checks) = 3
         /\ at = 1 => Task = "active"
         /\ at = 2 => Task = "presence"
         /\ at = 3 => Task = "validity"
         /\ at > 3 => Task = "snapshot"
<1>1. Checks = <<"active", "presence", "validity">>
  BY DEF Checks
<1>. QED
  BY <1>1 DEF Task

\* Only what the plan does not use moves, or the plan fails.
LEMMA SteadyFrame ==
  ASSUME SteadyInv, UNCHANGED <<up, home, snap, at, forced, step, i, said, calm>>, UNCHANGED data
  PROVE  SteadyInv'
<1>1. SUFFICES ASSUME Steady' PROVE /\ Knows' /\ Held' /\ Unscanned'
                                    /\ PresenceScanned' /\ ValidityScanned' /\ Decided'
  BY DEF SteadyInv
<1>2. /\ Knows /\ Held /\ Unscanned
      /\ PresenceScanned /\ ValidityScanned /\ Decided
  BY <1>1 DEF SteadyInv, Steady
<1>. QED
  BY <1>2 DEF data, Knows, Held, Unscanned, PresenceScanned, ValidityScanned, Decided, Adjacent

LEMMA SteadyQuery ==
  ASSUME IInv, SteadyInv, ended = "no", Query
  PROVE  SteadyInv'
<1>1. /\ UNCHANGED <<up, home, snap, busy, present, valid, at, forced, said, calm>>
      /\ i' = 1 /\ step' \in {"import", AfterQuery} /\ step \in {"query", "requery"}
  BY DEF Query, Goto, world
<1>2. SUFFICES ASSUME Steady PROVE /\ Knows' /\ Held' /\ Unscanned'
                                   /\ PresenceScanned' /\ ValidityScanned' /\ Decided'
  BY <1>1 DEF SteadyInv, Steady
<1>3. /\ Knows /\ Held /\ Unscanned
      /\ PresenceScanned /\ ValidityScanned /\ Decided
  BY <1>2 DEF SteadyInv
<1>4. /\ heard' = up \cap Members
      /\ active' = IF heard' = {} /\ step = "query" THEN active
                   ELSE [v \in VGs |-> IF home[v] \in heard' THEN home[v] ELSE NoNode]
      /\ step' = "import" => \E v \in VGs : active'[v] = NoNode
  BY <1>2, <1>3 DEF Query, Steady, Goto, AfterQuery
<1>5. at \in Nat \ {0} /\ AfterQuery = (IF at = 1 THEN "judge" ELSE "present")
  BY <1>2, RestoreTasks DEF Steady, IInv, TypeOK, AfterQuery
<1>6. Knows'
  BY <1>1, <1>3, <1>4 DEF Knows
<1>7. Held'
  <2>. SUFFICES ASSUME at > 1 PROVE /\ step' # "import"
                                    /\ \A v \in VGs : active'[v] = home[v]
    BY <1>1, <1>3, <1>5 DEF Held
  <2>1. heard' = Members /\ Members # {} /\ \A v \in VGs : home[v] \in Members
    BY <1>3, <1>4 DEF Held
  <2>2. \A v \in VGs : active'[v] = home[v]
    BY <1>4, <2>1
  <2>3. NoNode \notin Members
    BY PlanAssumption
  <2>. QED
    BY <1>4, <2>1, <2>2, <2>3
<1>8. at > 1 => step' = "present" /\ step = "query"
  BY <1>1, <1>3, <1>5, <1>7 DEF Held
<1>9. Unscanned'
  BY <1>1, <1>3, <1>5 DEF Unscanned
<1>10. PresenceScanned'
  BY <1>1, <1>3, <1>8 DEF PresenceScanned
<1>11. ValidityScanned'
  BY <1>1, <1>3, <1>8, ChecksType DEF ValidityScanned, Adjacent
<1>12. Decided'
  BY <1>1, <1>3 DEF Decided
<1>. QED
  BY <1>6, <1>7, <1>9, <1>10, <1>11, <1>12

LEMMA SteadyImport ==
  ASSUME IInv, SteadyInv, ended = "no", Import
  PROVE  SteadyInv'
<1>1. /\ UNCHANGED <<up, snap, at, forced, said, calm>> /\ UNCHANGED data
      /\ step = "import" /\ step' \in {"requery", "import"}
      /\ \A v \in VGs : home'[v] = home[v] \/ active[v] = NoNode
  BY DEF Import, Goto, Fail, IInv, TypeOK
<1>2. SUFFICES ASSUME Steady PROVE /\ Knows' /\ Held' /\ Unscanned'
                                   /\ PresenceScanned' /\ ValidityScanned' /\ Decided'
  BY <1>1 DEF SteadyInv, Steady
<1>3. Knows /\ Held /\ Unscanned /\ Decided
  BY <1>2 DEF SteadyInv
<1>4. at = 1
  BY <1>1, <1>3 DEF Held, IInv, TypeOK
<1>5. Knows'
  BY <1>1, <1>3 DEF Knows, data
<1>. QED
  BY <1>1, <1>3, <1>4, <1>5
     DEF Held, Unscanned, PresenceScanned, ValidityScanned, Decided, data

LEMMA SteadyPresentScan ==
  ASSUME IInv, SteadyInv, ended = "no", PresentScan
  PROVE  SteadyInv'
<1>. DEFINE f == Scan[i]
<1>1. i \in 1 .. Len(Scan) /\ f \in FSs /\ VgOf[f] \in VGs
  BY PlanAssumption, ChecksType DEF IInv, TypeOK, PresentScan
<1>2. /\ i' \in i + 1 .. Len(Scan) + 1
      /\ UNCHANGED <<up, home, snap, at, forced, step, said, calm, heard, active, valid>>
  BY <1>1, ScanMoves DEF PresentScan, world, data
<1>3. SUFFICES ASSUME Steady PROVE /\ Knows' /\ Held' /\ Unscanned'
                                   /\ PresenceScanned' /\ ValidityScanned' /\ Decided'
  BY <1>2 DEF SteadyInv, Steady
<1>4. /\ Knows /\ Held /\ Unscanned
      /\ PresenceScanned /\ ValidityScanned /\ Decided /\ step = "present"
  BY <1>3 DEF SteadyInv, PresentScan
<1>5. at \in Nat \ {0, 1}
  BY <1>4 DEF Unscanned, IInv, TypeOK
<1>6. ~Inactive(f) /\ Works(f)
  <2>1. active[VgOf[f]] = home[VgOf[f]] /\ home[VgOf[f]] \in Members
    BY <1>1, <1>4, <1>5 DEF Held
  <2>. QED
    BY <2>1, PlanAssumption DEF Inactive, Works
<1>7. \/ Task = "snapshot" /\ NextInGroup /\ present' = present
      \/ snap[f] # "absent" /\ present' = present \cup {f} /\ NextGroup
      \/ snap[f] = "absent" /\ present' = present /\ NextInGroup
  BY <1>3, <1>6 DEF PresentScan, Steady, data
<1>8. \A j \in 1 .. Len(Scan) : Scan[j] = f => j = i
  BY <1>1, PlanAssumption
<1>9. Knows'
  BY <1>1, <1>2, <1>4, <1>7 DEF Knows
<1>10. Held' /\ Unscanned' /\ Decided'
  BY <1>2, <1>4, <1>5 DEF Held, Unscanned, Decided
<1>11. PresenceScanned'
  <2>. SUFFICES ASSUME at = 2 PROVE PresenceScanned'
    BY <1>2 DEF PresenceScanned
  <2>1. /\ \A j \in 1 .. Len(Scan) : Scan[j] \in present => j < i
        /\ \A j \in 1 .. Len(Scan) : Adjacent(j) /\ Scan[j] \in present =>
             Scan[j + 1] \notin present /\ j + 1 # i
    BY <1>4 DEF PresenceScanned
  <2>2. CASE present' = present /\ NextInGroup
    <3>1. i' = i + 1
      BY <2>2 DEF NextInGroup
    <3>. QED
      BY <1>1, <1>2, <1>4, <2>1, <2>2, <3>1 DEF PresenceScanned, Adjacent
  <2>3. CASE present' = present \cup {f} /\ NextGroup
    <3>1. \A j \in 1 .. Len(Scan) : Scan[j] \in present' => j < i'
      BY <1>1, <1>2, <1>8, <2>1, <2>3
    <3>2. ASSUME NEW j \in 1 .. Len(Scan), Adjacent(j), Scan[j] \in present'
          PROVE  Scan[j + 1] \notin present' /\ j + 1 # i'
      <4>1. j + 1 \in 1 .. Len(Scan)
        BY <3>2 DEF Adjacent
      <4>2. CASE j = i
        <5>1. Scan[j + 1] \notin present'
          BY <1>1, <1>8, <2>1, <2>3, <4>1, <4>2
        <5>2. i' <= Len(Scan) => VgOf[Scan[i']] # VgOf[Scan[i]]
          BY <2>3 DEF NextGroup
        <5>. QED
          BY <3>2, <4>1, <4>2, <5>1, <5>2 DEF Adjacent
      <4>3. CASE j # i
        <5>1. Scan[j] \in present /\ j < i
          BY <1>8, <2>1, <2>3, <3>2, <4>3
        <5>2. Scan[j + 1] \notin present /\ j + 1 # i
          BY <2>1, <3>2, <5>1
        <5>3. Scan[j + 1] # f
          BY <1>8, <4>1, <5>2
        <5>. QED
          BY <1>1, <1>2, <2>3, <5>1, <5>2, <5>3
      <4>. QED
        BY <4>2, <4>3
    <3>3. \A j \in 1 .. Len(Scan) : Adjacent(j)' <=> Adjacent(j)
      BY DEF Adjacent
    <3>. QED
      BY <1>2, <1>4, <3>1, <3>2, <3>3 DEF PresenceScanned
  <2>. QED
    BY <1>7, <2>2, <2>3
<1>12. ValidityScanned'
  <2>1. at > 2 => /\ \A j \in 1 .. Len(Scan) : ~Adjacent(j)
                  /\ \A g \in FSs : snap[g] # "absent"
    BY <1>4 DEF ValidityScanned
  <2>2. ASSUME at = 3 PROVE \A j \in 1 .. Len(Scan) : j < i' => Scan[j] \in present'
    <3>1. /\ \A j \in 1 .. Len(Scan) : j < i => Scan[j] \in present
          /\ Task = "validity" /\ at > 2
      BY <1>3, <1>4, <1>5, <2>2, RestoreTasks DEF ValidityScanned, Steady
    <3>2. present' = present \cup {f} /\ NextGroup
      BY <1>1, <1>7, <2>1, <3>1
    <3>3. i' = i + 1
      <4>. SUFFICES ASSUME i' # i + 1 PROVE FALSE
        OBVIOUS
      <4>1. i + 1 \in i .. Len(Scan) /\ i + 1 < i' /\ i + 1 \in 1 .. Len(Scan)
        BY <1>1, <1>2, ChecksType
      <4>2. VgOf[Scan[i + 1]] = VgOf[Scan[i]]
        BY <3>2, <4>1 DEF NextGroup
      <4>3. ~Adjacent(i)
        BY <1>1, <2>1, <3>1
      <4>. QED
        BY <1>1, <4>1, <4>2, <4>3 DEF Adjacent
    <3>. QED
      BY <1>1, <3>1, <3>2, <3>3
  <2>3. \A j \in 1 .. Len(Scan) : Adjacent(j)' <=> Adjacent(j)
    BY DEF Adjacent
  <2>. QED
    BY <1>2, <1>4, <2>1, <2>2, <2>3 DEF ValidityScanned
<1>. QED
  BY <1>9, <1>10, <1>11, <1>12

LEMMA SteadyValidScan ==
  ASSUME IInv, SteadyInv, ended = "no", ValidScan \/ SyncScan
  PROVE  SteadyInv'
<1>1. i \in 1 .. Len(Scan) /\ Scan[i] \in FSs
  BY PlanAssumption, ChecksType DEF IInv, TypeOK, ValidScan, SyncScan
<1>2. Skip \/ NextInGroup \/ NextGroup
  BY DEF ValidScan, SyncScan
<1>3. /\ UNCHANGED <<up, home, snap, at, forced, step, said, calm, heard, active, present>>
      /\ step # "present"
      /\ \A f \in valid' : f \in valid \/ snap[f] = "valid"
  BY <1>1, <1>2, ScanMoves DEF ValidScan, SyncScan, world, data
<1>4. SUFFICES ASSUME Steady PROVE /\ Knows' /\ Held' /\ Unscanned'
                                   /\ PresenceScanned' /\ ValidityScanned' /\ Decided'
  BY <1>3 DEF SteadyInv, Steady
<1>5. /\ Knows /\ Held /\ Unscanned
      /\ PresenceScanned /\ ValidityScanned /\ Decided
  BY <1>4 DEF SteadyInv
<1>. QED
  BY <1>3, <1>5 DEF Knows, Held, Unscanned, PresenceScanned, ValidityScanned, Decided, Adjacent

LEMMA SteadyEndScan ==
  ASSUME IInv, SteadyInv, ended = "no", EndScan
  PROVE  SteadyInv'
<1>1. /\ UNCHANGED <<up, home, snap, at, forced, said, calm>> /\ UNCHANGED data /\ i' = 1
      /\ step' = IF step = "present" THEN AfterPresent ELSE "judge"
      /\ step \in {"present", "valid", "sync"} /\ i = Len(Scan) + 1
  BY DEF EndScan, Goto, world
<1>2. SUFFICES ASSUME Steady PROVE /\ Knows' /\ Held' /\ Unscanned'
                                   /\ PresenceScanned' /\ ValidityScanned' /\ Decided'
  BY <1>1 DEF SteadyInv, Steady
<1>3. /\ Knows /\ Held /\ Unscanned
      /\ PresenceScanned /\ ValidityScanned /\ Decided
  BY <1>2 DEF SteadyInv
<1>4. at \in Nat \ {0, 1} /\ AfterPresent = (IF at = 2 THEN "judge" ELSE "valid")
  BY <1>1, <1>2, <1>3, RestoreTasks DEF Steady, IInv, TypeOK, AfterPresent, Unscanned
<1>5. step' \in {"judge", "valid"} /\ (at = 2 => step' = "judge")
  BY <1>1, <1>4
<1>6. Knows' /\ Held' /\ Unscanned' /\ Decided'
  BY <1>1, <1>3, <1>4, <1>5 DEF data, Knows, Held, Unscanned, Decided
<1>7. PresenceScanned'
  BY <1>1, <1>3, <1>5 DEF data, PresenceScanned, Adjacent
<1>8. ASSUME at = 3 PROVE FSs \subseteq present
  <2>1. CASE step = "present"
    <3>. SUFFICES ASSUME NEW f \in FSs PROVE f \in present
      OBVIOUS
    <3>1. PICK j \in 1 .. Len(Scan) : Scan[j] = f
      BY PlanAssumption
    <3>2. j < i
      BY <1>1, ChecksType
    <3>. QED
      BY <1>3, <1>8, <2>1, <3>1, <3>2 DEF ValidityScanned
  <2>2. CASE step = "valid"
    BY <1>3, <1>8, <2>2 DEF ValidityScanned
  <2>. QED
    BY <1>1, <1>3, <1>8, <2>1, <2>2 DEF ValidityScanned
<1>9. ValidityScanned'
  BY <1>1, <1>3, <1>5, <1>8 DEF data, ValidityScanned, Adjacent
<1>. QED
  BY <1>6, <1>7, <1>9

\* The checks: each one passes on what the tasks after it rely on.
LEMMA SteadyCheck ==
  ASSUME IInv, SteadyInv, ended = "no", Check
  PROVE  SteadyInv'
<1>1. CASE Fail /\ UNCHANGED data
  BY <1>1, SteadyFrame DEF Check, Fail, world
<1>2. CASE Passes /\ NextTask
  <2>1. /\ UNCHANGED <<up, home, snap, said, forced, calm>> /\ at' = at + 1 /\ step' = "query"
        /\ step = "judge" /\ Task # "snapshot"
        /\ \/ present' = {} /\ valid' = {} /\ active' = [v \in VGs |-> NoNode]
           \/ UNCHANGED <<active, present, valid>>
    BY <1>2 DEF Check, NextTask, Blank, world
  <2>2. SUFFICES ASSUME Steady PROVE /\ Knows' /\ Held' /\ Unscanned'
                                     /\ PresenceScanned' /\ ValidityScanned' /\ Decided'
    BY <2>1 DEF SteadyInv, Steady
  <2>3. /\ Knows /\ Held /\ Unscanned
        /\ PresenceScanned /\ ValidityScanned /\ Decided
    BY <2>2 DEF SteadyInv
  <2>4. /\ at \in 1 .. 3
        /\ at = 1 => Task = "active"
        /\ at = 2 => Task = "presence"
        /\ at = 3 => Task = "validity"
    BY <2>1, <2>2, RestoreTasks DEF Steady, IInv, TypeOK
  <2>5. Knows'
    BY <2>1, <2>3 DEF Knows
  <2>6. Members # {} /\ Members \subseteq up /\ \A v \in VGs : home[v] \in Members
    <3>1. CASE at = 1
      <4>1. GroupsActive
        BY <1>2, <2>4, <3>1 DEF Passes
      <4>2. heard = Members /\ Members # {} /\ heard = up \cap Members
        BY <2>1, <2>2, <2>3, <4>1 DEF GroupsActive, Knows, Steady
      <4>3. \A v \in VGs : active[v] # NoNode /\ active[v] = home[v]
        BY <2>3, <4>1 DEF GroupsActive, Knows
      <4>4. \A v \in VGs : active[v] \in Members
        BY <4>3 DEF IInv, TypeOK
      <4>. QED
        BY <4>2, <4>3, <4>4
    <3>2. CASE at > 1
      BY <2>3, <3>2 DEF Held
    <3>. QED
      BY <2>4, <3>1, <3>2
  <2>7. Held' /\ Unscanned'
    BY <2>1, <2>4, <2>6 DEF Held, Unscanned
  <2>8. PresenceScanned'
    BY <2>1, <2>3, <2>4 DEF PresenceScanned, Unscanned
  <2>9. at > 1 => \A f \in FSs : ~Inactive(f)
    BY <2>1, <2>3, PlanAssumption DEF Held, Inactive
  <2>10. ASSUME at > 1
         PROVE  /\ \A j \in 1 .. Len(Scan) : ~Adjacent(j)
                /\ \A f \in FSs : snap[f] # "absent"
    <3>1. CASE at = 2
      <4>1. FSs \subseteq present
        BY <1>2, <2>4, <2>9, <3>1 DEF Passes, SnapshotsExist
      <4>2. \A j \in 1 .. Len(Scan) : Scan[j] \in FSs
        BY PlanAssumption, ChecksType
      <4>3. \A j \in 1 .. Len(Scan) : ~Adjacent(j)
        BY <2>3, <3>1, <4>1, <4>2 DEF PresenceScanned, Adjacent
      <4>. QED
        BY <2>3, <4>1, <4>3 DEF Knows
    <3>2. CASE at = 3
      BY <2>3, <3>2 DEF ValidityScanned
    <3>. QED
      BY <2>4, <2>10, <3>1, <3>2
  <2>11. ValidityScanned'
    BY <2>1, <2>4, <2>10 DEF ValidityScanned, Adjacent
  <2>12. Decided'
    <3>1. CASE at = 3
      <4>1. FSs \subseteq present /\ SnapshotsValid
        BY <1>2, <2>1, <2>3, <2>4, <3>1 DEF Passes, ValidityScanned
      <4>2. \A f \in FSs : f \in valid
        BY <2>9, <3>1, <4>1 DEF SnapshotsValid
      <4>. QED
        BY <2>1, <2>3, <3>1, <4>2 DEF Knows, Decided
    <3>2. CASE at < 3
      BY <2>1, <2>3, <2>4, <3>2 DEF Decided
    <3>. QED
      BY <2>4, <3>1, <3>2
  <2>. QED
    BY <2>5, <2>7, <2>8, <2>11, <2>12
<1>. QED
  BY <1>1, <1>2 DEF Check

\* A file system's own task comes after the checks, and leaves the snapshots.
LEMMA SteadySnapshotTask ==
  ASSUME IInv, SteadyInv, ended = "no", SnapshotTask
  PROVE  SteadyInv'
<1>1. CASE Fail /\ UNCHANGED data
  <2>1. Action = "restore" => UNCHANGED <<up, home, snap>>
    BY DEF SnapshotTask, NothingToDo, ActOnSnapshot, Change, world
  <2>2. CASE Steady
    BY <1>1, <2>1, <2>2, SteadyFrame DEF Fail, Steady
  <2>3. CASE ~Steady
    BY <1>1, <2>3 DEF Fail, Steady, SteadyInv
  <2>. QED
    BY <2>2, <2>3
<1>2. CASE \E o \in {"done", "absent", "inactive"} : Report(o)
  <2>1. /\ UNCHANGED <<forced, calm>> /\ at' = at + 1 /\ step' = "query"
        /\ \/ present' = {} /\ valid' = {} /\ active' = [v \in VGs |-> NoNode]
           \/ UNCHANGED <<active, present, valid>>
    BY <1>2 DEF Report, NextTask, Blank
  <2>2. SUFFICES ASSUME Steady PROVE /\ Knows' /\ Held' /\ Unscanned'
                                     /\ PresenceScanned' /\ ValidityScanned' /\ Decided'
    BY <2>1 DEF SteadyInv, Steady
  <2>3. UNCHANGED <<up, home, snap>>
    BY <2>2 DEF SnapshotTask, NothingToDo, ActOnSnapshot, Change, world, Steady
  <2>4. Knows /\ Held /\ ValidityScanned /\ Decided
    BY <2>2 DEF SteadyInv
  <2>5. at > 3 /\ at \in Nat
    BY <2>2, RestoreTasks DEF SnapshotTask, Steady, IInv, TypeOK
  <2>6. Knows'
    BY <2>1, <2>3, <2>4 DEF Knows
  <2>7. Held' /\ Unscanned' /\ Decided'
    BY <2>1, <2>3, <2>4, <2>5 DEF Held, Unscanned, Decided
  <2>8. PresenceScanned' /\ ValidityScanned'
    BY <2>1, <2>3, <2>4, <2>5 DEF PresenceScanned, ValidityScanned, Adjacent
  <2>. QED
    BY <2>6, <2>7, <2>8
<1>. QED
  BY <1>1, <1>2 DEF SnapshotTask, NothingToDo, ActOnSnapshot

LEMMA SteadyStep == IInv /\ SteadyInv /\ [Next]_vars => SteadyInv'
<1>. SUFFICES ASSUME IInv, SteadyInv, [Next]_vars PROVE SteadyInv'
  OBVIOUS
<1>1. CASE PlanStep
  BY <1>1, SteadyQuery, SteadyImport, SteadyPresentScan, SteadyValidScan, SteadyEndScan,
     SteadyCheck, SteadySnapshotTask DEF PlanStep
<1>2. CASE CallRaises
  BY <1>2, SteadyFrame DEF CallRaises, Fail, world
<1>3. CASE Again
  BY <1>3 DEF Again, Blank, world, SteadyInv, Knows, Held, Unscanned, PresenceScanned,
     ValidityScanned, Decided
<1>4. CASE Around
  <2>1. UNCHANGED data /\ UNCHANGED plan
    BY <1>4 DEF Around
  <2>2. CASE calm
    <3>1. UNCHANGED <<up, home, snap>>
      BY <1>4, <2>2 DEF Around, Synchronised
    <3>. QED
      BY <2>1, <3>1, SteadyFrame DEF plan
  <2>3. CASE ~calm
    BY <2>1, <2>3 DEF plan, SteadyInv, Steady
  <2>. QED
    BY <2>2, <2>3
<1>5. CASE UNCHANGED vars
  BY <1>5, SteadyFrame DEF vars, world, plan
<1>. QED
  BY <1>1, <1>2, <1>3, <1>4, <1>5 DEF Next

\* If the cluster keeps still, a restore that is not forced restores its first
\* file system only when every file system has a valid snapshot.
THEOREM RestoresAllOrNothing == Spec => []AllOrNothing
<1>1. Init => SteadyInv
  BY DEF Init, SteadyInv, Knows, Held, Unscanned, PresenceScanned, ValidityScanned, Decided
<1>2. IInv /\ SteadyInv /\ [Next]_vars => SteadyInv'
  BY SteadyStep
<1>3. SteadyInv => AllOrNothing
  BY DEF SteadyInv, Steady, Decided, AllOrNothing
<1>. QED
  BY <1>1, <1>2, <1>3, AlwaysIInv, PTL DEF Spec

(***************************************************************************)
(* Nothing left: a removal, forced or not, in a cluster that keeps still,  *)
(* finds in its scans what is there, up to the first group without an      *)
(* active node, and says of every such group that it is inactive.          *)
(***************************************************************************)
StillRemoval == calm /\ Action = "remove"

Reachable == up \cap Members

\* The active nodes the data manager holds are those of the groups that a
\* member which answers imports; after the query it holds all of them.
Charted == /\ \A v \in VGs : active[v] = NoNode
                              \/ (active[v] = home[v] /\ home[v] \in Reachable)
           /\ step \notin {"query", "import", "requery"} =>
                \A v \in VGs : home[v] \in Reachable => active[v] = home[v]

\* A file system whose task is over is inactive as reported, or its disk group
\* is held, and stays so, by a member that answers.
Reported == \A k \in 1 .. Len(Scan) : k + Len(Checks) < at =>
                said[Scan[k]] = "inactive" \/ home[VgOf[Scan[k]]] \in Reachable

\* What the first scan of a file system's own task has found so far.
Seen == Inactive(Target) \/ Target \in present \/ snap[Target] = "absent" \/ CutShort(Target)
Searched == Task = "snapshot" /\ at <= LastTask =>
              /\ step = "present" =>
                   \A k \in 1 .. Len(Scan) : k < i /\ Scan[k] = Target => Seen
              /\ step \in {"valid", "judge"} => Seen

\* The tasks that are over left nothing, but for what was said.
LeftBehind(k) == snap[Scan[k]] = "absent" \/ \E j \in 1 .. k : said[Scan[j]] = "inactive"
Cleared == \A k \in 1 .. Len(Scan) : k + Len(Checks) < at => LeftBehind(k)

RemovalInv == StillRemoval => Charted /\ Reported /\ Searched /\ Cleared

\* Only what the plan does not use moves, or the plan fails.
LEMMA RemovalFrame ==
  ASSUME IInv, RemovalInv, UNCHANGED <<up, home, at, forced, step, i, said, calm>>,
         UNCHANGED <<active, present>>,
         \A f \in FSs : snap[f] = "absent" => snap'[f] = "absent"
  PROVE  RemovalInv'
<1>. SUFFICES ASSUME StillRemoval' PROVE Charted' /\ Reported' /\ Searched' /\ Cleared'
  BY DEF RemovalInv
<1>1. Charted /\ Reported /\ Searched /\ Cleared
  BY DEF RemovalInv, StillRemoval
<1>2. Charted'
  BY <1>1 DEF Charted, Reachable
<1>3. Task' = Task /\ Target' = Target /\ Checks' = Checks /\ LastTask' = LastTask
  BY SameTask
<1>4. Reported'
  BY <1>1, <1>3 DEF Reported, Reachable
<1>5. \A k \in 1 .. Len(Scan) : Scan[k] \in FSs
  BY PlanAssumption, ChecksType
<1>6. Seen /\ Target \in FSs => Seen'
  BY <1>3 DEF Seen, Inactive, CutShort
<1>7. Searched'
  <2>. SUFFICES ASSUME Task = "snapshot", at <= LastTask
                PROVE  /\ step = "present" =>
                            \A k \in 1 .. Len(Scan) : k < i /\ Scan[k] = Target => Seen'
                       /\ step \in {"valid", "judge"} => Seen'
    BY <1>3 DEF Searched
  <2>1. Target \in FSs
    BY TargetType DEF IInv, TypeOK
  <2>. QED
    BY <1>1, <1>6, <2>1 DEF Searched
<1>8. Cleared'
  BY <1>1, <1>3, <1>5 DEF Cleared, LeftBehind
<1>. QED
  BY <1>2, <1>4, <1>7, <1>8

\* A step within a task that moves its scans, or learns more.
LEMMA RemovalInTask ==
  ASSUME RemovalInv, UNCHANGED <<at, forced, said, calm, up, snap>>,
         StillRemoval => Charted' /\ Searched',
         \A v \in VGs : home'[v] = home[v] \/ home[v] = NoNode
  PROVE  RemovalInv'
<1>. SUFFICES ASSUME StillRemoval' PROVE Charted' /\ Reported' /\ Searched' /\ Cleared'
  BY DEF RemovalInv
<1>1. Charted' /\ Searched' /\ Reported /\ Cleared
  BY DEF RemovalInv, StillRemoval
<1>2. Checks' = Checks
  BY SameTask
<1>3. \A k \in 1 .. Len(Scan) : VgOf[Scan[k]] \in VGs
  BY PlanAssumption, ChecksType
<1>4. Reported'
  BY <1>1, <1>2, <1>3, PlanAssumption DEF Reported, Reachable
<1>5. Cleared'
  BY <1>1, <1>2 DEF Cleared, LeftBehind
<1>. QED
  BY <1>1, <1>4, <1>5

LEMMA RemovalQuery ==
  ASSUME IInv, RemovalInv, ended = "no", Query
  PROVE  RemovalInv'
<1>1. /\ UNCHANGED <<up, home, snap, busy, present, at, forced, said, calm>>
      /\ i' = 1 /\ step' \in {"import", AfterQuery} /\ step \in {"query", "requery"}
  BY DEF Query, Goto, world
<1>2. ASSUME StillRemoval PROVE Charted'
  <2>1. /\ Charted
        /\ active' = IF Reachable = {} /\ step = "query" THEN active
                     ELSE [v \in VGs |-> IF home[v] \in Reachable THEN home[v] ELSE NoNode]
    BY <1>2 DEF RemovalInv, StillRemoval, Query, Reachable
  <2>. QED
    BY <1>1, <2>1 DEF Charted, Reachable
<1>3. Searched'
  <2>1. Task' = Task
    BY <1>1, SameTask
  <2>2. AfterQuery = IF Task = "active" THEN "judge" ELSE "present"
    BY DEF AfterQuery
  <2>. QED
    BY <1>1, <2>1, <2>2, ChecksType DEF Searched
<1>. QED
  BY <1>1, <1>2, <1>3, RemovalInTask

LEMMA RemovalImport ==
  ASSUME IInv, RemovalInv, ended = "no", Import
  PROVE  RemovalInv'
<1>1. /\ UNCHANGED <<up, snap, at, forced, said, calm>> /\ UNCHANGED data
      /\ step = "import" /\ step' \in {"import", "requery"}
      /\ \A v \in VGs : home'[v] = home[v] \/ (home[v] = NoNode /\ active[v] = NoNode)
  BY DEF Import, Goto, Fail, IInv, TypeOK
<1>2. ASSUME StillRemoval PROVE Charted'
  <2>1. Charted
    BY <1>2 DEF RemovalInv
  <2>. QED
    BY <1>1, <2>1 DEF Charted, Reachable, data
<1>3. Searched'
  BY <1>1 DEF Searched
<1>. QED
  BY <1>1, <1>2, <1>3, RemovalInTask

LEMMA RemovalPresentScan ==
  ASSUME IInv, RemovalInv, ended = "no", PresentScan
  PROVE  RemovalInv'
<1>. DEFINE f == Scan[i]
<1>1. i \in 1 .. Len(Scan) /\ f \in FSs /\ VgOf[f] \in VGs
  BY PlanAssumption, ChecksType DEF IInv, TypeOK, PresentScan
<1>2. /\ i' \in i + 1 .. Len(Scan) + 1
      /\ UNCHANGED <<up, home, snap, at, forced, step, said, calm, active>>
      /\ present \subseteq present' /\ step = "present"
  BY <1>1, ScanMoves DEF PresentScan, world, data
<1>3. /\ Task' = Task /\ Target' = Target /\ LastTask' = LastTask
  BY <1>2, SameTask
<1>4. ASSUME StillRemoval PROVE Charted'
  BY <1>2, <1>4 DEF RemovalInv, Charted, Reachable
<1>5. ASSUME StillRemoval PROVE Searched'
  <2>. SUFFICES ASSUME Task = "snapshot", at <= LastTask,
                       NEW k \in 1 .. Len(Scan), k < i', Scan[k] = Target
                PROVE  Seen'
    BY <1>2, <1>3 DEF Searched
  <2>1. Seen => Seen'
    BY <1>2, <1>3 DEF Seen, CutShort, Inactive
  <2>2. CASE k < i
    BY <1>2, <1>5, <2>1, <2>2 DEF RemovalInv, Searched
  <2>3. CASE k >= i /\ Inactive(f)
    <3>1. CASE k = i
      BY <2>1, <2>3, <3>1 DEF Seen
    <3>2. CASE k > i /\ forced
      <4>1. CutShort(Target)
        BY <1>1, <2>3, <3>2 DEF CutShort
      <4>. QED
        BY <2>1, <4>1 DEF Seen
    <3>3. CASE k > i /\ ~forced
      <4>1. NextGroup /\ k \in i .. Len(Scan)
        BY <1>1, <2>3, <3>3, ChecksType DEF PresentScan, Skip
      <4>2. VgOf[Scan[k]] = VgOf[f]
        BY <4>1 DEF NextGroup
      <4>. QED
        BY <2>1, <2>3, <4>2 DEF Seen, Inactive
    <3>. QED
      BY <1>1, <2>3, <3>1, <3>2, <3>3
  <2>4. CASE k >= i /\ ~Inactive(f) /\ f # Target
    <3>1. NextInGroup
      BY <2>4 DEF PresentScan
    <3>. QED
      BY <1>1, <2>4, <3>1 DEF NextInGroup
  <2>5. CASE k >= i /\ ~Inactive(f) /\ f = Target
    <3>1. active[VgOf[f]] = home[VgOf[f]]
      BY <1>1, <1>5, <2>5 DEF RemovalInv, Charted, Inactive
    <3>2. f \in present' \/ snap[f] = "absent"
      BY <1>5, <2>5, <3>1 DEF PresentScan, StillRemoval, Works
    <3>. QED
      BY <1>2, <1>3, <2>5, <3>2 DEF Seen
  <2>. QED
    BY <1>1, <2>2, <2>3, <2>4, <2>5
<1>. QED
  BY <1>2, <1>4, <1>5, RemovalInTask

LEMMA RemovalLaterScan ==
  ASSUME IInv, RemovalInv, ended = "no", ValidScan \/ SyncScan
  PROVE  RemovalInv'
<1>1. i \in 1 .. Len(Scan) /\ Scan[i] \in FSs
  BY PlanAssumption, ChecksType DEF IInv, TypeOK, ValidScan, SyncScan
<1>2. /\ UNCHANGED <<up, home, snap, at, forced, step, said, calm, active, present>>
      /\ step # "present"
  BY <1>1, ScanMoves DEF ValidScan, SyncScan, world, data
<1>3. /\ Task' = Task /\ Target' = Target /\ LastTask' = LastTask
  BY <1>2, SameTask
<1>4. ASSUME StillRemoval PROVE Charted'
  BY <1>2, <1>4 DEF RemovalInv, Charted, Reachable
<1>5. ASSUME StillRemoval PROVE Searched'
  <2>1. Seen => Seen'
    BY <1>2, <1>3 DEF Seen, CutShort, Inactive
  <2>. QED
    BY <1>2, <1>3, <1>5, <2>1 DEF RemovalInv, Searched
<1>. QED
  BY <1>2, <1>4, <1>5, RemovalInTask

LEMMA RemovalEndScan ==
  ASSUME IInv, RemovalInv, ended = "no", EndScan
  PROVE  RemovalInv'
<1>1. /\ UNCHANGED <<at, forced, said, calm, up, home, snap, active, present>> /\ i' = 1
      /\ step' = IF step = "present" THEN AfterPresent ELSE "judge"
      /\ step \in {"present", "valid", "sync"} /\ i = Len(Scan) + 1
  BY DEF EndScan, Goto, world, data
<1>2. /\ AfterPresent \in {"judge", "sync", "valid"}
      /\ AfterPresent = "sync" => Task = "sync"
  BY DEF AfterPresent
<1>3. /\ Task' = Task /\ Target' = Target /\ LastTask' = LastTask
  BY <1>1, SameTask
<1>4. ASSUME StillRemoval PROVE Charted'
  BY <1>1, <1>2, <1>4 DEF RemovalInv, Charted, Reachable
<1>5. ASSUME StillRemoval PROVE Searched'
  <2>1. Seen => Seen'
    BY <1>1, <1>3 DEF Seen, CutShort, Inactive
  <2>. SUFFICES ASSUME Task = "snapshot", at <= LastTask PROVE Seen
    BY <1>1, <1>2, <1>3, <2>1 DEF Searched
  <2>2. Searched
    BY <1>5 DEF RemovalInv
  <2>3. CASE step = "present"
    <3>1. at - Len(Checks) \in 1 .. Len(Scan) /\ Target = Scan[at - Len(Checks)]
      BY TargetType DEF IInv, TypeOK
    <3>2. at - Len(Checks) < i
      BY <1>1, <3>1, ChecksType
    <3>. QED
      BY <2>2, <2>3, <3>1, <3>2 DEF Searched
  <2>4. CASE step = "valid"
    BY <2>2, <2>4 DEF Searched
  <2>5. CASE step = "sync"
    BY <2>5 DEF IInv, InPlan
  <2>. QED
    BY <1>1, <2>3, <2>4, <2>5
<1>. QED
  BY <1>1, <1>4, <1>5, RemovalInTask

\* The next task begins, with the data of this one or with none.
LEMMA RemovalNextTask ==
  ASSUME IInv, RemovalInv, ended = "no", NextTask, UNCHANGED <<up, home>>,
         \A f \in FSs : snap[f] = "absent" => snap'[f] = "absent",
         \A f \in FSs : said'[f] # said[f] => Task = "snapshot" /\ f = Target,
         StillRemoval /\ Task = "snapshot" =>
            /\ said'[Target] = "inactive" \/ home[VgOf[Target]] \in Reachable
            /\ \/ snap'[Target] = "absent" \/ said'[Target] = "inactive"
               \/ \E j, k \in 1 .. Len(Scan) :
                     j < k /\ Scan[k] = Target /\ home[VgOf[Scan[j]]] \notin Reachable
  PROVE  RemovalInv'
<1>. SUFFICES ASSUME StillRemoval' PROVE Charted' /\ Reported' /\ Searched' /\ Cleared'
  BY DEF RemovalInv
<1>1. /\ UNCHANGED <<forced, calm>> /\ at' = at + 1 /\ step' = "query" /\ Checks' = Checks
      /\ active' = active \/ active' = [v \in VGs |-> NoNode]
  BY DEF NextTask, Blank, Checks
<1>2. StillRemoval /\ Charted /\ Reported /\ Cleared
  BY <1>1 DEF RemovalInv, StillRemoval
<1>3. at \in Nat \ {0} /\ at <= LastTask
  BY DEF IInv, TypeOK, InPlan
<1>4. Charted' /\ Searched'
  BY <1>1, <1>2 DEF Charted, Reachable, Searched
<1>5. ASSUME NEW k \in 1 .. Len(Scan), k + Len(Checks) < at
      PROVE  said'[Scan[k]] = said[Scan[k]]
  <2>1. Scan[k] \in FSs
    BY PlanAssumption, ChecksType
  <2>2. ASSUME Task = "snapshot" PROVE Scan[k] # Target
    <3>1. at - Len(Checks) \in 1 .. Len(Scan) /\ Target = Scan[at - Len(Checks)]
      BY <1>3, <2>2, TargetType
    <3>2. at - Len(Checks) # k
      BY <1>3, <1>5, ChecksType
    <3>. QED
      BY <3>1, <3>2, PlanAssumption
  <2>. QED
    BY <2>1, <2>2
<1>6. ASSUME NEW k \in 1 .. Len(Scan), k + Len(Checks) < at + 1, ~(k + Len(Checks) < at)
      PROVE  Task = "snapshot" /\ Target = Scan[k] /\ k = at - Len(Checks)
  <2>1. k = at - Len(Checks) /\ at > Len(Checks)
    BY <1>3, <1>6, ChecksType
  <2>. QED
    BY <1>3, <2>1, TaskKinds DEF Target
<1>7. Reported'
  <2>. SUFFICES ASSUME NEW k \in 1 .. Len(Scan), k + Len(Checks) < at + 1
                PROVE  said'[Scan[k]] = "inactive" \/ home[VgOf[Scan[k]]] \in Reachable
    BY <1>1 DEF Reported, Reachable
  <2>. QED
    BY <1>2, <1>5, <1>6 DEF Reported
<1>8. Cleared'
  <2>. SUFFICES ASSUME NEW k \in 1 .. Len(Scan), k + Len(Checks) < at + 1
                PROVE  LeftBehind(k)'
    BY <1>1 DEF Cleared
  <2>1. CASE k + Len(Checks) < at
    <3>1. LeftBehind(k) /\ Scan[k] \in FSs
      BY <1>2, <2>1, PlanAssumption, ChecksType DEF Cleared
    <3>2. \A j \in 1 .. k : said'[Scan[j]] = said[Scan[j]]
      BY <1>3, <1>5, <2>1, ChecksType
    <3>. QED
      BY <3>1, <3>2 DEF LeftBehind
  <2>2. CASE ~(k + Len(Checks) < at)
    <3>1. Task = "snapshot" /\ Target = Scan[k]
      BY <1>6, <2>2
    <3>2. CASE snap'[Target] = "absent"
      BY <3>1, <3>2 DEF LeftBehind
    <3>3. CASE said'[Target] = "inactive"
      BY <3>1, <3>3 DEF LeftBehind
    <3>4. CASE \E j, m \in 1 .. Len(Scan) :
                  j < m /\ Scan[m] = Target /\ home[VgOf[Scan[j]]] \notin Reachable
      <4>1. PICK j \in 1 .. Len(Scan), m \in 1 .. Len(Scan) :
                  j < m /\ Scan[m] = Target /\ home[VgOf[Scan[j]]] \notin Reachable
        BY <3>4
      <4>2. m = k
        BY <3>1, <4>1, PlanAssumption
      <4>3. j + Len(Checks) < at /\ j \in 1 .. k
        BY <1>3, <1>6, <2>2, <4>1, <4>2, ChecksType
      <4>4. said'[Scan[j]] = "inactive"
        BY <1>2, <1>5, <4>1, <4>3 DEF Reported
      <4>. QED
        BY <4>3, <4>4 DEF LeftBehind
    <3>. QED
      BY <1>2, <3>1, <3>2, <3>3, <3>4
  <2>. QED
    BY <2>1, <2>2
<1>. QED
  BY <1>4, <1>7, <1>8

LEMMA RemovalCheck ==
  ASSUME IInv, RemovalInv, ended = "no", Check
  PROVE  RemovalInv'
<1>1. CASE NextTask
  BY <1>1, RemovalNextTask DEF Check, world
<1>2. CASE Fail /\ UNCHANGED data
  BY <1>2, RemovalFrame DEF Check, Fail, world, data
<1>. QED
  BY <1>1, <1>2 DEF Check

LEMMA RemovalSnapshotTask ==
  ASSUME IInv, RemovalInv, ended = "no", SnapshotTask
  PROVE  RemovalInv'
<1>1. Task = "snapshot" /\ step = "judge" /\ Target \in FSs /\ at <= LastTask
  BY TargetType DEF SnapshotTask, IInv, TypeOK, InPlan
<1>2. /\ \A f \in FSs : snap[f] = "absent" => snap'[f] = "absent"
      /\ UNCHANGED <<up, home>>
  <2>1. CASE UNCHANGED world
    BY <2>1 DEF world
  <2>2. CASE Change
    BY <1>1, <2>2, ChangeType
  <2>. QED
    BY <2>1, <2>2 DEF SnapshotTask, NothingToDo, ActOnSnapshot
<1>3. CASE Fail /\ UNCHANGED data
  BY <1>2, <1>3, RemovalFrame DEF Fail, data
<1>4. ASSUME StillRemoval
      PROVE  /\ Seen /\ VgOf[Target] \in VGs
             /\ \A j \in 1 .. Len(Scan) :
                  Inactive(Scan[j]) => home[VgOf[Scan[j]]] \notin Reachable
             /\ ~Inactive(Target) => home[VgOf[Target]] \in Reachable
  <2>1. Charted /\ Searched
    BY <1>4 DEF RemovalInv
  <2>2. VgOf[Target] \in VGs /\ \A j \in 1 .. Len(Scan) : VgOf[Scan[j]] \in VGs
    BY <1>1, PlanAssumption, ChecksType
  <2>3. NoNode \notin Reachable
    BY PlanAssumption DEF Reachable
  <2>4. Seen
    BY <1>1, <2>1 DEF Searched
  <2>. QED
    BY <1>1, <2>1, <2>2, <2>3, <2>4 DEF Charted, Inactive
<1>5. CASE Inactive(Target) /\ Report("inactive")
  <2>1. said'[Target] = "inactive" /\ \A f \in FSs : said'[f] # said[f] => f = Target
    BY <1>1, <1>5 DEF Report, IInv, TypeOK
  <2>. QED
    BY <1>1, <1>2, <1>5, <2>1, RemovalNextTask DEF Report
<1>6. CASE ~Inactive(Target) /\ Target \notin present /\ Report("absent") /\ UNCHANGED world
  <2>1. \A f \in FSs : said'[f] # said[f] => f = Target
    BY <1>6 DEF Report, IInv, TypeOK
  <2>2. ASSUME StillRemoval
        PROVE  \/ snap'[Target] = "absent"
               \/ \E j, k \in 1 .. Len(Scan) :
                     j < k /\ Scan[k] = Target /\ home[VgOf[Scan[j]]] \notin Reachable
    <3>1. snap[Target] = "absent" \/ CutShort(Target)
      BY <1>4, <1>6, <2>2 DEF Seen
    <3>. QED
      BY <1>4, <1>6, <2>2, <3>1 DEF CutShort, world
  <2>3. StillRemoval => home[VgOf[Target]] \in Reachable
    BY <1>4, <1>6
  <2>. QED
    BY <1>1, <1>2, <1>6, <2>1, <2>2, <2>3, RemovalNextTask DEF Report
<1>7. CASE ~Inactive(Target) /\ Change /\ Report("done")
  <2>1. \A f \in FSs : said'[f] # said[f] => f = Target
    BY <1>7 DEF Report, IInv, TypeOK
  <2>2. StillRemoval => snap'[Target] = "absent" /\ home[VgOf[Target]] \in Reachable
    BY <1>1, <1>4, <1>7, ChangeType DEF StillRemoval
  <2>. QED
    BY <1>1, <1>2, <1>7, <2>1, <2>2, RemovalNextTask DEF Report
<1>. QED
  BY <1>3, <1>5, <1>6, <1>7 DEF SnapshotTask, NothingToDo, ActOnSnapshot

LEMMA RemovalAround ==
  ASSUME IInv, RemovalInv, Around
  PROVE  RemovalInv'
<1>1. UNCHANGED data /\ UNCHANGED plan
  BY DEF Around
<1>2. CASE calm
  <2>1. UNCHANGED <<up, home, snap>>
    BY <1>2 DEF Around, Synchronised
  <2>. QED
    BY <1>1, <2>1, RemovalFrame DEF plan, data
<1>3. CASE ~calm
  BY <1>1, <1>3 DEF plan, RemovalInv, StillRemoval
<1>. QED
  BY <1>2, <1>3

LEMMA RemovalAgain ==
  ASSUME IInv, Again
  PROVE  RemovalInv'
<1>1. at' = 1 /\ step' = "query" /\ active' = [v \in VGs |-> NoNode]
  BY DEF Again, Blank
<1>2. Charted' /\ Searched'
  BY <1>1 DEF Charted, Searched
<1>3. Reported' /\ Cleared'
  BY <1>1, ChecksType, ChecksTypeNext DEF Reported, Cleared
<1>. QED
  BY <1>2, <1>3 DEF RemovalInv

LEMMA RemovalStep == IInv /\ RemovalInv /\ [Next]_vars => RemovalInv'
<1>. SUFFICES ASSUME IInv, RemovalInv, [Next]_vars PROVE RemovalInv'
  OBVIOUS
<1>1. CASE PlanStep
  BY <1>1, RemovalQuery, RemovalImport, RemovalPresentScan, RemovalLaterScan,
     RemovalEndScan, RemovalCheck, RemovalSnapshotTask DEF PlanStep
<1>2. CASE CallRaises
  BY <1>2, RemovalFrame DEF CallRaises, Fail, world, data
<1>3. CASE Again
  BY <1>3, RemovalAgain
<1>4. CASE Around
  BY <1>4, RemovalAround
<1>5. CASE UNCHANGED vars
  BY <1>5, RemovalFrame DEF vars, world, data, plan
<1>. QED
  BY <1>1, <1>2, <1>3, <1>4, <1>5 DEF Next

\* If the cluster keeps still, a removal that succeeds, forced or not, leaves a
\* snapshot only where it reported a group inactive, or after it in the scans.
THEOREM NothingIsLeft == Spec => []NothingLeft
<1>1. Init => RemovalInv
  <2>. SUFFICES ASSUME Init PROVE Charted /\ Reported /\ Searched /\ Cleared
    BY DEF RemovalInv
  <2>. QED
    BY ChecksType DEF Init, Charted, Reported, Searched, Cleared
<1>2. IInv /\ RemovalInv => NothingLeft
  <2>. SUFFICES ASSUME IInv, RemovalInv, StillRemoval, ended = "done",
                       NEW k \in 1 .. Len(Scan)
                PROVE  LeftBehind(k)
    BY DEF NothingLeft, StillRemoval, LeftBehind
  <2>1. k + Len(Checks) < at
    BY ChecksType DEF IInv, InPlan, LastTask
  <2>. QED
    BY <2>1 DEF RemovalInv, Cleared
<1>. QED
  BY <1>1, <1>2, RemovalStep, AlwaysIInv, PTL DEF Spec

(***************************************************************************)
(* Plans implement SnapshotPlan.                                           *)
(***************************************************************************)
\* The file systems whose tasks are to come are those without a report.
Turns == \A k \in 1 .. Len(Scan) :
           said[Scan[k]] = "nothing" <=> at <= k + Len(Checks)

\* What a step reports, as far as it concerns the file systems.
InTask == UNCHANGED <<at, forced, said, ended, snap, busy>>
Stops == /\ ended = "no" /\ ended' = "failed" /\ UNCHANGED <<at, forced, said>>
         /\ UNCHANGED <<snap, busy>> \/ (Task = "snapshot" /\ Change)
Checked == /\ ended = "no" /\ Task # "snapshot" /\ NextTask
           /\ UNCHANGED <<said, snap, busy>>
Acted == ended = "no" /\ Task = "snapshot" /\ Change /\ Report("done")
Passed == /\ ended = "no" /\ Task = "snapshot" /\ UNCHANGED <<snap, busy>>
          /\ \/ Report("absent") /\ (forced \/ Action = "remove")
             \/ Report("inactive") /\ forced
Beside == /\ UNCHANGED <<at, forced, said, ended>>
          /\ (\E f \in FSs : Synchronised(f)) \/ (\E f \in FSs : Invalidate(f))

LEMMA StepKinds ==
  ASSUME IInv, [Next]_vars
  PROVE  InTask \/ Stops \/ Checked \/ Acted \/ Passed \/ Again \/ Beside
<1>1. CASE PlanStep
  <2>1. CASE Query \/ Import \/ EndScan
    BY <1>1, <2>1 DEF PlanStep, Query, Import, EndScan, Goto, Fail, world, InTask, Stops
  <2>2. CASE PresentScan \/ ValidScan \/ SyncScan
    BY <1>1, <2>2, ScanMoves
       DEF PlanStep, PresentScan, ValidScan, SyncScan, world, InTask
  <2>3. CASE Check
    BY <1>1, <2>3 DEF PlanStep, Check, Fail, world, Checked, Stops
  <2>4. CASE SnapshotTask /\ NothingToDo
    BY <1>1, <2>4 DEF PlanStep, SnapshotTask, NothingToDo, Fail, world, Passed, Stops
  <2>5. CASE SnapshotTask /\ ActOnSnapshot
    BY <1>1, <2>5 DEF PlanStep, SnapshotTask, ActOnSnapshot, Fail, world, Acted, Stops
  <2>. QED
    BY <1>1, <2>1, <2>2, <2>3, <2>4, <2>5 DEF PlanStep, SnapshotTask
<1>2. CASE CallRaises
  BY <1>2 DEF CallRaises, Fail, world, Stops
<1>3. CASE Around
  BY <1>3 DEF Around, plan, Crash, Boot, Deport, FailOver, Beside, InTask
<1>4. CASE UNCHANGED vars
  BY <1>4 DEF vars, plan, world, InTask
<1>. QED
  BY <1>1, <1>2, <1>3, <1>4 DEF Next

LEMMA TurnsStep ==
  ASSUME IInv, Turns, [Next]_vars
  PROVE  Turns'
<1>1. CASE InTask \/ Stops \/ Beside
  <2>1. UNCHANGED <<at, said>> /\ Checks' = Checks
    BY <1>1, SameTask DEF InTask, Stops, Beside
  <2>. QED
    BY <2>1 DEF Turns
<1>2. CASE Checked
  <2>1. /\ at \in Nat \ {0} /\ at <= Len(Checks) /\ at' = at + 1 /\ said' = said
        /\ Checks' = Checks
    BY <1>2, TaskKinds DEF Checked, IInv, TypeOK, NextTask, Checks
  <2>. QED
    BY <2>1, ChecksType DEF Turns
<1>3. CASE Acted \/ Passed
  <2>0. at \in Nat \ {0} /\ at <= LastTask /\ Task = "snapshot"
    BY <1>3 DEF Acted, Passed, IInv, TypeOK, InPlan
  <2>1. /\ at - Len(Checks) \in 1 .. Len(Scan) /\ Target \in FSs
        /\ Target = Scan[at - Len(Checks)]
    BY <2>0, TargetType
  <2>2. PICK o \in {"done", "absent", "inactive"} :
          said' = [said EXCEPT ![Target] = o] /\ at' = at + 1 /\ Checks' = Checks
    BY <1>3 DEF Acted, Passed, Report, NextTask, Checks
  <2>3. ASSUME NEW k \in 1 .. Len(Scan)
        PROVE  said'[Scan[k]] = "nothing" <=> at' <= k + Len(Checks')
    <3>1. Scan[k] \in FSs /\ (Scan[k] = Target <=> k = at - Len(Checks))
      <4>1. Scan[k] \in FSs
        BY PlanAssumption, ChecksType
      <4>2. Scan[k] = Scan[at - Len(Checks)] => k = at - Len(Checks)
        BY <2>1, PlanAssumption
      <4>. QED
        BY <2>1, <4>1, <4>2
    <3>2. said[Scan[k]] = "nothing" <=> at <= k + Len(Checks)
      BY DEF Turns
    <3>3. CASE Scan[k] = Target
      BY <2>0, <2>2, <3>1, <3>3, ChecksType DEF IInv, TypeOK
    <3>4. CASE Scan[k] # Target
      <4>1. said'[Scan[k]] = said[Scan[k]]
        BY <2>2, <3>1, <3>4 DEF IInv, TypeOK
      <4>2. k # at - Len(Checks)
        BY <3>1, <3>4
      <4>. QED
        BY <2>0, <2>2, <3>2, <4>1, <4>2, ChecksType
    <3>. QED
      BY <3>3, <3>4
  <2>. QED
    BY <2>3 DEF Turns
<1>4. CASE Again
  <2>1. \A k \in 1 .. Len(Scan) : Scan[k] \in FSs
    BY PlanAssumption, ChecksType
  <2>. QED
    BY <1>4, <2>1, ChecksType, ChecksTypeNext DEF Again, Turns
<1>. QED
  BY <1>1, <1>2, <1>3, <1>4, StepKinds

LEMMA AlwaysTurns == Spec => [](IInv /\ Turns)
<1>1. Init => Turns
  <2>1. \A k \in 1 .. Len(Scan) : Scan[k] \in FSs
    BY PlanAssumption, ChecksType
  <2>. QED
    BY <2>1, ChecksType DEF Init, Turns
<1>2. IInv /\ Turns /\ [Next]_vars => Turns'
  BY TurnsStep
<1>. QED
  BY <1>1, <1>2, AlwaysIInv, PTL DEF Spec

\* The task that runs is the one of the first file system that waits.
LEMMA TargetsTurn ==
  ASSUME IInv, Turns, ended = "no", Task = "snapshot"
  PROVE  /\ Target \in FSs /\ Ordered!Turn(Target)
         /\ at = LastTask => Waiting = {Target}
<1>1. at \in Nat \ {0} /\ at <= LastTask
  BY DEF IInv, TypeOK, InPlan
<1>2. /\ at - Len(Checks) \in 1 .. Len(Scan) /\ Target \in FSs
      /\ Target = Scan[at - Len(Checks)]
  BY <1>1, TargetType
<1>3. said[Target] = "nothing"
  BY <1>1, <1>2, ChecksType DEF Turns
<1>4. \A y \in Waiting : <<y, Target>> \notin Earlier
  <2>. SUFFICES ASSUME NEW j \in 1 .. Len(Scan), NEW k \in 1 .. Len(Scan), j < k,
                       Scan[j] \in Waiting, Scan[k] = Target
                PROVE  FALSE
    BY DEF Earlier
  <2>1. k = at - Len(Checks)
    BY <1>2, PlanAssumption
  <2>2. at <= j + Len(Checks)
    BY DEF Turns, Waiting
  <2>. QED
    BY <1>1, <2>1, <2>2, ChecksType
<1>5. ASSUME at = LastTask PROVE Waiting = {Target}
  <2>1. ASSUME NEW f \in Waiting PROVE f = Target
    <3>1. PICK k \in 1 .. Len(Scan) : Scan[k] = f
      BY PlanAssumption DEF Waiting
    <3>2. at <= k + Len(Checks)
      BY <3>1 DEF Turns, Waiting
    <3>3. k = at - Len(Checks)
      BY <1>1, <1>5, <3>2, ChecksType DEF LastTask
    <3>. QED
      BY <1>2, <3>1, <3>3
  <2>. QED
    BY <1>2, <1>3, <2>1 DEF Waiting
<1>. QED
  BY <1>2, <1>3, <1>4, <1>5 DEF Ordered!Turn, Waiting

\* The agent's action is the effect that the plan demands.
LEMMA ChangeEffect ==
  ASSUME IInv, Target \in FSs, Change
  PROVE  Ordered!Effect(Target)
<1>1. CASE Action = "remove"
  <2>1. snap' = [snap EXCEPT ![Target] = "absent"] /\ busy' = busy
    BY <1>1 DEF Change
  <2>2. Kept' = [Kept EXCEPT ![Target] = "none"]
    BY <2>1 DEF Kept, IInv, TypeOK
  <2>3. "none" \in Ordered!Goal(Kept[Target])
    BY <1>1 DEF Ordered!Goal
  <2>. QED
    BY <2>2, <2>3 DEF Ordered!Effect
<1>2. CASE Action = "restore"
  <2>1. snap' = snap /\ busy' = busy \cup {Target} /\ snap[Target] # "absent"
    BY <1>2 DEF Change
  <2>2. Kept' = [Kept EXCEPT ![Target] = "spent"] /\ Kept[Target] \in {"kept", "spent"}
    BY <2>1 DEF Kept, IInv, TypeOK
  <2>3. "spent" \in Ordered!Goal(Kept[Target])
    BY <1>2, <2>2 DEF Ordered!Goal
  <2>. QED
    BY <2>2, <2>3 DEF Ordered!Effect
<1>. QED
  BY <1>1, <1>2, PlanAssumption

\* A task that ends takes its file system from those that wait.
LEMMA ReportGoes ==
  ASSUME IInv, Turns, ended = "no", Task = "snapshot",
         NEW o \in {"done", "absent", "inactive"}, Report(o)
  PROVE  Ordered!Go(Target)
<1>1. Target \in FSs /\ (at = LastTask => Waiting = {Target})
  BY TargetsTurn
<1>2. /\ said' = [said EXCEPT ![Target] = o] /\ forced' = forced
      /\ ended' = IF at = LastTask THEN "done" ELSE "no"
  BY DEF Report, NextTask
<1>3. Waiting' = Waiting \ {Target}
  BY <1>1, <1>2 DEF Waiting, IInv, TypeOK
<1>. QED
  BY <1>1, <1>2, <1>3 DEF Ordered!Go

LEMMA AbstractStep ==
  ASSUME IInv, Turns, [Next]_vars
  PROVE  [Ordered!Next]_(Ordered!vars)
<1>. USE DEF Ordered!Next, Ordered!vars
<1>0. UNCHANGED <<snap, busy>> => Kept' = Kept
  BY DEF Kept
<1>1. CASE InTask
  BY <1>0, <1>1 DEF InTask, Waiting
<1>2. CASE Stops
  <2>1. ended = "no" /\ ended' = "failed" /\ Waiting' = {} /\ forced' = forced
    BY <1>2 DEF Stops, Waiting
  <2>2. CASE UNCHANGED <<snap, busy>>
    BY <1>0, <2>1, <2>2 DEF Ordered!Break
  <2>3. CASE Task = "snapshot" /\ Change
    BY <2>1, <2>3, TargetsTurn, ChangeEffect DEF Ordered!Break
  <2>. QED
    BY <1>2, <2>2, <2>3 DEF Stops
<1>3. CASE Checked
  <2>1. at \in Nat \ {0} /\ at <= Len(Checks) /\ said' = said /\ Kept' = Kept
    BY <1>0, <1>3, TaskKinds DEF Checked, IInv, TypeOK
  <2>2. /\ ended = "no" /\ ended' = IF at = LastTask THEN "done" ELSE "no"
        /\ forced' = forced
    BY <1>3 DEF Checked, NextTask
  <2>3. CASE at # LastTask
    BY <2>1, <2>2, <2>3 DEF Waiting
  <2>4. CASE at = LastTask
    <3>1. FSs = {}
      BY <2>1, <2>4, PlanAssumption, ChecksType DEF LastTask
    <3>. QED
      BY <2>1, <2>2, <2>4, <3>1 DEF Ordered!Finish, Waiting
  <2>. QED
    BY <2>3, <2>4
<1>4. CASE Acted
  <2>1. Target \in FSs /\ Ordered!Turn(Target) /\ Ordered!Effect(Target) /\ Ordered!Go(Target)
    BY <1>4, TargetsTurn, ChangeEffect, ReportGoes DEF Acted
  <2>. QED
    BY <2>1 DEF Ordered!Act
<1>5. CASE Passed
  <2>1. Target \in FSs /\ Ordered!Turn(Target) /\ Ordered!Go(Target) /\ Kept' = Kept
    BY <1>0, <1>5, TargetsTurn, ReportGoes DEF Passed
  <2>2. forced \/ Action = "remove"
    BY <1>5 DEF Passed
  <2>3. <<Action, IF forced THEN "forced" ELSE "careful">>
          \in {<<"remove", "careful">>, <<"remove", "forced">>, <<"restore", "forced">>}
    BY <2>2, PlanAssumption
  <2>. QED
    BY <2>1, <2>3 DEF Ordered!PassOver
<1>6. CASE Again
  <2>1. /\ ended # "no" /\ ended' = "no" /\ said' = [f \in FSs |-> "nothing"]
        /\ Kept' = Kept
    BY <1>0, <1>6 DEF Again, world
  <2>2. Waiting' = FSs
    BY <2>1 DEF Waiting
  <2>. QED
    BY <2>1, <2>2, PlanAssumption DEF Ordered!Begin
<1>7. CASE Beside
  <2>1. UNCHANGED <<said, ended>> /\ Waiting' = Waiting
    BY <1>7 DEF Beside, Waiting
  <2>2. ASSUME NEW f \in FSs, Synchronised(f)
        PROVE  Kept' = Kept \/ Ordered!Settle(f)
    BY <2>2 DEF Synchronised, Kept, Ordered!Settle, IInv, TypeOK
  <2>3. ASSUME NEW f \in FSs, Invalidate(f) PROVE Kept' = Kept
    BY <2>3 DEF Invalidate, Kept, IInv, TypeOK
  <2>. QED
    BY <1>7, <2>1, <2>2, <2>3 DEF Beside, Ordered!Around
<1>. QED
  BY <1>1, <1>2, <1>3, <1>4, <1>5, <1>6, <1>7, StepKinds

\* Removals and restores of VxVM snapshots are plans as SnapshotPlan describes
\* them: one task for each file system, in order, which changes it alone, and a
\* success after all of them.
THEOREM VxPlansAreOrdered == Spec => ImplementsPlan
<1>1. Init => Ordered!Init
  <2>. SUFFICES ASSUME Init PROVE Ordered!Init
    OBVIOUS
  <2>1. Kept \in [FSs -> {"none", "kept", "spent"}]
    BY DEF Kept
  <2>2. Waiting = FSs /\ ended = "no"
    BY DEF Init, Waiting
  <2>. QED
    BY <2>1, <2>2, PlanAssumption DEF Ordered!Init
<1>2. IInv /\ Turns /\ [Next]_vars => [Ordered!Next]_(Ordered!vars)
  BY AbstractStep
<1>. QED
  BY <1>1, <1>2, AlwaysTurns, PTL DEF Spec, ImplementsPlan, Ordered!Spec

(***************************************************************************)
(* What follows for plans that are forced, and for those that are not.     *)
(***************************************************************************)
\* Without force a restore whose check of validity passed restores from valid
\* snapshots only, for any disk groups with any number of file systems each:
\* the run that shows it fail needs a forced plan.
THEOREM CarefulFromValid == Spec => [](~forced => RestoredFromValid /\ RestoredTogether)
<1>1. AllOrNothing => (~forced => RestoredFromValid /\ RestoredTogether)
  BY DEF AllOrNothing, RestoredFromValid, RestoredTogether
<1>. QED
  BY <1>1, RestoresAllOrNothing, PTL

\* A plan that succeeded, forced or not, reported something of every file
\* system, whatever order and groups the dictionaries have: no scan that ends
\* early, and no group that is skipped, takes a file system out of the plan.
THEOREM AllReported ==
    Spec => [](ended = "done" => \A f \in FSs : said[f] # "nothing")
<1>1. IInv /\ Turns => (ended = "done" => \A f \in FSs : said[f] # "nothing")
  <2>. SUFFICES ASSUME InPlan, Turns, ended = "done", NEW f \in FSs
                PROVE  said[f] # "nothing"
    BY DEF IInv
  <2>1. PICK k \in 1 .. Len(Scan) : Scan[k] = f
    BY PlanAssumption
  <2>2. at = LastTask + 1 /\ ~(at <= k + Len(Checks))
    BY <2>1, ChecksType DEF InPlan, LastTask
  <2>. QED
    BY <2>1, <2>2 DEF Turns
<1>. QED
  BY <1>1, AlwaysTurns, PTL

(***************************************************************************)
(* A plan takes finitely many steps.                                       *)
(***************************************************************************)
\* The calls of a task, in the order in which it makes them.
Order == [query |-> 1, import |-> 2, requery |-> 3, present |-> 4,
          valid |-> 5, sync |-> 6, judge |-> 7]

\* A plan goes on to a later task, to a later call of its task, or to a later
\* file system of a scan.
Advances == \/ at' = at + 1
            \/ at' = at /\ Order[step'] > Order[step]
            \/ at' = at /\ step' = step /\ i' \in i + 1 .. Len(Scan) + 1

\* A plan keeps the force it was created with.
LEMMA PlanStepFlag ==
  ASSUME IInv, PlanStep
  PROVE  forced' = forced
<1>1. CASE PresentScan \/ ValidScan \/ SyncScan
  BY <1>1, ScanMoves DEF PresentScan, ValidScan, SyncScan
<1>2. CASE Query \/ Import \/ EndScan \/ Check \/ SnapshotTask
  BY <1>2 DEF Query, Import, EndScan, Check, SnapshotTask, NothingToDo, ActOnSnapshot,
     Report, NextTask, Fail, Goto
<1>. QED
  BY <1>1, <1>2 DEF PlanStep

LEMMA PlanStepAdvances ==
  ASSUME IInv, PlanStep, ended' = "no"
  PROVE  Advances
<1>0. ~Fail
  BY DEF Fail
<1>1. CASE Query
  <2>1. at' = at /\ step \in {"query", "requery"} /\ step' \in {"import", AfterQuery}
        /\ (step = "requery" => step' = AfterQuery)
    BY <1>1 DEF Query, Goto
  <2>. QED
    BY <2>1 DEF AfterQuery, Advances, Order
<1>2. CASE Import
  BY <1>0, <1>2 DEF Import, Goto, Advances, Order
<1>3. CASE PresentScan \/ ValidScan \/ SyncScan
  <2>1. i <= Len(Scan) /\ (Skip \/ NextInGroup \/ NextGroup)
    BY <1>3 DEF PresentScan, ValidScan, SyncScan
  <2>. QED
    BY <2>1, ScanMoves DEF Advances
<1>4. CASE EndScan
  <2>1. /\ at' = at /\ step \in {"present", "valid", "sync"}
        /\ step' = IF step = "present" THEN AfterPresent ELSE "judge"
    BY <1>4 DEF EndScan, Goto
  <2>2. AfterPresent \in {"judge", "sync", "valid"}
    BY DEF AfterPresent
  <2>. QED
    BY <2>1, <2>2 DEF Advances, Order
<1>5. CASE Check \/ SnapshotTask
  BY <1>0, <1>5 DEF Check, SnapshotTask, NothingToDo, ActOnSnapshot, Report, NextTask, Advances
<1>. QED
  BY <1>1, <1>2, <1>3, <1>4, <1>5 DEF PlanStep

\* Every step of a plan ends it or advances it within its tasks, their calls
\* and the file systems of a scan, and nothing that the cluster does sets it
\* back: only finitely many steps are left to a plan at any time.
THEOREM PlansAdvance ==
    Spec => [][ended = "no" /\ ended' = "no" =>
                 IF PlanStep THEN Advances /\ at' <= LastTask ELSE UNCHANGED plan]_vars
<1>1. IInv /\ IInv' /\ [Next]_vars =>
        [ended = "no" /\ ended' = "no" =>
           IF PlanStep THEN Advances /\ at' <= LastTask ELSE UNCHANGED plan]_vars
  <2>. SUFFICES ASSUME IInv, IInv', Next, ended = "no", ended' = "no"
                PROVE  IF PlanStep THEN Advances /\ at' <= LastTask ELSE UNCHANGED plan
    OBVIOUS
  <2>1. CASE PlanStep
    <3>1. at' <= LastTask
      <4>1. at' <= LastTask' /\ LastTask' = Len(Checks') + Len(Scan)
        BY DEF IInv, InPlan, LastTask
      <4>2. LastTask' = LastTask
        BY <2>1, PlanStepFlag DEF LastTask, Checks
      <4>. QED
        BY <4>1, <4>2
    <3>. QED
      BY <2>1, <3>1, PlanStepAdvances
  <2>2. CASE ~PlanStep
    BY <2>2 DEF Next, CallRaises, Fail, Again, Around
  <2>. QED
    BY <2>1, <2>2
<1>. QED
  BY <1>1, AlwaysIInv, PTL DEF Spec
=============================================================================
