-------------------------- MODULE VxSnapAgentProofs --------------------------
(***************************************************************************)
(* Proofs about VxSnapAgent for every set of snapshots, every number of    *)
(* agents that run at a time and every number of retries.                  *)
(***************************************************************************)
EXTENDS VxSnapAgent, FiniteSets, FiniteSetTheorems, TLAPS

(***************************************************************************)
(* The invariant that holds however tasks and agents overlap.              *)
(***************************************************************************)
TaskType == /\ job \in {"none", "create", "remove"}
            /\ target \in Snaps
            /\ stage \in {"none", "check", "wait"}
            /\ callee \in Agents \cup {NoAgent}
            /\ calls \in 0 .. MaxCalls
            /\ told \in [Snaps -> {"nothing", "asked", "created", "removed",
                                   "skipped", "unseen", "failed"}]
            /\ pc \in [Agents -> CreateSteps \cup DeleteSteps \cup {"idle"}]
            /\ on \in [Agents -> Snaps]
            /\ stale \subseteq Agents

RecordType == /\ cv \subseteq Snaps
              /\ co \in [Snaps -> {"absent", "stopped", "started"}]
              /\ sp \in [Snaps -> {"absent", "linked", "loose"}]

IInv == TaskType /\ RecordType /\ Asked /\ Backed

LEMMA InitIInv == Init => IInv
<1>. SUFFICES ASSUME Init PROVE IInv
  OBVIOUS
<1>1. TaskType /\ RecordType
  BY SnapAssumption DEF Init, TaskType, RecordType
<1>2. Asked
  BY SnapAssumption DEF Init, Asked
<1>3. Backed
  BY DEF Init, Backed
<1>. QED
  BY <1>1, <1>2, <1>3 DEF IInv

(***************************************************************************)
(* What the three ways to change the task do to its part of the invariant. *)
(***************************************************************************)
LEMMA BeginKeeps ==
  ASSUME TaskType, Asked, NEW s \in Snaps, NEW kind \in {"create", "remove"},
         Begin(s, kind)
  PROVE  TaskType' /\ Asked' /\ UNCHANGED records
  BY SnapAssumption DEF TaskType, Asked, Begin, records

LEMMA EndTaskKeeps ==
  ASSUME TaskType, Asked, UNCHANGED on, stale' \subseteq Agents,
         NEW outcome \in {"created", "removed", "skipped", "unseen", "failed"},
         pc' \in [Agents -> CreateSteps \cup DeleteSteps \cup {"idle"}],
         EndTask(outcome)
  PROVE  TaskType' /\ Asked'
  BY SnapAssumption DEF TaskType, Asked, EndTask

LEMMA CallKeeps ==
  ASSUME TaskType, Asked, NEW command \in {"mkvol", "dis"}, Call(command),
         calls < MaxCalls, job # "none", UNCHANGED stale
  PROVE  TaskType' /\ Asked'
<1>1. PICK a \in Agents :
        /\ pc' = [pc EXCEPT ![a] = command]
        /\ on' = [on EXCEPT ![a] = target]
        /\ stage' = "wait" /\ callee' = a /\ calls' = calls + 1
        /\ UNCHANGED <<job, target, told>>
  BY DEF Call
<1>2. command \in CreateSteps \cup DeleteSteps
  BY DEF CreateSteps, DeleteSteps
<1>3. TaskType'
  BY <1>1, <1>2, SnapAssumption DEF TaskType
<1>4. Asked'
  BY <1>1, SnapAssumption DEF TaskType, Asked
<1>. QED
  BY <1>3, <1>4

LEMMA ReplyKeeps ==
  ASSUME TaskType, Asked, NEW a \in Agents,
         NEW outcome \in {"created", "removed", "failed"}, Reply(a, outcome)
  PROVE  TaskType' /\ Asked'
<1>1. /\ pc' \in [Agents -> CreateSteps \cup DeleteSteps \cup {"idle"}]
      /\ UNCHANGED on /\ stale' \subseteq Agents
  BY DEF Reply, TaskType
<1>2. CASE stage = "wait" /\ callee = a
  BY <1>1, <1>2, EndTaskKeeps DEF Reply
<1>3. CASE ~(stage = "wait" /\ callee = a)
  BY <1>1, <1>3 DEF Reply, TaskType, Asked, task
<1>. QED
  BY <1>2, <1>3

LEMMA GotoKeeps ==
  ASSUME TaskType, Asked, NEW a \in Agents,
         NEW command \in CreateSteps \cup DeleteSteps, Goto(a, command)
  PROVE  TaskType' /\ Asked'
  BY DEF TaskType, Asked, Goto, task

(***************************************************************************)
(* A task's own steps, and the commands of an agent.                       *)
(***************************************************************************)
LEMMA TaskStepKeeps == IInv /\ TaskStep => IInv'
<1>. SUFFICES ASSUME IInv, TaskStep PROVE IInv'
  OBVIOUS
<1>. USE DEF IInv
<1>0. ASSUME UNCHANGED records, TaskType', Asked' PROVE IInv'
  BY <1>0 DEF records, RecordType, Backed
<1>s. UNCHANGED stale
  BY DEF TaskStep
<1>a. ASSUME NEW outcome \in {"skipped", "unseen", "failed"}, EndTask(outcome),
             UNCHANGED <<records, pc, on>>
      PROVE  IInv'
  BY <1>a, <1>0, <1>s, EndTaskKeeps DEF TaskType
<1>1. CASE CreateCalls
  <2>1. CASE Call("mkvol")
    <3>1. calls < MaxCalls /\ job # "none"
      BY <1>1, SnapAssumption DEF CreateCalls, Asked
    <3>. QED
      BY <1>1, <2>1, <3>1, <1>0, <1>s, CallKeeps DEF CreateCalls
  <2>2. CASE EndTask("failed") /\ UNCHANGED <<pc, on>>
    BY <1>1, <2>2, <1>a DEF CreateCalls
  <2>. QED
    BY <1>1, <2>1, <2>2 DEF CreateCalls
<1>2. CASE RemoveSeen
  <2>1. calls < MaxCalls /\ job # "none"
    BY <1>2, SnapAssumption DEF RemoveSeen, Asked
  <2>. QED
    BY <1>2, <2>1, <1>0, <1>s, CallKeeps DEF RemoveSeen
<1>3. CASE RemoveSkips
  BY <1>3, <1>a DEF RemoveSkips
<1>4. CASE RemoveUnanswered
  BY <1>4, <1>a DEF RemoveUnanswered
<1>5. CASE Timeout
  <2>1. CASE job = "remove" /\ calls < MaxCalls
    BY <1>5, <2>1, <1>0, <1>s, CallKeeps DEF Timeout
  <2>2. CASE ~(job = "remove" /\ calls < MaxCalls)
    BY <1>5, <2>2, <1>a DEF Timeout
  <2>. QED
    BY <2>1, <2>2
<1>. QED
  BY <1>1, <1>2, <1>3, <1>4, <1>5 DEF TaskStep

LEMMA AgentStepKeeps ==
  ASSUME IInv, NEW a \in Agents, AgentStep(a)
  PROVE  IInv'
<1>. USE DEF IInv
<1>a. ASSUME RecordType', Backed', NEW command \in CreateSteps \cup DeleteSteps,
             Goto(a, command)
      PROVE  IInv'
  BY <1>a, GotoKeeps
<1>b. ASSUME RecordType', Backed', NEW outcome \in {"created", "removed", "failed"},
             Reply(a, outcome)
      PROVE  IInv'
  BY <1>b, ReplyKeeps
<1>c. UNCHANGED records => RecordType' /\ Backed'
  BY DEF records, RecordType, Backed
<1>d. on[a] \in Snaps
  BY DEF TaskType
<1>e. CreateSteps \cup DeleteSteps = {"mkvol", "mkcache", "devopen", "remake",
          "start", "make", "dis", "rmsnap", "stop", "rmcache"}
  BY DEF CreateSteps, DeleteSteps
<1>1. CASE MakeCacheVolume(a)
  <2>1. RecordType' /\ Backed'
    BY <1>1, <1>c, <1>d DEF MakeCacheVolume, RecordType, Backed
  <2>. QED
    BY <1>1, <2>1, <1>a, <1>b, <1>e DEF MakeCacheVolume
<1>2. CASE MakeCacheObject(a)
  <2>1. RecordType' /\ Backed'
    BY <1>2, <1>c, <1>d DEF MakeCacheObject, RecordType, Backed
  <2>. QED
    BY <1>2, <2>1, <1>a, <1>b, <1>e DEF MakeCacheObject
<1>3. CASE PollDevopen(a)
  BY <1>3, <1>a, <1>b, <1>c, <1>e DEF PollDevopen
<1>4. CASE StartCache(a)
  <2>1. RecordType' /\ Backed'
    BY <1>4, <1>c, <1>d DEF StartCache, RecordType, Backed
  <2>. QED
    BY <1>4, <2>1, <1>a, <1>b, <1>e DEF StartCache
<1>5. CASE MakeSnapshot(a)
  <2>1. RecordType' /\ Backed'
    BY <1>5, <1>c, <1>d DEF MakeSnapshot, RecordType, Backed
  <2>. QED
    BY <1>5, <2>1, <1>b DEF MakeSnapshot
<1>6. CASE Dissociate(a)
  <2>1. RecordType' /\ Backed'
    BY <1>6, <1>c, <1>d DEF Dissociate, RecordType, Backed
  <2>. QED
    BY <1>6, <2>1, <1>a, <1>b, <1>e DEF Dissociate
<1>7. CASE RemoveVolume(a)
  <2>1. RecordType' /\ Backed'
    BY <1>7, <1>c, <1>d DEF RemoveVolume, RecordType, Backed
  <2>. QED
    BY <1>7, <2>1, <1>a, <1>b, <1>e DEF RemoveVolume
<1>8. CASE StopCache(a)
  <2>1. RecordType' /\ Backed'
    BY <1>8, <1>c, <1>d DEF StopCache, RecordType, Backed
  <2>. QED
    BY <1>8, <2>1, <1>a, <1>b, <1>e DEF StopCache
<1>9. CASE RemoveCache(a)
  <2>1. RecordType' /\ Backed'
    BY <1>9, <1>c, <1>d DEF RemoveCache, RecordType, Backed
  <2>. QED
    BY <1>9, <2>1, <1>b DEF RemoveCache
<1>. QED
  BY <1>1, <1>2, <1>3, <1>4, <1>5, <1>6, <1>7, <1>8, <1>9 DEF AgentStep

LEMMA NextIInv == IInv /\ [Next]_vars => IInv'
<1>. SUFFICES ASSUME IInv, [Next]_vars PROVE IInv'
  OBVIOUS
<1>1. ASSUME NEW s \in Planned, CreateTask(s) \/ RemoveTask(s) PROVE IInv'
  BY <1>1, SnapAssumption, BeginKeeps
     DEF CreateTask, RemoveTask, IInv, records, RecordType, Backed
<1>2. CASE TaskStep
  BY <1>2, TaskStepKeeps
<1>3. ASSUME NEW a \in Agents, AgentStep(a) PROVE IInv'
  BY <1>3, AgentStepKeeps
<1>4. ASSUME NEW a \in Agents, AgentStops(a) PROVE IInv'
  BY <1>4 DEF AgentStops, IInv, TaskType, RecordType, Asked, Backed, records, task
<1>5. CASE UNCHANGED vars
  BY <1>5 DEF vars, IInv, TaskType, RecordType, Asked, Backed, records, task
<1>. QED
  BY <1>1, <1>2, <1>3, <1>4, <1>5 DEF Next

(***************************************************************************)
(* Type correctness of the records, agents and tasks, and that at all      *)
(* times a snapshot volume stands on a started cache and a cache object on *)
(* its volume, even while stale agents of earlier tasks are running.       *)
(***************************************************************************)
THEOREM TypeCorrect == Spec => []TypeOK
<1>1. IInv => TypeOK
  BY DEF IInv, TaskType, RecordType, TypeOK
<1>. QED
  BY <1>1, InitIInv, NextIInv, PTL DEF Spec
(***************************************************************************)
(* The agents and tasks implement SnapLifecycle.                           *)
(***************************************************************************)
\* Records of other snapshots stay, so the phase changes in one place only.
LEMMA PhaseElsewhere ==
  ASSUME NEW s \in Snaps,
         \A t \in Snaps \ {s} : /\ (t \in cv') <=> (t \in cv)
                                /\ co'[t] = co[t] /\ sp'[t] = sp[t]
  PROVE  phase' = [phase EXCEPT ![s] = phase'[s]]
<1>1. \A t \in Snaps \ {s} : phase'[t] = phase[t]
  BY DEF phase, Full, Gone
<1>. QED
  BY <1>1 DEF phase

\* The answer of an agent reaches the plan only if it still waits for it, and
\* then the agent worked on the snapshot of the task.
LEMMA ReplyTells ==
  ASSUME TaskType, Asked, NEW a \in Agents,
         NEW outcome \in {"created", "removed", "failed"}, Reply(a, outcome)
  PROVE  \/ told' = told
         \/ told[on[a]] = "asked" /\ told' = [told EXCEPT ![on[a]] = outcome]
  BY DEF TaskType, Asked, Reply, EndTask

\* A command leaves the phase of its snapshot, or moves it by one stage.
AbstractStep == \E s \in Snaps : \/ Lifecycle!Progress(s)
                                 \/ Lifecycle!Settle(s, "failed")
                                 \/ Lifecycle!Created(s)
                                 \/ Lifecycle!Removed(s)

LEMMA FailedAnswer ==
  ASSUME TaskType, Asked, NEW a \in Agents, Reply(a, "failed"), UNCHANGED records
  PROVE  AbstractStep \/ UNCHANGED <<phase, told>>
<1>1. on[a] \in Snaps
  BY DEF TaskType
<1>2. phase' = phase
  BY DEF phase, Full, Gone, records
<1>. QED
  BY <1>1, <1>2, ReplyTells DEF AbstractStep, Lifecycle!Settle

LEMMA AgentStepAbstract ==
  ASSUME IInv, IInv', NEW a \in Agents, AgentStep(a)
  PROVE  AbstractStep \/ UNCHANGED <<phase, told>>
<1>. DEFINE s == on[a]
<1>. DEFINE OthersKept == \A t \in Snaps \ {s} : /\ (t \in cv') <=> (t \in cv)
                                                 /\ co'[t] = co[t] /\ sp'[t] = sp[t]
<1>. USE DEF IInv
<1>1. s \in Snaps
  BY DEF TaskType
<1>2. /\ phase \in [Snaps -> {"none", "partial", "full"}]
      /\ phase'[s] \in {"none", "partial", "full"}
  BY <1>1 DEF phase
<1>a. ASSUME told' = told, OthersKept,
             phase[s] = "partial" \/ phase'[s] = "partial" \/ phase'[s] = phase[s]
      PROVE  AbstractStep \/ UNCHANGED <<phase, told>>
  <2>1. phase' = [phase EXCEPT ![s] = phase'[s]]
    BY <1>a, <1>1, PhaseElsewhere
  <2>2. CASE phase'[s] = phase[s]
    BY <1>a, <1>2, <2>1, <2>2
  <2>3. CASE phase'[s] # phase[s]
    <3>1. <<phase[s], phase'[s]>> \in Lifecycle!Adjacent
      BY <1>a, <1>1, <1>2, <2>3 DEF Lifecycle!Adjacent
    <3>2. Lifecycle!Progress(s)
      BY <1>a, <1>2, <2>1, <3>1 DEF Lifecycle!Progress, Lifecycle!Phases
    <3>. QED
      BY <1>1, <3>2 DEF AbstractStep
  <2>. QED
    BY <2>2, <2>3
<1>b. ASSUME NEW command, Goto(a, command), UNCHANGED records
      PROVE  UNCHANGED <<phase, told>>
  BY <1>b DEF phase, Full, Gone, records, Goto
<1>3. CASE MakeCacheVolume(a)
  <2>1. ASSUME cv' = cv \cup {s}, UNCHANGED <<co, sp>>, Goto(a, "mkcache")
        PROVE  AbstractStep \/ UNCHANGED <<phase, told>>
    <3>1. phase[s] = "partial" \/ phase'[s] = "partial" \/ phase'[s] = phase[s]
      BY <2>1, <1>1 DEF phase, Full, Gone, RecordType, Backed
    <3>. QED
      BY <2>1, <3>1, <1>a DEF Goto
  <2>. QED
    BY <1>3, <2>1, FailedAnswer DEF MakeCacheVolume
<1>4. CASE MakeCacheObject(a)
  <2>1. ASSUME s \in cv, UNCHANGED <<cv, sp>>, Goto(a, "start"),
               co' = [co EXCEPT ![s] = IF @ = "absent" THEN "stopped" ELSE @]
        PROVE  AbstractStep \/ UNCHANGED <<phase, told>>
    <3>1. phase[s] = "partial" \/ phase'[s] = "partial" \/ phase'[s] = phase[s]
      BY <2>1, <1>1 DEF phase, Full, Gone, RecordType, Backed
    <3>. QED
      BY <2>1, <3>1, <1>1, <1>a DEF Goto, RecordType
  <2>. QED
    BY <1>4, <2>1, <1>b, FailedAnswer DEF MakeCacheObject
<1>5. CASE PollDevopen(a)
  BY <1>5, <1>b, FailedAnswer DEF PollDevopen
<1>6. CASE StartCache(a)
  <2>1. ASSUME co[s] # "absent", UNCHANGED <<cv, sp>>, Goto(a, "make"),
               co' = [co EXCEPT ![s] = "started"]
        PROVE  AbstractStep \/ UNCHANGED <<phase, told>>
    <3>1. phase[s] = "partial" \/ phase'[s] = "partial" \/ phase'[s] = phase[s]
      BY <2>1, <1>1 DEF phase, Full, Gone, RecordType, Backed
    <3>. QED
      BY <2>1, <3>1, <1>1, <1>a DEF Goto, RecordType
  <2>. QED
    BY <1>6, <2>1, FailedAnswer DEF StartCache
<1>7. CASE MakeSnapshot(a)
  <2>1. ASSUME co[s] = "started", sp[s] = "absent", UNCHANGED <<cv, co>>,
               sp' = [sp EXCEPT ![s] = "linked"], Reply(a, "created")
        PROVE  AbstractStep \/ UNCHANGED <<phase, told>>
    <3>1. phase[s] = "partial" /\ phase'[s] = "full"
      BY <2>1, <1>1 DEF phase, Full, Gone, RecordType, Backed
    <3>2. OthersKept
      BY <2>1, <1>1 DEF RecordType
    <3>3. phase' = [phase EXCEPT ![s] = "full"]
      BY <3>1, <3>2, <1>1, PhaseElsewhere
    <3>4. CASE told' = told
      BY <3>1, <3>2, <3>4, <1>a
    <3>5. CASE told[s] = "asked" /\ told' = [told EXCEPT ![s] = "created"]
      BY <3>1, <3>3, <3>5, <1>1 DEF AbstractStep, Lifecycle!Created
    <3>. QED
      BY <2>1, <3>4, <3>5, ReplyTells
  <2>. QED
    BY <1>7, <2>1, FailedAnswer DEF MakeSnapshot
<1>8. CASE Dissociate(a)
  <2>1. ASSUME UNCHANGED <<cv, co>>, Goto(a, "rmsnap"),
               sp' = [sp EXCEPT ![s] = IF @ = "linked" THEN "loose" ELSE @]
        PROVE  AbstractStep \/ UNCHANGED <<phase, told>>
    <3>1. phase[s] = "partial" \/ phase'[s] = "partial" \/ phase'[s] = phase[s]
      BY <2>1, <1>1 DEF phase, Full, Gone, RecordType, Backed
    <3>. QED
      BY <2>1, <3>1, <1>1, <1>a DEF Goto, RecordType
  <2>. QED
    BY <1>8, <2>1, FailedAnswer DEF Dissociate
<1>9. CASE RemoveVolume(a)
  <2>1. ASSUME sp[s] # "linked", UNCHANGED <<cv, co>>, Goto(a, "stop"),
               sp' = [sp EXCEPT ![s] = "absent"]
        PROVE  AbstractStep \/ UNCHANGED <<phase, told>>
    <3>1. phase[s] = "partial" \/ phase'[s] = "partial" \/ phase'[s] = phase[s]
      BY <2>1, <1>1 DEF phase, Full, Gone, RecordType, Backed
    <3>. QED
      BY <2>1, <3>1, <1>1, <1>a DEF Goto, RecordType
  <2>. QED
    BY <1>9, <2>1, FailedAnswer DEF RemoveVolume
<1>10. CASE StopCache(a)
  <2>1. ASSUME sp[s] = "absent", UNCHANGED <<cv, sp>>, Goto(a, "rmcache"),
               co' = [co EXCEPT ![s] = IF @ = "started" THEN "stopped" ELSE @]
        PROVE  AbstractStep \/ UNCHANGED <<phase, told>>
    <3>1. phase[s] = "partial" \/ phase'[s] = "partial" \/ phase'[s] = phase[s]
      BY <2>1, <1>1 DEF phase, Full, Gone, RecordType, Backed
    <3>. QED
      BY <2>1, <3>1, <1>1, <1>a DEF Goto, RecordType
  <2>. QED
    BY <1>10, <2>1, FailedAnswer DEF StopCache
<1>11. CASE RemoveCache(a)
  <2>1. ASSUME co[s] # "started", UNCHANGED sp, Reply(a, "removed"),
               cv' = (IF co[s] = "absent" THEN cv ELSE cv \ {s}),
               co' = [co EXCEPT ![s] = "absent"]
        PROVE  AbstractStep \/ UNCHANGED <<phase, told>>
    <3>1. /\ phase[s] # "full"
          /\ \/ phase'[s] = phase[s]
             \/ phase[s] = "partial" /\ phase'[s] = "none"
      <4>1. CASE co[s] = "absent"
        <5>1. co' = co /\ cv' = cv /\ sp' = sp
          BY <2>1, <4>1, <1>1 DEF RecordType
        <5>2. phase' = phase
          BY <5>1 DEF phase, Full, Gone
        <5>3. phase[s] # "full"
          <6>1. ~Full(s)
            BY <4>1 DEF Full
          <6>. QED
            BY <6>1, <1>1 DEF phase
        <5>. QED
          BY <5>2, <5>3
      <4>2. CASE co[s] = "stopped"
        <5>1. sp[s] = "absent" /\ s \in cv
          BY <4>2, <1>1 DEF Backed
        <5>2. ~Full(s) /\ ~Gone(s)
          BY <4>2 DEF Full, Gone
        <5>3. co'[s] = "absent" /\ s \notin cv' /\ sp'[s] = "absent"
          BY <2>1, <4>2, <5>1, <1>1 DEF RecordType
        <5>. QED
          BY <5>2, <5>3, <1>1 DEF phase, Full, Gone
      <4>. QED
        BY <2>1, <4>1, <4>2, <1>1 DEF RecordType
    <3>2. OthersKept
      BY <2>1, <1>1 DEF RecordType
    <3>3. phase' \in {phase, [phase EXCEPT ![s] = "none"]}
      BY <3>1, <3>2, <1>1, <1>2, PhaseElsewhere
    <3>4. CASE told' = told
      BY <3>1, <3>2, <3>4, <1>a
    <3>5. CASE told[s] = "asked" /\ told' = [told EXCEPT ![s] = "removed"]
      BY <3>1, <3>3, <3>5, <1>1 DEF AbstractStep, Lifecycle!Removed
    <3>. QED
      BY <2>1, <3>4, <3>5, ReplyTells
  <2>. QED
    BY <1>11, <2>1, FailedAnswer DEF RemoveCache
<1>. QED
  BY <1>3, <1>4, <1>5, <1>6, <1>7, <1>8, <1>9, <1>10, <1>11 DEF AgentStep

LEMMA TaskStepAbstract ==
  ASSUME IInv, TaskStep
  PROVE  [Lifecycle!Next]_<<phase, told>>
<1>1. phase' = phase
  BY DEF TaskStep, CreateCalls, RemoveSeen, RemoveSkips, RemoveUnanswered, Timeout,
         records, phase, Full, Gone
<1>2. ASSUME NEW outcome \in {"failed", "skipped", "unseen"}, EndTask(outcome),
             stage # "none"
      PROVE  Lifecycle!Next
  <2>1. target \in Snaps /\ Lifecycle!Settle(target, outcome)
    BY <1>1, <1>2 DEF Lifecycle!Settle, IInv, TaskType, Asked, EndTask
  <2>. QED
    BY <2>1 DEF Lifecycle!Next
<1>3. ASSUME NEW command, Call(command) PROVE told' = told
  BY <1>3 DEF Call
<1>. QED
  BY <1>1, <1>2, <1>3 DEF TaskStep, CreateCalls, RemoveSeen, RemoveSkips,
                          RemoveUnanswered, Timeout

(***************************************************************************)
(* Whatever tasks, retries and late agents do at the same time, a plan is  *)
(* answered "created" only by the step that completed the snapshot, and    *)
(* never "removed" while the snapshot is complete.                         *)
(***************************************************************************)
THEOREM AgentImplementsLifecycle == Spec => ImplementsLifecycle
<1>1. Init => Lifecycle!Init
  <2>. SUFFICES ASSUME Init PROVE Lifecycle!Init
    OBVIOUS
  <2>1. \A s \in Snaps : phase[s] \in {"none", "full"}
    BY DEF Init, phase, Full, Gone
  <2>2. phase \in [Snaps -> {"none", "full"}]
    BY <2>1 DEF phase
  <2>. QED
    BY <2>2 DEF Init, Lifecycle!Init
<1>2. IInv /\ IInv' /\ [Next]_vars => [Lifecycle!Next]_<<phase, told>>
  <2>. SUFFICES ASSUME IInv, IInv', [Next]_vars
                PROVE  [Lifecycle!Next]_<<phase, told>>
    OBVIOUS
  <2>1. ASSUME NEW s \in Planned, CreateTask(s) \/ RemoveTask(s)
        PROVE  Lifecycle!Next
    <3>0. s \in Snaps
      BY SnapAssumption
    <3>1. Lifecycle!Ask(s)
      BY <2>1 DEF CreateTask, RemoveTask, Begin, records, Lifecycle!Ask,
                  phase, Full, Gone
    <3>. QED
      BY <3>0, <3>1 DEF Lifecycle!Next
  <2>2. CASE TaskStep
    BY <2>2, TaskStepAbstract
  <2>3. ASSUME NEW a \in Agents, AgentStep(a)
        PROVE  [Lifecycle!Next]_<<phase, told>>
    BY <2>3, AgentStepAbstract DEF AbstractStep, Lifecycle!Next
  <2>4. ASSUME NEW a \in Agents, AgentStops(a)
        PROVE  UNCHANGED <<phase, told>>
    BY <2>4 DEF AgentStops, records, phase, Full, Gone
  <2>5. CASE UNCHANGED vars
    BY <2>5 DEF vars, records, phase, Full, Gone
  <2>. QED
    BY <2>1, <2>2, <2>3, <2>4, <2>5 DEF Next
<1>. QED
  BY <1>1, <1>2, InitIInv, NextIInv, PTL
     DEF Spec, ImplementsLifecycle, Lifecycle!Spec, Lifecycle!vars

(***************************************************************************)
(* Late agents.  Nothing makes a task wait for the agents of an earlier    *)
(* one, so that what a plan was told can be undone by them.  What holds    *)
(* always is that nobody else undoes it: the agents of the last task for a *)
(* snapshot work together.                                                 *)
(***************************************************************************)
OInv == IInv /\ Together

LEMMA StepKinds == /\ CreateSteps = {"mkvol", "mkcache", "devopen", "remake", "start", "make"}
                   /\ DeleteSteps = {"dis", "rmsnap", "stop", "rmcache"}
                   /\ CreateSteps \cap DeleteSteps = {}
                   /\ "idle" \notin CreateSteps \cup DeleteSteps
  BY DEF CreateSteps, DeleteSteps

\* An agent's command goes on to one of the same action, or ends the agent.
LEMMA StepsOn ==
  ASSUME TaskType, NEW a \in Agents, AgentStep(a)
  PROVE  /\ pc[a] \in CreateSteps \cup DeleteSteps
         /\ \/ \E command \in CreateSteps : pc[a] \in CreateSteps /\ Goto(a, command)
            \/ \E command \in DeleteSteps : pc[a] \in DeleteSteps /\ Goto(a, command)
            \/ Reply(a, "failed")
            \/ Reply(a, "created") /\ pc[a] \in CreateSteps
            \/ Reply(a, "removed") /\ pc[a] \in DeleteSteps
  BY StepKinds DEF AgentStep, MakeCacheVolume, MakeCacheObject, PollDevopen, StartCache,
     MakeSnapshot, Dissociate, RemoveVolume, StopCache, RemoveCache

LEMMA AgentMoves ==
  ASSUME TaskType, NEW a \in Agents, AgentStep(a)
  PROVE  pc'[a] # pc[a]
<1>1. pc[a] # "idle"
  BY StepsOn, StepKinds
<1>2. CASE pc'[a] = "idle"
  BY <1>1, <1>2
<1>3. CASE pc'[a] # "idle"
  <2>1. \A outcome : ~Reply(a, outcome)
    BY <1>3 DEF Reply, TaskType
  <2>2. \A command : Goto(a, command) => pc'[a] = command
    BY DEF Goto, TaskType
  <2>. QED
    BY <2>1, <2>2 DEF AgentStep, MakeCacheVolume, MakeCacheObject, PollDevopen,
       StartCache, MakeSnapshot, Dissociate, RemoveVolume, StopCache, RemoveCache
<1>. QED
  BY <1>2, <1>3

LEMMA GotoTogether ==
  ASSUME TaskType, Together, NEW a \in Agents, NEW command, Goto(a, command),
         \/ pc[a] \in CreateSteps /\ command \in CreateSteps
         \/ pc[a] \in DeleteSteps /\ command \in DeleteSteps
  PROVE  Together'
<1>1. /\ pc' = [pc EXCEPT ![a] = command]
      /\ UNCHANGED <<on, job, target, stage, callee, told, stale>>
  BY DEF Goto, task
<1>2. \A b \in Agents : /\ pc'[b] # "idle" <=> pc[b] # "idle"
                        /\ pc'[b] \in CreateSteps <=> pc[b] \in CreateSteps
  BY <1>1, StepKinds DEF TaskType
<1>3. Current' = Current
  BY <1>1, <1>2 DEF Current
<1>4. stale \subseteq Agents /\ Current \subseteq Agents
  BY DEF TaskType, Current
<1>. QED
  BY <1>1, <1>2, <1>3, <1>4 DEF Together

LEMMA ReplyTogether ==
  ASSUME TaskType, Asked, Together, NEW a \in Agents,
         pc[a] \in CreateSteps \cup DeleteSteps,
         NEW outcome \in {"created", "removed", "failed"}, Reply(a, outcome),
         outcome = "created" => pc[a] \in CreateSteps,
         outcome = "removed" => pc[a] \in DeleteSteps
  PROVE  Together'
<1>1. /\ pc' = [pc EXCEPT ![a] = "idle"] /\ UNCHANGED <<on, target>>
      /\ stale' = stale \ {a}
  BY DEF Reply, EndTask, task
<1>2. /\ Current' = Current \ {a} /\ Current \subseteq Agents
      /\ \A b \in Current' : pc'[b] = pc[b]
  BY <1>1 DEF TaskType, Current
<1>3. \A b \in stale' : pc'[b] # "idle"
  BY <1>1 DEF Together, TaskType
<1>4. CASE stage = "wait" /\ callee = a
  <2>1. /\ told' = [told EXCEPT ![target] = outcome]
        /\ job' = "none" /\ callee' = NoAgent
    BY <1>4 DEF Reply, EndTask
  <2>2. callee' \notin stale'
    BY <1>1, <2>1, SnapAssumption DEF TaskType
  <2>3. on[a] = target /\ a \in Current
    BY <1>4, StepKinds DEF Asked, Together, Current
  <2>4. ASSUME NEW b \in Current'
        PROVE  /\ told'[on'[b]] \notin {"nothing", "created", "skipped", "unseen"}
               /\ pc'[b] \in CreateSteps =>
                    /\ told'[on'[b]] # "removed"
                    /\ \A c \in Current' : on'[c] = on'[b] => b = c
    <3>1. /\ b \in Current /\ b # a /\ pc'[b] = pc[b] /\ on'[b] = on[b]
          /\ on[b] \in Snaps /\ target \in Snaps
      BY <1>1, <1>2 DEF TaskType
    <3>2. \A c \in Current' : c \in Current /\ on'[c] = on[c]
      BY <1>1, <1>2
    <3>3. CASE on[b] # target
      <4>1. told'[on[b]] = told[on[b]]
        BY <2>1, <3>1, <3>3 DEF TaskType
      <4>. QED
        BY <3>1, <3>2, <4>1 DEF Together
    <3>4. CASE on[b] = target
      <4>1. pc[a] \notin CreateSteps /\ pc[b] \notin CreateSteps
        BY <2>3, <3>1, <3>4 DEF Together
      <4>2. told'[on[b]] = outcome
        BY <2>1, <3>1, <3>4 DEF TaskType
      <4>. QED
        BY <3>1, <4>1, <4>2
    <3>. QED
      BY <3>3, <3>4
  <2>. QED
    BY <1>3, <2>1, <2>2, <2>4 DEF Together
<1>5. CASE ~(stage = "wait" /\ callee = a)
  <2>1. UNCHANGED <<job, target, stage, callee, told>>
    BY <1>5 DEF Reply, task
  <2>. QED
    BY <1>1, <1>2, <1>3, <2>1 DEF Together
<1>. QED
  BY <1>4, <1>5

LEMMA CallTogether ==
  ASSUME TaskType, Asked, Together, NEW command \in {"mkvol", "dis"}, Call(command),
         UNCHANGED stale,
         stage = "check" \/ (stage = "wait" /\ job = "remove"),
         command = "mkvol" => job = "create" /\ stage = "check",
         command = "dis" => job = "remove"
  PROVE  Together'
<1>1. PICK a \in Agents :
        /\ pc[a] = "idle"
        /\ pc' = [pc EXCEPT ![a] = command]
        /\ on' = [on EXCEPT ![a] = target]
        /\ stage' = "wait" /\ callee' = a
        /\ UNCHANGED <<job, target, told>>
  BY DEF Call
<1>2. a \notin stale /\ stale \subseteq Agents
  BY <1>1 DEF Together, TaskType
<1>3. /\ pc'[a] = command /\ on'[a] = target
      /\ \A b \in Agents \ {a} : pc'[b] = pc[b] /\ on'[b] = on[b]
  BY <1>1 DEF TaskType
<1>4. Current' = Current \cup {a} /\ Current \subseteq Agents /\ a \notin Current
  BY <1>1, <1>2, <1>3 DEF Current
<1>5. told[target] = "asked" /\ job # "none"
  BY DEF Asked
<1>6. \A b \in Current : on[b] = target => command = "dis" /\ pc[b] \notin CreateSteps
  BY <1>5 DEF Together
<1>7. callee' \notin stale' /\ \A b \in stale' : pc'[b] # "idle"
  BY <1>1, <1>2, <1>3 DEF Together
<1>8. command \in CreateSteps <=> job = "create"
  BY StepKinds
<1>9. ASSUME NEW b \in Current'
      PROVE  /\ told'[on'[b]] \notin {"nothing", "created", "skipped", "unseen"}
             /\ pc'[b] \in CreateSteps =>
                  /\ told'[on'[b]] # "removed"
                  /\ \A c \in Current' : on'[c] = on'[b] => b = c
             /\ on'[b] = target' /\ job' # "none" =>
                  /\ stage' = "wait"
                  /\ pc'[b] \in CreateSteps <=> job' = "create"
  <2>1. CASE b = a
    <3>1. \A c \in Current' : on'[c] = target /\ pc'[b] \in CreateSteps => c = a
      BY <1>3, <1>4, <1>6, <2>1, StepKinds
    <3>. QED
      BY <1>1, <1>3, <1>5, <1>8, <2>1, <3>1
  <2>2. CASE b # a
    <3>1. b \in Current /\ pc'[b] = pc[b] /\ on'[b] = on[b]
      BY <1>3, <1>4, <2>2
    <3>2. ASSUME pc[b] \in CreateSteps, NEW c \in Current', on'[c] = on[b] PROVE b = c
      <4>1. c # a
        BY <1>3, <1>6, <3>1, <3>2
      <4>. QED
        BY <1>3, <1>4, <3>1, <3>2, <4>1 DEF Together
    <3>. QED
      BY <1>1, <3>1, <3>2 DEF Together
  <2>. QED
    BY <2>1, <2>2
<1>. QED
  BY <1>7, <1>9 DEF Together

LEMMA EndTaskTogether ==
  ASSUME TaskType, Asked, Together,
         NEW outcome \in {"skipped", "unseen", "failed"}, EndTask(outcome),
         UNCHANGED <<pc, on, stale>>, stage # "none",
         outcome # "failed" => stage = "check"
  PROVE  Together'
<1>1. /\ told' = [told EXCEPT ![target] = outcome]
      /\ job' = "none" /\ callee' = NoAgent /\ target' = target
  BY DEF EndTask
<1>2. Current' = Current /\ Current \subseteq Agents
  BY DEF Current
<1>3. callee' \notin stale' /\ \A b \in stale' : pc'[b] # "idle"
  BY <1>1, SnapAssumption DEF Together, TaskType
<1>4. \A b \in Current : on[b] = target => outcome = "failed"
  BY DEF Together, Asked
<1>5. \A b \in Current : told'[on[b]] \in {told[on[b]], "failed"}
  BY <1>1, <1>2, <1>4 DEF TaskType
<1>. QED
  BY <1>1, <1>2, <1>3, <1>5 DEF Together

LEMMA BeginTogether ==
  ASSUME TaskType, Asked, Together, NEW s \in Snaps, NEW kind \in {"create", "remove"},
         Begin(s, kind)
  PROVE  Together'
<1>1. /\ target' = s /\ told' = [told EXCEPT ![s] = "asked"]
      /\ stale' = stale \cup {a \in Agents : pc[a] # "idle" /\ on[a] = s}
      /\ UNCHANGED <<pc, on, callee>>
  BY DEF Begin
<1>2. callee' \notin stale' /\ \A b \in stale' : pc'[b] # "idle"
  BY <1>1, SnapAssumption DEF Begin, Asked, Together, TaskType
<1>3. /\ Current \subseteq Agents
      /\ \A b \in Current' : b \in Current /\ on[b] # s
  BY <1>1 DEF Current
<1>4. \A b \in Current' : told'[on[b]] = told[on[b]]
  BY <1>1, <1>3 DEF TaskType
<1>. QED
  BY <1>1, <1>2, <1>3, <1>4 DEF Together

LEMMA NextOInv == ASSUME OInv, [Next]_vars PROVE OInv'
<1>. USE DEF OInv, IInv
<1>0. IInv'
  BY NextIInv
<1>. SUFFICES Together'
  BY <1>0
<1>1. ASSUME NEW s \in Planned, CreateTask(s) \/ RemoveTask(s) PROVE Together'
  BY <1>1, SnapAssumption, BeginTogether DEF CreateTask, RemoveTask
<1>2. CASE TaskStep
  <2>1. UNCHANGED stale
    BY <1>2 DEF TaskStep
  <2>2. CASE CreateCalls
    BY <2>1, <2>2, CallTogether, EndTaskTogether DEF CreateCalls
  <2>3. CASE RemoveSeen
    BY <2>1, <2>3, CallTogether DEF RemoveSeen
  <2>4. CASE RemoveSkips \/ RemoveUnanswered
    BY <2>1, <2>4, EndTaskTogether DEF RemoveSkips, RemoveUnanswered
  <2>5. CASE Timeout
    <3>1. CASE job = "remove" /\ calls < MaxCalls
      BY <2>1, <2>5, <3>1, CallTogether DEF Timeout
    <3>2. CASE ~(job = "remove" /\ calls < MaxCalls)
      BY <2>1, <2>5, <3>2, EndTaskTogether DEF Timeout
    <3>. QED
      BY <3>1, <3>2
  <2>. QED
    BY <1>2, <2>2, <2>3, <2>4, <2>5 DEF TaskStep
<1>3. ASSUME NEW a \in Agents, AgentStep(a) PROVE Together'
  BY <1>3, StepsOn, StepKinds, GotoTogether, ReplyTogether
<1>4. ASSUME NEW a \in Agents, AgentStops(a) PROVE Together'
  <2>1. /\ pc' = [pc EXCEPT ![a] = "idle"] /\ stale' = stale \ {a}
        /\ UNCHANGED <<on, job, target, stage, callee, told>>
    BY <1>4 DEF AgentStops, task
  <2>2. /\ Current' = Current \ {a} /\ Current \subseteq Agents
        /\ \A b \in Current' : pc'[b] = pc[b]
    BY <2>1 DEF TaskType, Current
  <2>3. \A b \in stale' : pc'[b] # "idle"
    BY <2>1 DEF Together, TaskType
  <2>. QED
    BY <2>1, <2>2, <2>3 DEF Together
<1>5. CASE UNCHANGED vars
  BY <1>5 DEF vars, task, Together, Current
<1>. QED
  BY <1>1, <1>2, <1>3, <1>4, <1>5 DEF Next

LEMMA AlwaysOInv == Spec => []OInv
<1>1. Init => OInv
  <2>. SUFFICES ASSUME Init PROVE OInv
    OBVIOUS
  <2>1. stale = {} /\ Current = {}
    BY DEF Init, Current
  <2>. QED
    BY <2>1, InitIInv DEF OInv, Together
<1>2. OInv /\ [Next]_vars => OInv'
  BY NextOInv
<1>. QED
  BY <1>1, <1>2, PTL DEF Spec

(***************************************************************************)
(* What one command does to what a task was told of its snapshot.          *)
(***************************************************************************)
\* Only the snapshot of the agent is touched.
LEMMA OthersKept ==
  ASSUME IInv, NEW a \in Agents, AgentStep(a), NEW s \in Snaps, s # on[a]
  PROVE  /\ (s \in cv') <=> (s \in cv)
         /\ co'[s] = co[s] /\ sp'[s] = sp[s] /\ told'[s] = told[s]
<1>. USE DEF IInv
<1>1. (s \in cv') <=> (s \in cv)
  BY DEF AgentStep, MakeCacheVolume, MakeCacheObject, PollDevopen, StartCache,
     MakeSnapshot, Dissociate, RemoveVolume, StopCache, RemoveCache, records
<1>2. co'[s] = co[s] /\ sp'[s] = sp[s]
  BY DEF AgentStep, MakeCacheVolume, MakeCacheObject, PollDevopen, StartCache,
     MakeSnapshot, Dissociate, RemoveVolume, StopCache, RemoveCache, records, RecordType
<1>3. told'[s] = told[s]
  <2>1. ASSUME NEW command, Goto(a, command) PROVE told' = told
    BY <2>1 DEF Goto
  <2>2. ASSUME NEW outcome \in {"created", "removed", "failed"}, Reply(a, outcome)
        PROVE  told'[s] = told[s]
    BY <2>2, ReplyTells DEF TaskType
  <2>. QED
    BY <2>1, <2>2, StepsOn
<1>. QED
  BY <1>1, <1>2, <1>3

\* A complete snapshot is undone by a dissociation first, and what a removal
\* cleared comes back by its first record.
LEMMA FirstUndone ==
  ASSUME IInv, NEW a \in Agents, AgentStep(a), NEW s, s = on[a]
  PROVE  /\ Full(s) => Full(s)' \/ pc[a] = "dis"
         /\ Cleared(s) => Cleared(s)' \/ pc[a] \in {"mkcache", "remake"}
         /\ Gone(s) => Gone(s)' \/ pc[a] = "mkvol"
<1>. USE DEF IInv, Full, Cleared, Gone
<1>0. s \in Snaps
  BY DEF TaskType
<1>1. CASE MakeCacheVolume(a) \/ MakeCacheObject(a)
  BY <1>0, <1>1 DEF MakeCacheVolume, MakeCacheObject, RecordType, records
<1>2. CASE PollDevopen(a) \/ StartCache(a)
  BY <1>0, <1>2 DEF PollDevopen, StartCache, RecordType, records
<1>3. CASE MakeSnapshot(a) \/ Dissociate(a)
  BY <1>0, <1>3 DEF MakeSnapshot, Dissociate, RecordType, records
<1>4. CASE RemoveVolume(a)
  BY <1>0, <1>4 DEF RemoveVolume, RecordType, records
<1>5. CASE StopCache(a)
  BY <1>0, <1>5 DEF StopCache, RecordType, records
<1>6. CASE RemoveCache(a)
  BY <1>0, <1>6 DEF RemoveCache, RecordType, records
<1>. QED
  BY <1>1, <1>2, <1>3, <1>4, <1>5, <1>6 DEF AgentStep

\* An answer is true when it is given.
LEMMA TrueWhenTold ==
  ASSUME IInv, IInv', NEW a \in Agents, AgentStep(a), NEW s, s = on[a], told'[s] # told[s]
  PROVE  /\ told'[s] = "created" => Full(s)'
         /\ told'[s] = "removed" => Cleared(s)'
         /\ told'[s] # "skipped"
<1>. USE DEF IInv
<1>0. s \in Snaps
  BY DEF TaskType
<1>1. ASSUME NEW command, Goto(a, command) PROVE FALSE
  BY <1>1 DEF Goto
<1>2. ASSUME NEW outcome \in {"created", "removed", "failed"}, Reply(a, outcome)
      PROVE  told'[s] = outcome
  BY <1>0, <1>2, ReplyTells DEF TaskType
<1>3. CASE Reply(a, "failed")
  BY <1>2, <1>3
<1>4. CASE ~Reply(a, "failed") /\ MakeSnapshot(a)
  <2>1. Reply(a, "created") /\ sp'[s] = "linked"
    BY <1>0, <1>4 DEF MakeSnapshot, RecordType
  <2>. QED
    BY <1>0, <1>2, <2>1 DEF Full, Backed
<1>5. CASE ~Reply(a, "failed") /\ RemoveCache(a)
  <2>1. Reply(a, "removed") /\ co'[s] = "absent"
    BY <1>0, <1>5 DEF RemoveCache, RecordType
  <2>. QED
    BY <1>0, <1>2, <2>1 DEF Cleared, Backed
<1>. QED
  BY <1>1, <1>3, <1>4, <1>5 DEF AgentStep, MakeCacheVolume, MakeCacheObject, PollDevopen,
     StartCache, Dissociate, RemoveVolume, StopCache

\* A command leaves what the next one of its own chain needs, and only a
\* command of create_snapshot takes it from another chain of its snapshot.
LEMMA OrderKept ==
  ASSUME IInv, NEW a \in Agents, AgentStep(a)
  PROVE  /\ InOrder(a)'
         /\ \A b \in Agents \ {a} : InOrder(b) => InOrder(b)' \/ (on[b] = on[a] /\ pc[a] \in CreateSteps)
<1>. USE DEF IInv
<1>0. on[a] \in Snaps /\ on' = on
  BY StepsOn DEF TaskType, Goto, Reply
<1>1. InOrder(a)'
  <2>1. CASE pc'[a] \notin {"rmsnap", "stop", "rmcache"}
    BY <2>1 DEF InOrder
  <2>2. CASE pc'[a] \in {"rmsnap", "stop", "rmcache"}
    <3>1. \A outcome : ~Reply(a, outcome)
      BY <2>2 DEF Reply, TaskType
    <3>2. ASSUME NEW command, Goto(a, command) PROVE pc'[a] = command
      BY <3>2 DEF Goto, TaskType
    <3>3. CASE Dissociate(a)
      BY <1>0, <3>1, <3>2, <3>3 DEF Dissociate, InOrder, RecordType
    <3>4. CASE RemoveVolume(a)
      BY <1>0, <3>1, <3>2, <3>4 DEF RemoveVolume, InOrder, RecordType
    <3>5. CASE StopCache(a)
      BY <1>0, <3>1, <3>2, <3>5 DEF StopCache, InOrder, RecordType
    <3>6. CASE MakeCacheVolume(a) \/ MakeCacheObject(a) \/ PollDevopen(a) \/ StartCache(a)
      BY <2>2, <3>1, <3>2, <3>6
         DEF MakeCacheVolume, MakeCacheObject, PollDevopen, StartCache
    <3>. QED
      BY <3>1, <3>3, <3>4, <3>5, <3>6 DEF AgentStep, MakeSnapshot, RemoveCache
  <2>. QED
    BY <2>1, <2>2
<1>2. ASSUME NEW b \in Agents \ {a}, InOrder(b)
      PROVE  InOrder(b)' \/ (on[b] = on[a] /\ pc[a] \in CreateSteps)
  <2>1. pc'[b] = pc[b] /\ on'[b] = on[b] /\ on[b] \in Snaps
    BY <1>0, StepsOn DEF TaskType, Goto, Reply
  <2>2. CASE on[b] # on[a]
    BY <1>2, <2>1, <2>2, OthersKept DEF InOrder
  <2>3. CASE on[b] = on[a] /\ pc[a] \notin CreateSteps
    <3>1. /\ sp'[on[a]] \in {sp[on[a]], "absent"} \/ (sp[on[a]] = "linked" /\ sp'[on[a]] = "loose")
          /\ co'[on[a]] \in {co[on[a]], "absent"} \/ (co[on[a]] = "started" /\ co'[on[a]] = "stopped")
      BY <1>0, <2>3, StepKinds
         DEF AgentStep, MakeCacheVolume, MakeCacheObject, PollDevopen, StartCache,
             MakeSnapshot, Dissociate, RemoveVolume, StopCache, RemoveCache, records,
             RecordType
    <3>. QED
      BY <1>2, <2>1, <2>3, <3>1 DEF InOrder
  <2>. QED
    BY <2>2, <2>3
<1>. QED
  BY <1>1, <1>2

\* What a task was told changes by a step of the task, or by the answer of
\* the agent it waits for; records by a command.
LEMMA NotByAgents ==
  ASSUME IInv, Next, \A a \in Agents : ~AgentStep(a), NEW s \in Snaps
  PROVE  /\ UNCHANGED records
         /\ told'[s] \in {told[s], "asked", "skipped", "unseen", "failed"}
         /\ told'[s] = "skipped" => told[s] = "skipped" \/ Gone(s)
<1>. USE DEF IInv
<1>1. ASSUME NEW t \in Planned, CreateTask(t) \/ RemoveTask(t)
      PROVE  UNCHANGED records /\ told'[s] \in {told[s], "asked"}
  BY <1>1, SnapAssumption DEF CreateTask, RemoveTask, Begin, TaskType
<1>2. ASSUME NEW outcome \in {"skipped", "unseen", "failed"}, EndTask(outcome),
             outcome = "skipped" => Gone(target)
      PROVE  /\ told'[s] \in {told[s], outcome}
             /\ told'[s] = "skipped" => told[s] = "skipped" \/ Gone(s)
  BY <1>2 DEF EndTask, TaskType
<1>3. CASE TaskStep
  <2>1. UNCHANGED records
    BY <1>3 DEF TaskStep, CreateCalls, RemoveSeen, RemoveSkips, RemoveUnanswered, Timeout
  <2>2. CASE RemoveSkips
    <3>1. Gone(target)
      BY <2>2, SnapAssumption DEF RemoveSkips, Seen, Gone, Backed, RecordType, TaskType
    <3>. QED
      BY <1>2, <2>1, <2>2, <3>1 DEF RemoveSkips
  <2>3. CASE \E command : Call(command)
    BY <2>1, <2>3 DEF Call
  <2>4. CASE EndTask("unseen") \/ EndTask("failed")
    BY <1>2, <2>1, <2>4
  <2>. QED
    BY <1>3, <2>2, <2>3, <2>4
       DEF TaskStep, CreateCalls, RemoveSeen, RemoveUnanswered, Timeout
<1>4. ASSUME NEW a \in Agents, AgentStops(a) PROVE UNCHANGED <<records, told>>
  BY <1>4 DEF AgentStops
<1>. QED
  BY <1>1, <1>3, <1>4 DEF Next

\* An agent that the plan does not count on any more is late.
LEMMA WhoUndoes ==
  ASSUME OInv, NEW a \in Agents, AgentStep(a), NEW s, s = on[a],
         \/ told[s] = "created" /\ pc[a] = "dis"
         \/ told[s] = "removed" /\ pc[a] \in {"mkcache", "remake"}
         \/ told[s] = "skipped" /\ pc[a] = "mkvol"
  PROVE  LateCommand(s, {pc[a]})
<1>1. pc[a] # "idle" /\ pc'[a] # pc[a]
  BY StepsOn, StepKinds, AgentMoves DEF OInv, IInv
<1>2. a \in stale
  <2>. SUFFICES ASSUME a \in Current PROVE FALSE
    BY <1>1 DEF Current
  <2>. QED
    BY StepKinds DEF OInv, Together
<1>. QED
  BY <1>1, <1>2 DEF LateCommand

\* A snapshot that the plan was told is created is complete until the next
\* task for it, for any number of agents that go on after their callers gave
\* up; if it is undone, then by a removal of an earlier task.
THEOREM CreatedStaysFull == Spec => CreatedIsFull
<1>1. ASSUME OInv, OInv', [Next]_vars, NEW s \in Snaps, told'[s] = "created"
      PROVE  Full(s)' \/ (told[s] = "created" /\ ~Full(s)) \/ LateCommand(s, {"dis"})
  <2>1. CASE UNCHANGED vars
    BY <1>1, <2>1 DEF vars, records, Full
  <2>2. CASE Next /\ \A a \in Agents : ~AgentStep(a)
    BY <1>1, <2>2, NotByAgents DEF OInv, Full, records
  <2>3. ASSUME NEW a \in Agents, AgentStep(a)
        PROVE  Full(s)' \/ (told[s] = "created" /\ ~Full(s)) \/ LateCommand(s, {"dis"})
    <3>1. CASE s # on[a]
      BY <1>1, <2>3, <3>1, OthersKept DEF OInv, Full
    <3>2. CASE s = on[a] /\ told[s] # "created"
      BY <1>1, <2>3, <3>2, TrueWhenTold DEF OInv
    <3>3. CASE s = on[a] /\ told[s] = "created"
      BY <1>1, <2>3, <3>3, FirstUndone, WhoUndoes DEF OInv
    <3>. QED
      BY <3>1, <3>2, <3>3
  <2>. QED
    BY <1>1, <2>1, <2>2, <2>3
<1>2. OInv /\ OInv' /\ [Next]_vars =>
        [\A s \in Snaps : told'[s] = "created" =>
           \/ Full(s)'
           \/ told[s] = "created" /\ ~Full(s)
           \/ LateCommand(s, {"dis"})]_vars
  BY <1>1
<1>. QED
  BY <1>2, AlwaysOInv, PTL DEF Spec, CreatedIsFull

\* After a removal succeeded neither the snapshot nor its cache object is left,
\* although other chains of the same removal may still run, and only a creation
\* of an earlier task can bring one back.
THEOREM RemovedStaysGone == Spec => RemovedIsGone
<1>1. ASSUME OInv, OInv', [Next]_vars, NEW s \in Snaps, told'[s] = "removed"
      PROVE  \/ Cleared(s)'
             \/ told[s] = "removed" /\ ~Cleared(s)
             \/ LateCommand(s, {"mkcache", "remake"})
  <2>1. CASE UNCHANGED vars
    BY <1>1, <2>1 DEF vars, records, Cleared
  <2>2. CASE Next /\ \A a \in Agents : ~AgentStep(a)
    BY <1>1, <2>2, NotByAgents DEF OInv, Cleared, records
  <2>3. ASSUME NEW a \in Agents, AgentStep(a)
        PROVE  \/ Cleared(s)'
               \/ told[s] = "removed" /\ ~Cleared(s)
               \/ LateCommand(s, {"mkcache", "remake"})
    <3>1. CASE s # on[a]
      BY <1>1, <2>3, <3>1, OthersKept DEF OInv, Cleared
    <3>2. CASE s = on[a] /\ told[s] # "removed"
      BY <1>1, <2>3, <3>2, TrueWhenTold DEF OInv
    <3>3. CASE s = on[a] /\ told[s] = "removed" /\ pc[a] \in {"mkcache", "remake"}
      BY <1>1, <2>3, <3>3, WhoUndoes DEF LateCommand
    <3>4. CASE s = on[a] /\ told[s] = "removed" /\ pc[a] \notin {"mkcache", "remake"}
      BY <1>1, <2>3, <3>4, FirstUndone DEF OInv
    <3>. QED
      BY <3>1, <3>2, <3>3, <3>4
  <2>. QED
    BY <1>1, <2>1, <2>2, <2>3
<1>2. OInv /\ OInv' /\ [Next]_vars =>
        [\A s \in Snaps : told'[s] = "removed" =>
           \/ Cleared(s)'
           \/ told[s] = "removed" /\ ~Cleared(s)
           \/ LateCommand(s, {"mkcache", "remake"})]_vars
  BY <1>1
<1>. QED
  BY <1>2, AlwaysOInv, PTL DEF Spec, RemovedIsGone

\* A removal that skips a snapshot that its probe did not see leaves nothing,
\* and only a creation of an earlier task can bring its cache volume back.
THEOREM SkippedStaysGone == Spec => SkippedIsGone
<1>1. ASSUME OInv, OInv', [Next]_vars, NEW s \in Snaps, told'[s] = "skipped"
      PROVE  Gone(s)' \/ (told[s] = "skipped" /\ ~Gone(s)) \/ LateCommand(s, {"mkvol"})
  <2>1. CASE UNCHANGED vars
    BY <1>1, <2>1 DEF vars, records, Gone
  <2>2. CASE Next /\ \A a \in Agents : ~AgentStep(a)
    BY <1>1, <2>2, NotByAgents DEF OInv, Gone, records
  <2>3. ASSUME NEW a \in Agents, AgentStep(a)
        PROVE  Gone(s)' \/ (told[s] = "skipped" /\ ~Gone(s)) \/ LateCommand(s, {"mkvol"})
    <3>1. CASE s # on[a]
      BY <1>1, <2>3, <3>1, OthersKept DEF OInv, Gone
    <3>2. CASE s = on[a] /\ told[s] # "skipped"
      BY <1>1, <2>3, <3>2, TrueWhenTold DEF OInv
    <3>3. CASE s = on[a] /\ told[s] = "skipped"
      BY <1>1, <2>3, <3>3, FirstUndone, WhoUndoes DEF OInv
    <3>. QED
      BY <3>1, <3>2, <3>3
  <2>. QED
    BY <1>1, <2>1, <2>2, <2>3
<1>2. OInv /\ OInv' /\ [Next]_vars =>
        [\A s \in Snaps : told'[s] = "skipped" =>
           \/ Gone(s)'
           \/ told[s] = "skipped" /\ ~Gone(s)
           \/ LateCommand(s, {"mkvol"})]_vars
  BY <1>1
<1>. QED
  BY <1>2, AlwaysOInv, PTL DEF Spec, SkippedIsGone

\* Every command of delete_snapshot finds what the one before brought about,
\* however many chains of the same removal interleave; a creation of an earlier
\* task is the only one that can take it away.
THEOREM ChainsInOrder == Spec => ChainInOrder
<1>1. ASSUME OInv, OInv', [Next]_vars, NEW a \in Agents \ stale'
      PROVE  InOrder(a)' \/ (pc'[a] = pc[a] /\ ~InOrder(a)) \/ LateCommand(on[a], CreateSteps)
  <2>. USE DEF OInv, IInv
  <2>0. a \in Agents /\ a \notin stale'
    BY <1>1
  <2>1. CASE UNCHANGED vars
    BY <1>1, <2>1 DEF vars, records, InOrder
  <2>2. CASE Next /\ \A b \in Agents : ~AgentStep(b)
    <3>1. UNCHANGED records
      BY <1>1, <2>2, SnapAssumption, NotByAgents
    <3>2. pc'[a] \in {"idle", "mkvol", "dis"} \/ (pc'[a] = pc[a] /\ on'[a] = on[a])
      <4>1. ASSUME NEW t \in Planned, CreateTask(t) \/ RemoveTask(t)
            PROVE  UNCHANGED <<pc, on>>
        BY <4>1 DEF CreateTask, RemoveTask, Begin
      <4>2. ASSUME TaskStep
            PROVE  \/ UNCHANGED <<pc, on>>
                   \/ \E c \in Agents, command \in {"mkvol", "dis"} :
                        /\ pc' = [pc EXCEPT ![c] = command]
                        /\ on' = [on EXCEPT ![c] = target]
        BY <4>2 DEF TaskStep, CreateCalls, RemoveSeen, RemoveSkips, RemoveUnanswered,
                    Timeout, Call
      <4>3. ASSUME NEW c \in Agents, AgentStops(c)
            PROVE  pc' = [pc EXCEPT ![c] = "idle"] /\ UNCHANGED on
        BY <4>3 DEF AgentStops
      <4>4. CASE UNCHANGED <<pc, on>>
        BY <4>4
      <4>5. ASSUME NEW c \in Agents, NEW command \in {"mkvol", "dis"},
                   pc' = [pc EXCEPT ![c] = command], on' = [on EXCEPT ![c] = target]
            PROVE  pc'[a] \in {"mkvol", "dis"} \/ (pc'[a] = pc[a] /\ on'[a] = on[a])
        BY <1>1, <2>0, <4>5 DEF TaskType
      <4>6. ASSUME NEW c \in Agents, pc' = [pc EXCEPT ![c] = "idle"], UNCHANGED on
            PROVE  pc'[a] \in {"idle", pc[a]} /\ on'[a] = on[a]
        BY <1>1, <2>0, <4>6 DEF TaskType
      <4>. QED
        BY <1>1, <2>2, <4>1, <4>2, <4>3, <4>4, <4>5, <4>6 DEF Next
    <3>3. CASE pc'[a] \in {"idle", "mkvol", "dis"}
      BY <3>3 DEF InOrder
    <3>4. CASE pc'[a] = pc[a] /\ on'[a] = on[a]
      BY <3>1, <3>4 DEF InOrder, records
    <3>. QED
      BY <3>2, <3>3, <3>4
  <2>3. ASSUME NEW b \in Agents, AgentStep(b)
        PROVE  InOrder(a)' \/ (pc'[a] = pc[a] /\ ~InOrder(a)) \/ LateCommand(on[a], CreateSteps)
    <3>1. CASE a = b
      BY <1>1, <2>0, <2>3, <3>1, OrderKept
    <3>2. CASE a # b
      <4>1. pc'[a] = pc[a]
        BY <1>1, <2>0, <2>3, <3>2, StepsOn DEF TaskType, Goto, Reply
      <4>. SUFFICES ASSUME InOrder(a), ~InOrder(a)' PROVE LateCommand(on[a], CreateSteps)
        BY <2>0, <4>1
      <4>2. on[b] = on[a] /\ pc[b] \in CreateSteps
        BY <1>1, <2>0, <2>3, <3>2, OrderKept
      <4>3. pc[a] \in {"rmsnap", "stop", "rmcache"}
        BY <4>1 DEF InOrder
      <4>4. stale' \in {stale, stale \ {b}}
        BY <1>1, <2>3, StepsOn DEF Goto, Reply
      <4>5. a \in Current
        BY <1>1, <2>0, <3>2, <4>3, <4>4 DEF Current
      <4>6. b \notin Current
        BY <1>1, <2>0, <3>2, <4>2, <4>5 DEF Together
      <4>7. b \in stale
        BY <2>0, <4>2, <4>6, StepKinds DEF Current
      <4>8. pc'[b] # pc[b]
        BY <1>1, <2>3, AgentMoves
      <4>. QED
        BY <4>2, <4>7, <4>8 DEF LateCommand
    <3>. QED
      BY <3>1, <3>2
  <2>. QED
    BY <1>1, <2>1, <2>2, <2>3
<1>2. OInv /\ OInv' /\ [Next]_vars =>
        [\A a \in Agents \ stale' :
           \/ InOrder(a)'
           \/ pc'[a] = pc[a] /\ ~InOrder(a)
           \/ LateCommand(on[a], CreateSteps)]_vars
  BY <1>1
<1>. QED
  BY <1>2, AlwaysOInv, PTL DEF Spec, ChainInOrder

(***************************************************************************)
(* How many agents work on a snapshot.                                     *)
(***************************************************************************)
Crew(s) == {a \in Current : on[a] = s}

\* The agents of a task are no more than its calls.
Counted == \A s \in Snaps :
             /\ IsFiniteSet(Crew(s))
             /\ Cardinality(Crew(s)) <= MaxCalls
             /\ s = target /\ stage = "wait" => Cardinality(Crew(s)) <= calls

LEMMA CrewShrinks ==
  ASSUME Counted, calls \in Nat, Current' \subseteq Current,
         \A a \in Current' : on'[a] = on[a],
         stage' = "wait" => stage = "wait" /\ target' = target /\ calls' = calls
  PROVE  Counted'
<1>1. ASSUME NEW s \in Snaps
      PROVE  /\ IsFiniteSet(Crew(s)')
             /\ Cardinality(Crew(s)') <= Cardinality(Crew(s))
             /\ Cardinality(Crew(s)) \in Nat /\ Cardinality(Crew(s)') \in Nat
  <2>1. Crew(s)' \subseteq Crew(s)
    BY DEF Crew
  <2>2. IsFiniteSet(Crew(s)) /\ Crew(s)' \in SUBSET Crew(s)
    BY <2>1 DEF Counted
  <2>3. IsFiniteSet(Crew(s)') /\ Cardinality(Crew(s)') <= Cardinality(Crew(s))
    BY <2>2, FS_Subset
  <2>. QED
    BY <2>2, <2>3, FS_CardinalityType
<1>2. ASSUME NEW s \in Snaps
      PROVE  /\ IsFiniteSet(Crew(s)')
             /\ Cardinality(Crew(s)') <= MaxCalls
             /\ s = target' /\ stage' = "wait" => Cardinality(Crew(s)') <= calls'
  <2>1. /\ Cardinality(Crew(s)) <= MaxCalls
        /\ s = target /\ stage = "wait" => Cardinality(Crew(s)) <= calls
    BY DEF Counted
  <2>. QED
    BY <1>1, <2>1, SnapAssumption
<1>. QED
  BY <1>2 DEF Counted, Crew

\* A call makes one agent more: the first of its task, or one more for a
\* removal that is called again.
LEMMA CrewGrows ==
  ASSUME OInv, Counted, NEW command \in {"mkvol", "dis"}, Call(command), UNCHANGED stale,
         stage = "check" \/ (stage = "wait" /\ calls < MaxCalls)
  PROVE  Counted'
<1>. USE DEF OInv, IInv
<1>1. PICK a \in Agents : /\ pc[a] = "idle"
                          /\ pc' = [pc EXCEPT ![a] = command]
                          /\ on' = [on EXCEPT ![a] = target]
                          /\ stage' = "wait" /\ calls' = calls + 1 /\ target' = target
  BY DEF Call
<1>2. /\ a \notin stale /\ a \notin Current /\ calls \in Nat
      /\ \A b \in Agents \ {a} : pc'[b] = pc[b] /\ on'[b] = on[b]
      /\ pc'[a] # "idle" /\ on'[a] = target
  BY <1>1, SnapAssumption DEF Together, TaskType, Current
<1>3. Current' = Current \cup {a} /\ Current \subseteq Agents
  BY <1>2 DEF Current
<1>4. ASSUME NEW s \in Snaps, s # target
      PROVE  /\ IsFiniteSet(Crew(s)') /\ Cardinality(Crew(s)') <= MaxCalls
             /\ s = target' /\ stage' = "wait" => Cardinality(Crew(s)') <= calls'
  <2>1. Crew(s)' = Crew(s)
    BY <1>2, <1>3, <1>4 DEF Crew
  <2>. QED
    BY <1>1, <1>4, <2>1 DEF Counted
<1>5. /\ IsFiniteSet(Crew(target)') /\ Cardinality(Crew(target)') <= MaxCalls
      /\ Cardinality(Crew(target)') <= calls'
  <2>1. Crew(target)' = Crew(target) \cup {a}
    BY <1>1, <1>2, <1>3 DEF Crew
  <2>2. /\ IsFiniteSet(Crew(target)) /\ target \in Snaps
        /\ stage = "wait" => Cardinality(Crew(target)) <= calls
    BY DEF Counted, TaskType
  <2>3. /\ Cardinality(Crew(target)) \in Nat
        /\ IsFiniteSet(Crew(target) \cup {a})
        /\ Cardinality(Crew(target) \cup {a}) \in
             {Cardinality(Crew(target)), Cardinality(Crew(target)) + 1}
    BY <2>2, FS_CardinalityType, FS_AddElement
  <2>4. CASE stage = "check"
    <3>1. Crew(target) = {}
      BY <2>4 DEF Crew, Together, Asked
    <3>2. Cardinality(Crew(target)) = 0
      BY <3>1, FS_EmptySet
    <3>. QED
      BY <1>1, <1>2, <2>1, <2>3, <3>2, SnapAssumption
  <2>5. CASE stage = "wait" /\ calls < MaxCalls
    BY <1>1, <1>2, <2>1, <2>2, <2>3, <2>5, SnapAssumption
  <2>. QED
    BY <2>4, <2>5
<1>. QED
  <2>1. ASSUME NEW s \in Snaps
        PROVE  /\ IsFiniteSet(Crew(s)') /\ Cardinality(Crew(s)') <= MaxCalls
               /\ s = target' /\ stage' = "wait" => Cardinality(Crew(s)') <= calls'
    <3>1. CASE s # target
      BY <1>4, <3>1
    <3>2. CASE s = target
      <4>1. Crew(s)' = {b \in Current' : on'[b] = target}
        BY <3>2 DEF Crew
      <4>2. Crew(target)' = {b \in Current' : on'[b] = target}
        BY <1>1 DEF Crew
      <4>. QED
        BY <1>5, <4>1, <4>2
    <3>. QED
      BY <3>1, <3>2
  <2>. QED
    BY <2>1 DEF Counted, Crew

LEMMA NextCounted == ASSUME OInv, Counted, [Next]_vars PROVE Counted'
<1>. USE DEF OInv, IInv
<1>0. calls \in Nat
  BY SnapAssumption DEF TaskType
<1>1. ASSUME NEW s \in Planned, CreateTask(s) \/ RemoveTask(s) PROVE Counted'
  <2>1. /\ Current' \subseteq Current /\ stage' = "check"
        /\ \A a \in Current' : on'[a] = on[a]
    BY <1>1 DEF CreateTask, RemoveTask, Begin, Current
  <2>. QED
    BY <1>0, <2>1, CrewShrinks
<1>2. CASE TaskStep
  <2>0. UNCHANGED stale
    BY <1>2 DEF TaskStep
  <2>1. CASE \E outcome : EndTask(outcome) /\ UNCHANGED <<pc, on>>
    <3>1. Current' = Current /\ stage' = "none" /\ on' = on
      BY <2>0, <2>1 DEF EndTask, Current
    <3>. QED
      BY <1>0, <3>1, CrewShrinks
  <2>2. CASE \E command \in {"mkvol", "dis"} :
              /\ Call(command)
              /\ stage = "check" \/ (stage = "wait" /\ calls < MaxCalls)
    BY <2>0, <2>2, CrewGrows
  <2>. QED
    BY <1>2, <2>1, <2>2
       DEF TaskStep, CreateCalls, RemoveSeen, RemoveSkips, RemoveUnanswered, Timeout
<1>3. ASSUME NEW a \in Agents, AgentStep(a) PROVE Counted'
  <2>1. on' = on /\ Current' \subseteq Current
    <3>1. pc[a] # "idle"
      BY <1>3, StepsOn, StepKinds
    <3>2. CASE \E outcome : Reply(a, outcome)
      BY <3>2 DEF Reply, Current, TaskType
    <3>3. CASE \E command : Goto(a, command)
      BY <3>1, <3>3 DEF Goto, Current, TaskType
    <3>. QED
      BY <1>3, <3>2, <3>3, StepsOn
  <2>2. stage' = "wait" => stage = "wait" /\ target' = target /\ calls' = calls
    BY <1>3, StepsOn DEF Goto, Reply, EndTask, task
  <2>. QED
    BY <1>0, <2>1, <2>2, CrewShrinks
<1>4. ASSUME NEW a \in Agents, AgentStops(a) PROVE Counted'
  <2>1. /\ Current' \subseteq Current /\ on' = on
        /\ UNCHANGED <<stage, target, calls>>
    BY <1>4 DEF AgentStops, Current, TaskType, task
  <2>. QED
    BY <1>0, <2>1, CrewShrinks
<1>5. CASE UNCHANGED vars
  <2>1. Current' = Current /\ UNCHANGED <<on, stage, target, calls>>
    BY <1>5 DEF vars, task, Current
  <2>. QED
    BY <1>0, <2>1, CrewShrinks
<1>. QED
  BY <1>1, <1>2, <1>3, <1>4, <1>5 DEF Next

\* Of the agents that the last task for a snapshot called, no more run at a
\* time than a removal makes calls, however late they are, and one that runs
\* create_snapshot is the only one; any other agent there is late.
THEOREM FewAgents ==
    Spec => [](\A s \in Snaps :
                 /\ IsFiniteSet(Crew(s)) /\ Cardinality(Crew(s)) <= MaxCalls
                 /\ \A a \in Crew(s) : pc[a] \in CreateSteps => Crew(s) = {a})
<1>1. Init => Counted
  <2>. SUFFICES ASSUME Init PROVE Counted
    OBVIOUS
  <2>1. \A s \in Snaps : Crew(s) = {}
    BY DEF Init, Crew, Current
  <2>2. stage = "none"
    BY DEF Init
  <2>3. IsFiniteSet({}) /\ Cardinality({}) = 0
    BY FS_EmptySet
  <2>4. ASSUME NEW s \in Snaps PROVE IsFiniteSet(Crew(s)) /\ Cardinality(Crew(s)) = 0
    <3>1. Crew(s) = {}
      BY <2>1
    <3>. QED
      BY <2>3, <3>1
  <2>5. ASSUME NEW s \in Snaps
        PROVE  /\ IsFiniteSet(Crew(s)) /\ Cardinality(Crew(s)) <= MaxCalls
               /\ s = target /\ stage = "wait" => Cardinality(Crew(s)) <= calls
    <3>1. 0 <= MaxCalls
      BY SnapAssumption
    <3>. QED
      BY <2>2, <2>4, <3>1
  <2>. QED
    BY <2>5 DEF Counted
<1>2. OInv /\ Counted /\ [Next]_vars => Counted'
  BY NextCounted
<1>3. OInv /\ Counted =>
        \A s \in Snaps :
          /\ IsFiniteSet(Crew(s)) /\ Cardinality(Crew(s)) <= MaxCalls
          /\ \A a \in Crew(s) : pc[a] \in CreateSteps => Crew(s) = {a}
  BY DEF OInv, Together, Counted, Crew
<1>. QED
  BY <1>1, <1>2, <1>3, AlwaysOInv, PTL DEF Spec

(***************************************************************************)
(* Tasks and agents take finitely many steps.                              *)
(***************************************************************************)
\* The commands of an action, in the order in which it comes to them.
Place == [mkvol |-> 1, mkcache |-> 2, devopen |-> 3, remake |-> 4, start |-> 5, make |-> 6,
          dis |-> 1, rmsnap |-> 2, stop |-> 3, rmcache |-> 4]

LEMMA AgentGoesOn ==
  ASSUME TaskType, NEW a \in Agents, AgentStep(a), pc'[a] # "idle"
  PROVE  Place[pc'[a]] > Place[pc[a]]
<1>1. \A outcome : ~Reply(a, outcome)
  BY DEF Reply, TaskType
<1>2. ASSUME NEW command, Goto(a, command) PROVE pc'[a] = command
  BY <1>2 DEF Goto, TaskType
<1>3. CASE MakeCacheVolume(a)
  BY <1>1, <1>2, <1>3 DEF MakeCacheVolume, Place
<1>4. CASE MakeCacheObject(a)
  BY <1>1, <1>2, <1>4 DEF MakeCacheObject, Place
<1>5. CASE PollDevopen(a)
  BY <1>1, <1>2, <1>5 DEF PollDevopen, Place
<1>6. CASE StartCache(a)
  BY <1>1, <1>2, <1>6 DEF StartCache, Place
<1>7. CASE Dissociate(a)
  BY <1>1, <1>2, <1>7 DEF Dissociate, Place
<1>8. CASE RemoveVolume(a)
  BY <1>1, <1>2, <1>8 DEF RemoveVolume, Place
<1>9. CASE StopCache(a)
  BY <1>1, <1>2, <1>9 DEF StopCache, Place
<1>10. CASE MakeSnapshot(a) \/ RemoveCache(a)
  BY <1>1, <1>10 DEF MakeSnapshot, RemoveCache
<1>. QED
  BY <1>3, <1>4, <1>5, <1>6, <1>7, <1>8, <1>9, <1>10 DEF AgentStep

\* A step of a task ends it, or makes one more of its calls, of which it has at
\* most MaxCalls; and an agent that does not end goes on to a later command,
\* whatever other agents do to its records.
THEOREM TasksRunDown ==
    Spec => [][/\ TaskStep => \/ job' = "none"
                              \/ calls' = calls + 1 /\ calls' <= MaxCalls
               /\ \A a \in Agents : pc[a] # "idle" /\ pc'[a] # "idle" =>
                    pc'[a] = pc[a] \/ Place[pc'[a]] > Place[pc[a]]]_vars
<1>1. IInv /\ IInv' /\ [Next]_vars =>
        [/\ TaskStep => \/ job' = "none"
                        \/ calls' = calls + 1 /\ calls' <= MaxCalls
         /\ \A a \in Agents : pc[a] # "idle" /\ pc'[a] # "idle" =>
              pc'[a] = pc[a] \/ Place[pc'[a]] > Place[pc[a]]]_vars
  <2>. SUFFICES ASSUME TaskType, TaskType', Next
                PROVE  /\ TaskStep => \/ job' = "none"
                                      \/ calls' = calls + 1 /\ calls' <= MaxCalls
                       /\ \A a \in Agents : pc[a] # "idle" /\ pc'[a] # "idle" =>
                            pc'[a] = pc[a] \/ Place[pc'[a]] > Place[pc[a]]
    BY DEF IInv
  <2>1. ASSUME TaskStep
        PROVE  job' = "none" \/ (calls' = calls + 1 /\ calls' <= MaxCalls)
    <3>1. calls' <= MaxCalls
      BY SnapAssumption DEF TaskType
    <3>. QED
      BY <2>1, <3>1 DEF TaskStep, CreateCalls, RemoveSeen, RemoveSkips, RemoveUnanswered,
                        Timeout, Call, EndTask
  <2>2. ASSUME NEW a \in Agents, pc[a] # "idle", pc'[a] # "idle"
        PROVE  pc'[a] = pc[a] \/ Place[pc'[a]] > Place[pc[a]]
    <3>1. ASSUME NEW s \in Planned, CreateTask(s) \/ RemoveTask(s) PROVE pc' = pc
      BY <3>1 DEF CreateTask, RemoveTask, Begin
    <3>2. ASSUME TaskStep PROVE pc'[a] = pc[a]
      <4>1. pc' = pc \/ \E b \in Agents : \E command :
              pc[b] = "idle" /\ pc' = [pc EXCEPT ![b] = command]
        BY <3>2 DEF TaskStep, CreateCalls, RemoveSeen, RemoveSkips, RemoveUnanswered,
                    Timeout, Call
      <4>. QED
        BY <2>2, <4>1 DEF TaskType
    <3>3. ASSUME NEW b \in Agents, AgentStep(b), b # a PROVE pc'[a] = pc[a]
      <4>1. \E command : pc' = [pc EXCEPT ![b] = command]
        BY <3>3 DEF AgentStep, MakeCacheVolume, MakeCacheObject, PollDevopen, StartCache,
             MakeSnapshot, Dissociate, RemoveVolume, StopCache, RemoveCache, Goto, Reply
      <4>. QED
        BY <3>3, <4>1 DEF TaskType
    <3>4. ASSUME NEW b \in Agents, AgentStops(b) PROVE pc'[a] = pc[a]
      BY <2>2, <3>4 DEF AgentStops, TaskType
    <3>. QED
      BY <2>2, <3>1, <3>2, <3>3, <3>4, AgentGoesOn DEF Next
  <2>. QED
    BY <2>1, <2>2
<1>. QED
  BY <1>1, InitIInv, NextIInv, PTL DEF Spec
=============================================================================
