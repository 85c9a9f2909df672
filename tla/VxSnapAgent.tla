---------------------------- MODULE VxSnapAgent ----------------------------
(***************************************************************************)
(* The VxVM records behind space-optimised snapshots of one disk group,    *)
(* and the two programs that change them: the create and remove tasks of   *)
(* the plugin (drivers/vxvm.py) and the actions of the vxvmsnapshot agent  *)
(* they call on the node that imports the group.  A call has a timeout     *)
(* shorter than the agent's own, so an agent may go on after its caller    *)
(* gave up, a removal that is called again may run twice at a time, and    *)
(* an agent of one task may still run when the next task starts.           *)
(*                                                                         *)
(* A snapshot s has a cache volume (LV...), a cache object (LO...) built   *)
(* on that volume, and the snapshot volume (L_...) that writes to the      *)
(* cache.  Only return codes decide what an agent does next.               *)
(***************************************************************************)
EXTENDS Naturals

CONSTANTS
    Snaps,        \* snapshots, of one or several file systems of the group
    Planned,      \* bound: those the plans create and remove, the others stay
    Agents,       \* bound on agent actions running at a time
    StartsWith,   \* <<t, s>>: the name of t starts with the name of s
    NoAgent,      \* not in Agents
    MaxCalls      \* calls a removal may make: one, and its retries

ASSUME SnapAssumption == /\ Snaps # {}
                         /\ Planned \subseteq Snaps
                         /\ StartsWith \subseteq Snaps \X Snaps
                         /\ \A s \in Snaps : <<s, s>> \in StartsWith
                         /\ NoAgent \notin Agents
                         /\ MaxCalls \in Nat \ {0}

VARIABLES
    cv,     \* snapshots whose cache volume exists
    co,     \* cache objects: absent, stopped or started
    sp,     \* snapshot volumes: absent, linked to their source, or loose
    pc,     \* the command each agent runs next, "idle" when it runs none
    on,     \* the snapshot an agent works on
    job,    \* the kind of task of the plan that is running
    target, \* the snapshot of the last task that started
    stage,  \* a task first checks, then waits for the agent it called
    callee, \* the agent a waiting task called last
    calls,  \* how often it has called
    told    \* the outcome of the last task for each snapshot

\* No part of the program: what the properties need to know of the past.
VARIABLE
    stale   \* agents called by a task after which another one has started
            \* for the same snapshot

records == <<cv, co, sp>>
task == <<job, target, stage, callee, calls>>
vars == <<records, pc, on, task, told, stale>>

CreateSteps == {"mkvol", "mkcache", "devopen", "remake", "start", "make"}
DeleteSteps == {"dis", "rmsnap", "stop", "rmcache"}

TypeOK == /\ cv \subseteq Snaps
          /\ co \in [Snaps -> {"absent", "stopped", "started"}]
          /\ sp \in [Snaps -> {"absent", "linked", "loose"}]
          /\ pc \in [Agents -> CreateSteps \cup DeleteSteps \cup {"idle"}]
          /\ on \in [Agents -> Snaps]
          /\ job \in {"none", "create", "remove"}
          /\ target \in Snaps
          /\ stage \in {"none", "check", "wait"}
          /\ callee \in Agents \cup {NoAgent}
          /\ calls \in 0 .. MaxCalls
          /\ told \in [Snaps -> {"nothing", "asked", "created", "removed",
                                 "skipped", "unseen", "failed"}]
          /\ stale \subseteq Agents

-----------------------------------------------------------------------------
\* Tasks of the plan.

\* One task runs at a time, but nothing waits for the agents of the last one.
\* A create is planned when no snapshot is known to exist.
Begin(s, kind) ==
    /\ job = "none"
    /\ job' = kind /\ target' = s /\ stage' = "check"
    /\ told' = [told EXCEPT ![s] = "asked"]
    /\ stale' = stale \cup {a \in Agents : pc[a] # "idle" /\ on[a] = s}
    /\ UNCHANGED <<records, pc, on, callee, calls>>

CreateTask(s) == told[s] # "created" /\ Begin(s, "create")
RemoveTask(s) == Begin(s, "remove")

\* The running task ends, and the plan knows how.
EndTask(outcome) ==
    /\ job' = "none" /\ stage' = "none" /\ callee' = NoAgent /\ calls' = 0
    /\ told' = [told EXCEPT ![target] = outcome]
    /\ UNCHANGED target

\* An agent starts on the task's snapshot with its first command.
Call(command) ==
    \E a \in Agents :
        /\ pc[a] = "idle"
        /\ pc' = [pc EXCEPT ![a] = command]
        /\ on' = [on EXCEPT ![a] = target]
        /\ stage' = "wait" /\ callee' = a /\ calls' = calls + 1
        /\ UNCHANGED <<job, target, told>>

\* create_snapshot reads the region size of the group, then calls the agent.
CreateCalls ==
    /\ job = "create" /\ stage = "check"
    /\ \/ Call("mkvol")
       \/ EndTask("failed") /\ UNCHANGED <<pc, on>>
    /\ UNCHANGED records

\* Mutant of Seen: the cache is not looked for, as when check_for_cache is off.
SeenNoCache(s) == \E t \in Snaps : <<t, s>> \in StartsWith /\ sp[t] = "linked"

\* is_snapshot_present with check_for_cache: grep finds a line that starts
\* with the name of the snapshot, of its cache volume or of its cache object.
Seen(s) == \E t \in Snaps : /\ <<t, s>> \in StartsWith
                            /\ sp[t] = "linked" \/ t \in cv \/ co[t] # "absent"

\* remove_snapshot skips a snapshot that is not seen; a call without an
\* answer is an error, and so counts as not seen.  The plan cannot tell the
\* two apart; "unseen" does, for the properties.
RemoveSeen == /\ job = "remove" /\ stage = "check"
              /\ Seen(target)
              /\ Call("dis")
              /\ UNCHANGED records
RemoveSkips == /\ job = "remove" /\ stage = "check"
               /\ ~Seen(target)
               /\ EndTask("skipped")
               /\ UNCHANGED <<records, pc, on>>
RemoveUnanswered == /\ job = "remove" /\ stage = "check"
                    /\ EndTask("unseen")
                    /\ UNCHANGED <<records, pc, on>>

\* Mutant of Timeout: a removal is called again whatever the count.
TimeoutForever ==
    /\ stage = "wait"
    /\ \/ job = "remove" /\ \E a \in Agents :
            /\ pc[a] = "idle"
            /\ pc' = [pc EXCEPT ![a] = "dis"]
            /\ on' = [on EXCEPT ![a] = target]
            /\ callee' = a
            /\ UNCHANGED <<job, target, stage, calls, told>>
       \/ job = "create" /\ EndTask("failed") /\ UNCHANGED <<pc, on>>
    /\ UNCHANGED records

\* Mutant of Timeout: one retry too many.
TimeoutOnceMore ==
    /\ stage = "wait"
    /\ IF job = "remove" /\ calls <= MaxCalls
       THEN Call("dis")
       ELSE EndTask("failed") /\ UNCHANGED <<pc, on>>
    /\ UNCHANGED records

\* No answer within the timeout of the call: a removal is called again while
\* it has retries, a create is not.  The agent that was called may still run.
Timeout ==
    /\ stage = "wait"
    /\ IF job = "remove" /\ calls < MaxCalls
       THEN Call("dis")
       ELSE EndTask("failed") /\ UNCHANGED <<pc, on>>
    /\ UNCHANGED records

-----------------------------------------------------------------------------
\* What an agent's commands return, by the state of the records they name.
\* Any command may also fail for a reason of its own and change nothing.

\* The agent ends; the plan hears of it if it still waits for this agent.
Reply(a, outcome) ==
    /\ pc' = [pc EXCEPT ![a] = "idle"]
    /\ stale' = stale \ {a}
    /\ IF stage = "wait" /\ callee = a
       THEN EndTask(outcome)
       ELSE UNCHANGED <<task, told>>
    /\ UNCHANGED on

Goto(a, command) == /\ pc' = [pc EXCEPT ![a] = command]
                    /\ UNCHANGED <<on, task, told, stale>>

\* vxassist make of the cache volume; 12 when the record already exists.
MakeCacheVolume(a) ==
    /\ pc[a] = "mkvol"
    /\ \/ /\ cv' = cv \cup {on[a]}
          /\ UNCHANGED <<co, sp>>
          /\ Goto(a, "mkcache")
       \/ Reply(a, "failed") /\ UNCHANGED records

\* vxmake of the cache object on its volume; 12 when it already exists.  The
\* first failure goes to the devopen loop, the second ends the action.
MakeCacheObject(a) ==
    /\ pc[a] \in {"mkcache", "remake"}
    /\ \/ /\ on[a] \in cv
          /\ co' = [co EXCEPT ![on[a]] = IF @ = "absent" THEN "stopped" ELSE @]
          /\ UNCHANGED <<cv, sp>>
          /\ Goto(a, "start")
       \/ /\ pc[a] = "mkcache"
          /\ Goto(a, "devopen")
          /\ UNCHANGED records
       \/ /\ pc[a] = "remake"
          /\ Reply(a, "failed")
          /\ UNCHANGED records

\* devopen is polled for a minute: off lets vxmake run once more, or the
\* action fails and leaves the cache volume.
PollDevopen(a) == /\ pc[a] = "devopen"
                  /\ Goto(a, "remake") \/ Reply(a, "failed")
                  /\ UNCHANGED records

\* vxcache start; 25 when it is already started.
StartCache(a) ==
    /\ pc[a] = "start"
    /\ \/ /\ co[on[a]] # "absent"
          /\ co' = [co EXCEPT ![on[a]] = "started"]
          /\ UNCHANGED <<cv, sp>>
          /\ Goto(a, "make")
       \/ Reply(a, "failed") /\ UNCHANGED records

\* Mutant of MakeSnapshot: a record that already exists is taken for success.
MakeSnapshotTolerant(a) ==
    /\ pc[a] = "make"
    /\ \/ /\ co[on[a]] = "started" /\ sp[on[a]] = "absent"
          /\ sp' = [sp EXCEPT ![on[a]] = "linked"]
          /\ UNCHANGED <<cv, co>>
          /\ Reply(a, "created")
       \/ Reply(a, "created") /\ UNCHANGED records

\* vxsnap make, the last command: only 0 is a success.
MakeSnapshot(a) ==
    /\ pc[a] = "make"
    /\ \/ /\ co[on[a]] = "started" /\ sp[on[a]] = "absent"
          /\ sp' = [sp EXCEPT ![on[a]] = "linked"]
          /\ UNCHANGED <<cv, co>>
          /\ Reply(a, "created")
       \/ Reply(a, "failed") /\ UNCHANGED records

\* vxsnap dis; 20 when it is already dissociated, 2 when it is gone.
Dissociate(a) ==
    /\ pc[a] = "dis"
    /\ \/ /\ sp' = [sp EXCEPT ![on[a]] = IF @ = "linked" THEN "loose" ELSE @]
          /\ UNCHANGED <<cv, co>>
          /\ Goto(a, "rmsnap")
       \/ Reply(a, "failed") /\ UNCHANGED records

\* Mutant of RemoveVolume: the chain does not break on a code out of its list.
RemoveVolumeGoesOn(a) ==
    /\ pc[a] = "rmsnap"
    /\ \/ /\ sp[on[a]] # "linked"
          /\ sp' = [sp EXCEPT ![on[a]] = "absent"]
          /\ UNCHANGED <<cv, co>>
       \/ UNCHANGED records
    /\ Goto(a, "stop")

\* vxedit rm of the snapshot volume; 11 when it is gone.
RemoveVolume(a) ==
    /\ pc[a] = "rmsnap"
    /\ \/ /\ sp[on[a]] # "linked"
          /\ sp' = [sp EXCEPT ![on[a]] = "absent"]
          /\ UNCHANGED <<cv, co>>
          /\ Goto(a, "stop")
       \/ Reply(a, "failed") /\ UNCHANGED records

\* Mutant of StopCache: a broken chain is still answered as a success.
StopCacheUnreported(a) ==
    /\ pc[a] = "stop"
    /\ \/ /\ sp[on[a]] = "absent"
          /\ co' = [co EXCEPT ![on[a]] = IF @ = "started" THEN "stopped" ELSE @]
          /\ UNCHANGED <<cv, sp>>
          /\ Goto(a, "rmcache")
       \/ Reply(a, "removed") /\ UNCHANGED records

\* vxcache stop; 26 when it is already stopped, 11 when it is gone.
StopCache(a) ==
    /\ pc[a] = "stop"
    /\ \/ /\ sp[on[a]] = "absent"
          /\ co' = [co EXCEPT ![on[a]] = IF @ = "started" THEN "stopped" ELSE @]
          /\ UNCHANGED <<cv, sp>>
          /\ Goto(a, "rmcache")
       \/ Reply(a, "failed") /\ UNCHANGED records

\* vxedit rm of the cache object, which takes its volume along; 11 when it is
\* gone, and then a cache volume on its own stays.
RemoveCache(a) ==
    /\ pc[a] = "rmcache"
    /\ \/ /\ co[on[a]] # "started"
          /\ cv' = IF co[on[a]] = "absent" THEN cv ELSE cv \ {on[a]}
          /\ co' = [co EXCEPT ![on[a]] = "absent"]
          /\ UNCHANGED sp
          /\ Reply(a, "removed")
       \/ Reply(a, "failed") /\ UNCHANGED records

\* The agent's own timeout or a restart of its node ends it without an answer.
AgentStops(a) == /\ pc[a] # "idle"
                 /\ pc' = [pc EXCEPT ![a] = "idle"]
                 /\ stale' = stale \ {a}
                 /\ UNCHANGED <<records, on, task, told>>

AgentStep(a) == \/ MakeCacheVolume(a) \/ MakeCacheObject(a) \/ PollDevopen(a)
                \/ StartCache(a) \/ MakeSnapshot(a)
                \/ Dissociate(a) \/ RemoveVolume(a) \/ StopCache(a)
                \/ RemoveCache(a)

TaskStep == /\ CreateCalls \/ RemoveSeen \/ RemoveSkips \/ RemoveUnanswered
               \/ Timeout
            /\ UNCHANGED stale

Full(s) == sp[s] = "linked" /\ co[s] = "started" /\ s \in cv
Gone(s) == sp[s] = "absent" /\ co[s] = "absent" /\ s \notin cv
Cleared(s) == sp[s] = "absent" /\ co[s] = "absent"

\* What the next command of a removal needs of the ones before it.
InOrder(a) == /\ pc[a] = "rmsnap" => sp[on[a]] # "linked"
              /\ pc[a] = "stop" => sp[on[a]] = "absent"
              /\ pc[a] = "rmcache" => sp[on[a]] = "absent" /\ co[on[a]] # "started"

Init == /\ \E made \in SUBSET Snaps :
              /\ cv = made
              /\ co = [s \in Snaps |-> IF s \in made THEN "started" ELSE "absent"]
              /\ sp = [s \in Snaps |-> IF s \in made THEN "linked" ELSE "absent"]
        /\ pc = [a \in Agents |-> "idle"]
        /\ \E s \in Snaps : /\ on = [a \in Agents |-> s]
                            /\ target = s
        /\ job = "none" /\ stage = "none" /\ callee = NoAgent /\ calls = 0
        /\ told = [s \in Snaps |-> "nothing"]
        /\ stale = {}

Next == \/ \E s \in Planned : CreateTask(s) \/ RemoveTask(s)
        \/ TaskStep
        \/ \E a \in Agents : AgentStep(a) \/ AgentStops(a)

Spec == Init /\ [][Next]_vars

\* The plan goes on to its next call or answer, and every command ends.
FairSpec == Spec /\ WF_vars(TaskStep) /\ \A a \in Agents : WF_vars(AgentStep(a))

-----------------------------------------------------------------------------
\* One of the commands runs on s by an agent that nobody waits for: its task
\* has ended, and the next one for s has started.
LateCommand(s, commands) ==
    \E a \in stale : on[a] = s /\ pc[a] \in commands /\ pc'[a] # pc[a]

\* A snapshot that the plan was told is created is complete, on its started
\* cache, and stays so until the next task for it: create_snapshot reports
\* success only if the last command succeeded on what the earlier ones made.
\* One thing can undo it: a delete_snapshot that an earlier removal gave up
\* waiting for, and that dissociates the new snapshot.
CreatedIsFull ==
    [][\A s \in Snaps : told'[s] = "created" =>
         \/ Full(s)'
         \/ told[s] = "created" /\ ~Full(s)
         \/ LateCommand(s, {"dis"})]_vars

\* After delete_snapshot succeeded neither the snapshot nor its cache object
\* is left, whichever of the chains of a repeated removal answered, and this
\* stays so, unless a create_snapshot of an earlier task is only now coming to
\* make the cache object.
RemovedIsGone ==
    [][\A s \in Snaps : told'[s] = "removed" =>
         \/ Cleared(s)'
         \/ told[s] = "removed" /\ ~Cleared(s)
         \/ LateCommand(s, {"mkcache", "remake"})]_vars

\* Each command of delete_snapshot finds what the one before had to bring
\* about, although other chains of the same removal run interleaved with it;
\* only an agent of an earlier task can take it away.
ChainInOrder ==
    [][\A a \in Agents \ stale' :
         \/ InOrder(a)'
         \/ pc'[a] = pc[a] /\ ~InOrder(a)
         \/ LateCommand(on[a], CreateSteps)]_vars

\* A task ends, although agents may stop or stay silent.
TaskEnds == job # "none" ~> job = "none"

\* A removal that does nothing because an agent answered that it found
\* neither snapshot nor cache leaves nothing, not even the remains of a
\* creation or of a removal that failed half way, and nothing comes back
\* until the next task, but the cache volume of a creation that the plan gave
\* up before its first command.
SkippedIsGone ==
    [][\A s \in Snaps : told'[s] = "skipped" =>
         \/ Gone(s)'
         \/ told[s] = "skipped" /\ ~Gone(s)
         \/ LateCommand(s, {"mkvol"})]_vars

\* The message "No snapshot present" of a removal that did nothing is also
\* true when the call that looked for the snapshot was not answered.
UnseenIsGone == \A s \in Snaps : told[s] = "unseen" => Gone(s)

\* A removal that succeeded leaves no cache volume behind.
RemovedLeavesNothing == \A s \in Snaps : told[s] = "removed" => Gone(s)

\* Parts of the inductive invariants of VxSnapAgentProofs.
\* A snapshot volume stands on its cache, and a cache object on its volume.
Backed == \A s \in Snaps : /\ sp[s] # "absent" => co[s] = "started"
                           /\ co[s] # "absent" => s \in cv

\* A task that runs has asked, and waits for an agent that works on its snapshot.
Asked == /\ job # "none" => told[target] = "asked"
         /\ job = "none" => stage = "none" /\ callee = NoAgent
         /\ job # "none" => stage # "none"
         /\ stage # "wait" => callee = NoAgent /\ calls = 0
         /\ callee \in Agents => on[callee] = target

\* The agents that were called since the last task for their snapshot began
\* do what it asked: one creates, or several remove.
Current == {a \in Agents \ stale : pc[a] # "idle"}
Together ==
    /\ callee \notin stale
    /\ \A a \in stale : pc[a] # "idle"
    /\ \A a \in Current :
         /\ told[on[a]] \notin {"nothing", "created", "skipped", "unseen"}
         /\ pc[a] \in CreateSteps =>
              /\ told[on[a]] # "removed"
              /\ \A b \in Current : on[b] = on[a] => a = b
         /\ on[a] = target /\ job # "none" =>
              /\ stage = "wait"
              /\ pc[a] \in CreateSteps <=> job = "create"

\* Whatever agents do concurrently, tasks are answered as SnapLifecycle says.
phase == [s \in Snaps |-> IF Full(s) THEN "full"
                          ELSE IF Gone(s) THEN "none" ELSE "partial"]
Lifecycle == INSTANCE SnapLifecycle WITH Snaps <- Snaps, phase <- phase, told <- told
ImplementsLifecycle == Lifecycle!Spec
=============================================================================
