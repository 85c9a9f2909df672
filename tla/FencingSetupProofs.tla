------------------------- MODULE FencingSetupProofs -------------------------
(***************************************************************************)
(* Proofs about the set-up of the fencing disk group, for any number of    *)
(* disks, of old groups and of attempts.  Where names matter the theorems  *)
(* assume that no disk has a name that is part of the name of a disk       *)
(* before it (NamesApart): disk_is_in_group confuses such disks.           *)
(***************************************************************************)
EXTENDS FencingSetup, TLAPS

IInv == TypeOK /\ Cleared /\ Freed /\ Begun /\ Filled /\ Made /\ RetrySucceeds

\* Before its first call the task relies on nothing that is on the disks.
LEMMA InitInv == Init => IInv
  <1> USE FencingAssumption DEF Disks, Groups
  <1> SUFFICES ASSUME Init PROVE IInv
    OBVIOUS
  <1>1. TypeOK
    <2>1. RecordsTyped
      BY DEF Init, RecordsTyped
    <2>2. TaskTyped
      BY DEF Init, TaskTyped, Calls
    <2> QED
      BY <2>1, <2>2 DEF Init, TypeOK
  <1>2. Cleared /\ Freed /\ Begun /\ Filled /\ Made /\ RetrySucceeds
    <2>1. pc = "clear" /\ cur = 1 /\ keys \subseteq Disks
      BY DEF Init
    <2> QED
      BY <2>1 DEF Cleared, Freed, Begun, Filled, Made, RetrySucceeds
  <1> QED
    BY <1>1, <1>2 DEF IInv

\* A call changes records within their types.
LEMMA RecordsStay == RecordsTyped /\ TaskTyped /\ [Next]_vars => RecordsTyped'
  <1> SUFFICES ASSUME RecordsTyped, TaskTyped, [Next]_vars PROVE RecordsTyped'
    OBVIOUS
  <1> USE DEF RecordsTyped
  <1>1. CASE UNCHANGED records
    BY <1>1 DEF records
  <1>2. CASE ClearKeys
    BY <1>2 DEF ClearKeys, KeysCleared
  <1>3. CASE \E g \in Groups : ImportT(g) \/ CoordinatorOn(g) \/ CoordinatorOff(g)
    BY <1>3 DEF ImportT, CoordinatorOn, CoordinatorOff, records
  <1>4. CASE \E g \in Groups : Deported(g) \/ Destroyed(g)
    BY <1>4 DEF Deported, Destroyed, records
  <1>5. CASE \E d \in Disks : DiskSetUp(d) \/ DiskAdded(d)
    BY <1>5 DEF DiskSetUp, DiskAdded, Groups
  <1>6. CASE GroupCreated(1)
    BY <1>6 DEF GroupCreated, Groups
  <1>7. CASE NodeRestart
    BY <1>7 DEF NodeRestart
  <1> QED
    BY <1>1, <1>2, <1>3, <1>4, <1>5, <1>6, <1>7 DEF Next, Step, ListDisk,
       ImportFound, UncoordFound, DestroyFound, SetUpDisk, CreateGroup, AddDisk,
       SetCoordinator, Deport, Reimport, Redeport, Fault, Again, TaskTyped,
       Groups, vars

\* The task goes from call to call, and over the disks.
LEMMA TaskStays == RecordsTyped /\ TaskTyped /\ [Next]_vars => TaskTyped'
  <1> SUFFICES ASSUME RecordsTyped, TaskTyped, [Next]_vars PROVE TaskTyped'
    OBVIOUS
  <1> USE FencingAssumption DEF TaskTyped, Calls, Disks
  <1>1. CASE UNCHANGED task \/ Stop \/ Repeat
    BY <1>1 DEF task, Stop, Repeat
  <1>2. ASSUME NEW call \in Calls \cup {"done"}, NEW d \in Disks, Goto(call, d)
        PROVE  TaskTyped'
    BY <1>2 DEF Goto
  <1>3. ASSUME NEW call \in Calls, NEW after \in Calls, NextDisk(call, after)
        PROVE  TaskTyped'
    BY <1>1, <1>3 DEF NextDisk, AnswerOrRepeat, Answer, Goto
  <1>4. CASE ClearKeys \/ SetUpDisk \/ CreateGroup \/ AddDisk
    BY <1>1, <1>3, <1>4 DEF ClearKeys, SetUpDisk, CreateGroup, AddDisk
  <1>5. CASE ListDisk
    BY <1>5 DEF ListDisk, Goto
  <1>6. CASE \/ ImportFound \/ UncoordFound \/ DestroyFound \/ SetCoordinator
             \/ Deport \/ Reimport \/ Redeport
    BY <1>1, <1>2, <1>6 DEF ImportFound, UncoordFound, DestroyFound,
       SetCoordinator, Deport, Reimport, Redeport, Answer
  <1>7. CASE Fault \/ NodeRestart \/ UNCHANGED vars
    BY <1>1, <1>7 DEF Fault, NodeRestart, vars
  <1>8. CASE Again
    BY <1>8 DEF Again
  <1> QED
    BY <1>4, <1>5, <1>6, <1>7, <1>8 DEF Next, Step

\* Only a new plan chooses anew whether its commands may fail.
LEMMA CalmStays == [Next]_vars => calm' = calm \/ Again
  BY DEF Next, Step, ClearKeys, ListDisk, ImportFound, UncoordFound, DestroyFound,
         SetUpDisk, CreateGroup, AddDisk, SetCoordinator, Deport, Reimport,
         Redeport, Fault, NodeRestart, NextDisk, AnswerOrRepeat, Answer, Goto,
         Stop, Repeat, vars, task

LEMMA NextTyped == TypeOK /\ [Next]_vars => TypeOK'
  <1> SUFFICES ASSUME TypeOK, [Next]_vars PROVE TypeOK'
    OBVIOUS
  <1>1. RecordsTyped' /\ TaskTyped'
    BY RecordsStay, TaskStays DEF TypeOK
  <1>2. calm' \in BOOLEAN
    BY CalmStays DEF TypeOK, Again
  <1> QED
    BY <1>1, <1>2 DEF TypeOK

\* TypeOK holds always: whatever the answers, the task stays within the disks.
THEOREM TypeCorrect == Spec => []TypeOK
  <1>1. Init => TypeOK
    BY InitInv DEF IInv
  <1> QED
    BY <1>1, NextTyped, PTL DEF Spec

\* A step that does not go on leaves nothing to show but that it was not calm.
LEMMA StoppedInv == ASSUME TypeOK', pc' = "failed", ~calm' PROVE IInv'
  BY DEF IInv, Cleared, Freed, Begun, Filled, Made, RetrySucceeds

LEMMA StopInv == ASSUME TypeOK', ~calm /\ Stop PROVE IInv'
  BY StoppedInv DEF Stop

LEMMA ClearStep == ASSUME IInv, TypeOK', ClearKeys PROVE IInv'
  <1> USE FencingAssumption DEF Disks, Groups
  <1>1. CASE pc' = "failed"
    BY <1>1, StoppedInv DEF ClearKeys, NextDisk, AnswerOrRepeat, Answer, Goto,
                            Stop, Repeat
  <1>2. CASE pc' # "failed"
    <2>0. /\ pc = "clear" /\ cur \in Disks /\ keys \subseteq Disks
          /\ UNCHANGED calm
      BY DEF ClearKeys, NextDisk, AnswerOrRepeat, Answer, Goto, Stop, Repeat,
             IInv, TypeOK, RecordsTyped, TaskTyped
    <2>1. calm => keys' = keys \ {cur} /\ \A d \in keys : d >= cur
      BY <2>0 DEF ClearKeys, KeysCleared, IInv, Cleared
    <2>2. \/ pc' = "clear" /\ cur' = cur + 1
          \/ pc' = "list" /\ cur' = 1 /\ cur = N
          \/ pc' = "clear" /\ cur' = cur
      BY <1>2, <2>0 DEF ClearKeys, NextDisk, AnswerOrRepeat, Answer, Goto, Stop, Repeat
    <2>3. Cleared'
      <3>1. CASE ~calm
        BY <2>0, <3>1 DEF Cleared
      <3>2. CASE calm
        <4>1. keys' = keys \ {cur} /\ \A d \in keys : d >= cur
          BY <2>1, <3>2
        <4>2. pc' = "clear" => \A d \in keys' : d >= cur'
          BY <2>0, <2>2, <4>1
        <4>3. pc' # "clear" => keys' = {}
          BY <2>0, <2>2, <4>1
        <4> QED
          BY <4>2, <4>3 DEF Cleared
      <3> QED
        BY <3>1, <3>2
    <2>4. Freed' /\ Begun' /\ Filled' /\ Made' /\ RetrySucceeds'
      BY <1>2, <2>0, <2>2 DEF Freed, Begun, Filled, Made, RetrySucceeds
    <2> QED
      BY <2>3, <2>4 DEF IInv
  <1> QED
    BY <1>1, <1>2

LEMMA SetUpStep == ASSUME IInv, TypeOK', SetUpDisk PROVE IInv'
  <1> USE FencingAssumption DEF Disks, Groups
  <1>1. CASE pc' = "failed"
    BY <1>1, StoppedInv DEF SetUpDisk, NextDisk, AnswerOrRepeat, Answer, Goto,
                            Stop, Repeat
  <1>2. CASE pc' # "failed"
    <2>1. /\ pc = "setup" /\ cur \in Disks /\ (calm => keys = {})
          /\ disk' = [disk EXCEPT ![cur] = "free"]
          /\ \A d \in Disks : d < cur => disk[d] = "free"
          /\ UNCHANGED <<imported, auto, coord, keys, calm>>
          /\ disk \in [Disks -> {"raw", "free"} \cup Groups]
          /\ imported \subseteq Groups
      BY DEF SetUpDisk, DiskSetUp, NextDisk, AnswerOrRepeat, Answer, Goto, Stop,
             Repeat, IInv, TypeOK, RecordsTyped, TaskTyped, Cleared, Freed
    <2>2. \/ pc' = "list" /\ cur' = cur + 1
          \/ pc' = "create" /\ cur' = 1 /\ cur = N
          \/ pc' = "setup" /\ cur' = cur
      BY <1>2, <2>1 DEF SetUpDisk, NextDisk, AnswerOrRepeat, Answer, Goto, Stop,
                        Repeat
    <2>3. \A d \in Disks : d <= cur => disk'[d] = "free"
      BY <2>1
    <2>4. Freed' /\ Begun'
      BY <2>1, <2>2, <2>3 DEF Freed, Begun
    <2>5. Cleared' /\ Filled' /\ Made' /\ RetrySucceeds'
      BY <1>2, <2>1, <2>2 DEF Cleared, Filled, Made, RetrySucceeds
    <2> QED
      BY <2>4, <2>5 DEF IInv
  <1> QED
    BY <1>1, <1>2

\* The four calls that free one disk of the group it is in.
LEMMA CheckSteps ==
    ASSUME IInv, TypeOK', ListDisk \/ ImportFound \/ UncoordFound \/ DestroyFound
    PROVE  IInv'
  <1> USE FencingAssumption DEF Disks, Groups
  <1> USE DEF IInv, TypeOK, RecordsTyped, TaskTyped, Cleared, Freed
  <1>1. CASE ListDisk
    BY <1>1 DEF ListDisk, Goto, records, Begun, Filled, Made, RetrySucceeds
  <1>2. CASE ImportFound
    BY <1>2 DEF ImportFound, ImportT, Answer, Goto, Stop, records, Begun, Filled,
                Made, RetrySucceeds
  <1>3. CASE UncoordFound
    BY <1>3 DEF UncoordFound, CoordinatorOff, Answer, Goto, Stop, records, Begun,
                Filled, Made, RetrySucceeds
  <1>4. CASE DestroyFound
    BY <1>4 DEF DestroyFound, Destroyed, Answer, Goto, Stop, records, Begun,
                Filled, Made, RetrySucceeds
  <1> QED
    BY <1>1, <1>2, <1>3, <1>4

LEMMA CreateStep == ASSUME IInv, TypeOK', CreateGroup PROVE IInv'
  <1> USE FencingAssumption DEF Disks, Groups
  <1> USE DEF IInv, TypeOK, RecordsTyped, TaskTyped, Cleared, Begun
  <1>1. CASE GroupCreated(1) /\ NextDisk("add", "coord")
    <2>1. disk'[1] = Ours /\ Ours \in imported' \ coord'
      BY <1>1 DEF GroupCreated, CreateGroup, Exists
    <2>2. \A d \in Disks : d > 1 => disk'[d] = "free"
      BY <1>1 DEF GroupCreated, CreateGroup
    <2> QED
      BY <1>1, <2>1, <2>2 DEF GroupCreated, NextDisk, AnswerOrRepeat, Answer,
         Goto, Stop, Repeat, Freed, Filled, Made, RetrySucceeds, CreateGroup
  <1>2. CASE ~Exists(Ours) /\ disk[1] # "free" /\ Stop /\ UNCHANGED records
    BY <1>2 DEF CreateGroup, Exists
  <1> QED
    BY <1>1, <1>2 DEF CreateGroup

LEMMA AddStep == ASSUME NamesApart, IInv, TypeOK', AddDisk PROVE IInv'
  <1> USE FencingAssumption DEF Disks, Groups
  <1> USE DEF IInv, TypeOK, RecordsTyped, TaskTyped, Cleared, Filled
  <1>0. pc = "add"
    BY DEF AddDisk
  <1>1. InGroup(cur) <=> disk[cur] = Ours
    <2>1. <<cur, cur>> \in Contains /\ cur \in Disks
      OBVIOUS
    <2>2. ASSUME NEW e \in Disks, <<e, cur>> \in Contains, disk[e] = Ours
          PROVE  e = cur
      <3>1. e >= cur
        BY <2>2 DEF NamesApart
      <3>2. e > cur => disk[e] = "free"
        BY <1>0, <2>2
      <3> QED
        BY <2>2, <3>1, <3>2
    <2> QED
      BY <2>1, <2>2 DEF InGroup
  <1>2. CASE DiskAdded(cur) /\ NextDisk("add", "coord")
    <2>1. /\ disk' = [disk EXCEPT ![cur] = Ours]
          /\ UNCHANGED <<imported, auto, coord, keys>>
      BY <1>1, <1>2 DEF DiskAdded
    <2> QED
      BY <1>0, <1>2, <2>1 DEF NextDisk, AnswerOrRepeat, Answer, Goto, Stop,
         Repeat, Freed, Begun, Made, RetrySucceeds
  <1>3. CASE ~CanAdd(cur) /\ Stop /\ UNCHANGED records
    BY <1>0, <1>1, <1>3 DEF CanAdd
  <1> QED
    BY <1>2, <1>3 DEF AddDisk

\* The import with -t may fail unheard, if the attempt is not calm.
LEMMA ReimportStep == ASSUME IInv, TypeOK', Reimport PROVE IInv'
  <1>1. pc = "reimport" /\ Made /\ (calm => keys = {}) /\ Ours \in Groups
    BY DEF Reimport, IInv, Cleared, Groups
  <1>2. Exists(Ours)
    <2>1. 1 \in Disks
      BY FencingAssumption DEF Disks
    <2> QED
      BY <1>1, <2>1 DEF Made, Exists
  <1>3. /\ calm => Ours \in imported'
        /\ Ours \in imported' => Ours \notin auto'
        /\ UNCHANGED <<disk, coord, keys>>
    <2>1. CASE /\ Exists(Ours) /\ Ours \notin imported
               /\ imported' = imported \cup {Ours} /\ auto' = auto \ {Ours}
               /\ UNCHANGED <<disk, coord, keys>>
      BY <2>1
    <2>2. CASE Ours \in imported \/ (~calm /\ UNCHANGED records)
      BY <1>1, <2>2 DEF Made, records
    <2> QED
      BY <1>2, <2>1, <2>2 DEF Reimport, ImportT
  <1>4. CASE Goto("redeport", 1)
    BY <1>1, <1>3, <1>4 DEF Goto, IInv, Made, Cleared, Freed, Begun, Filled,
                            RetrySucceeds
  <1>5. CASE ~calm /\ Stop
    BY <1>5, StopInv
  <1> QED
    BY <1>4, <1>5 DEF Reimport, Answer

\* The calls after the group is made.
LEMMA LastSteps ==
    ASSUME IInv, TypeOK', SetCoordinator \/ Deport \/ Reimport \/ Redeport
    PROVE  IInv'
  <1> USE FencingAssumption DEF Disks, Groups
  <1> USE DEF IInv, TypeOK, RecordsTyped, TaskTyped, Cleared, Made, Freed, Begun,
              Filled, RetrySucceeds
  <1>1. CASE SetCoordinator
    BY <1>1 DEF SetCoordinator, CoordinatorOn, Answer, Goto, Stop, records
  <1>2. CASE Deport
    BY <1>2 DEF Deport, Deported, Answer, Goto, Stop, records
  <1>3. CASE Reimport
    BY <1>3, ReimportStep
  <1>4. CASE Redeport
    BY <1>4 DEF Redeport, Deported, Answer, Goto, Stop, records
  <1> QED
    BY <1>1, <1>2, <1>3, <1>4

LEMMA OtherSteps ==
    ASSUME IInv, TypeOK', Fault \/ Again \/ NodeRestart \/ UNCHANGED vars
    PROVE  IInv'
  <1> USE FencingAssumption DEF Disks, Groups
  <1> USE DEF IInv, TypeOK, RecordsTyped, TaskTyped, Cleared, Freed, Begun,
              Filled, Made, RetrySucceeds
  <1>1. CASE Fault
    BY <1>1, StoppedInv DEF Fault, Stop
  <1>2. CASE Again
    BY <1>2 DEF Again, records
  <1>3. CASE NodeRestart
    <2>1. CASE pc \in Calls
      BY <1>3, <2>1, StoppedInv DEF NodeRestart, Stop
    <2>2. CASE pc \notin Calls
      BY <1>3, <2>2 DEF NodeRestart, task, Calls
    <2> QED
      BY <2>1, <2>2
  <1>4. CASE UNCHANGED vars
    BY <1>4 DEF vars, records, task
  <1> QED
    BY <1>1, <1>2, <1>3, <1>4

LEMMA NextInv == ASSUME NamesApart, IInv, [Next]_vars PROVE IInv'
  <1>1. TypeOK'
    BY NextTyped DEF IInv
  <1> QED
    BY <1>1, ClearStep, SetUpStep, CheckSteps, CreateStep, AddStep, LastSteps,
       OtherSteps DEF Next, Step

LEMMA AlwaysIInv == ASSUME NamesApart PROVE Spec => []IInv
  <1>1. IInv /\ [Next]_vars => IInv'
    BY NextInv
  <1> QED
    BY InitInv, <1>1, PTL DEF Spec

\* A task that ends well has every fencing disk in the group of the cluster,
\* which stays deported on the node also when that restarts.
THEOREM SetupComplete == ASSUME NamesApart PROVE Spec => []SetupIsComplete
  <1>1. IInv => SetupIsComplete
    BY DEF IInv, Made, Cleared, SetupIsComplete
  <1> QED
    BY AlwaysIInv, <1>1, PTL

\* An attempt in which no command fails for a reason of its own succeeds,
\* whatever earlier installations and attempts left.
THEOREM RetryWorks == ASSUME NamesApart PROVE Spec => []RetrySucceeds
  <1>1. IInv => RetrySucceeds
    BY DEF IInv
  <1> QED
    BY AlwaysIInv, <1>1, PTL

(***************************************************************************)
(* An attempt takes finitely many calls, and each of them has an outcome.  *)
(***************************************************************************)
\* The rounds of the task, and the calls it makes for a disk in a round.
Round == [clear |-> 1, list |-> 2, import |-> 2, uncoord |-> 2, destroy |-> 2, setup |-> 2,
          create |-> 3, add |-> 4, coord |-> 5, deport |-> 6, reimport |-> 7, redeport |-> 8]
Place == [clear |-> 1, list |-> 1, import |-> 2, uncoord |-> 3, destroy |-> 4, setup |-> 5,
          create |-> 1, add |-> 1, coord |-> 1, deport |-> 1, reimport |-> 1, redeport |-> 1]

\* The task goes on to a later round, to a later disk of its round, to a later
\* call for its disk, or repeats a call it made once.
Advances == \/ Round[pc'] > Round[pc]
            \/ /\ Round[pc'] = Round[pc]
               /\ \/ cur' > cur
                  \/ cur' = cur /\ Place[pc'] > Place[pc]
                  \/ cur' = cur /\ pc' = pc /\ tries = 0 /\ tries' = 1

LEMMA RepeatAdvances ==
  ASSUME pc \in Calls, Repeat
  PROVE  Advances
  BY DEF Repeat, Advances

LEMMA StepAdvances ==
  ASSUME TypeOK, Step, pc' \in Calls
  PROVE  Advances
  <1>0. ~Stop
    BY DEF Stop, Calls
  <1>1. pc \in Calls /\ cur \in Nat
    BY DEF Step, ClearKeys, ListDisk, ImportFound, UncoordFound, DestroyFound, SetUpDisk,
           CreateGroup, AddDisk, SetCoordinator, Deport, Reimport, Redeport, Calls,
           TypeOK, TaskTyped, Disks
  <1>2. CASE Repeat
    BY <1>1, <1>2, RepeatAdvances
  <1>3. ASSUME NEW call, NEW after, NextDisk(call, after), ~Repeat
        PROVE  \/ pc' = call /\ cur' = cur + 1
               \/ pc' = after
    BY <1>0, <1>3 DEF NextDisk, AnswerOrRepeat, Answer, Goto
  <1>4. CASE ClearKeys /\ ~Repeat
    BY <1>1, <1>3, <1>4 DEF ClearKeys, Advances, Round
  <1>5. CASE ListDisk
    BY <1>5 DEF ListDisk, Goto, Advances, Round, Place
  <1>6. CASE ImportFound \/ UncoordFound \/ DestroyFound
    BY <1>0, <1>6 DEF ImportFound, UncoordFound, DestroyFound, Answer, Goto, Advances,
       Round, Place
  <1>7. CASE SetUpDisk /\ ~Repeat
    <2>1. pc = "setup" /\ ((pc' = "list" /\ cur' = cur + 1) \/ pc' = "create")
      BY <1>3, <1>7 DEF SetUpDisk
    <2> QED
      BY <1>1, <2>1 DEF Advances, Round
  <1>8. CASE (CreateGroup \/ AddDisk) /\ ~Repeat
    <2>1. pc \in {"create", "add"} /\ ((pc' = "add" /\ cur' = cur + 1) \/ pc' = "coord")
      BY <1>0, <1>3, <1>8 DEF CreateGroup, AddDisk
    <2> QED
      BY <1>1, <2>1 DEF Advances, Round
  <1>9. CASE SetCoordinator \/ Deport \/ Reimport \/ Redeport
    BY <1>0, <1>9 DEF SetCoordinator, Deport, Reimport, Redeport, Answer, Goto, Advances,
       Round, Calls
  <1> QED
    BY <1>2, <1>4, <1>5, <1>6, <1>7, <1>8, <1>9 DEF Step

\* While an attempt goes on every step advances it: over at most N disks in each
\* round, with at most one repetition of a call.  An attempt is finite.
THEOREM AttemptsAdvance ==
    Spec => [][(pc \in Calls /\ pc' \in Calls) => (Advances /\ cur' \in Disks)]_vars
  <1>1. TypeOK /\ TypeOK' /\ [Next]_vars =>
          [(pc \in Calls /\ pc' \in Calls) => (Advances /\ cur' \in Disks)]_vars
    <2> SUFFICES ASSUME TypeOK, TypeOK', Next, pc \in Calls, pc' \in Calls
                 PROVE  Advances /\ cur' \in Disks
      OBVIOUS
    <2>1. Step
      BY DEF Next, Fault, Again, NodeRestart, Stop, Calls
    <2>2. cur' \in Disks
      BY DEF TypeOK, TaskTyped
    <2> QED
      BY <2>1, <2>2, StepAdvances
  <1> QED
    BY <1>1, TypeCorrect, PTL DEF Spec

Rooted == \A g \in imported : Exists(g)

LEMMA RootedStep == ASSUME TypeOK, Rooted, [Next]_vars PROVE Rooted'
  <1> USE DEF Rooted, Exists
  <1>0. /\ disk \in [Disks -> {"raw", "free"} \cup Groups] /\ imported \subseteq Groups
        /\ "free" \notin Groups /\ Ours \in Groups
        /\ pc \in {"create", "add", "setup"} => cur \in Disks /\ 1 \in Disks
    BY FencingAssumption DEF TypeOK, RecordsTyped, TaskTyped, Groups, Disks
  <1>1. CASE UNCHANGED <<disk, imported>>
    BY <1>1
  <1>2. ASSUME NEW g \in Groups, ImportT(g) PROVE Rooted'
    BY <1>2 DEF ImportT, records
  <1>3. ASSUME NEW g \in Groups, Deported(g) PROVE Rooted'
    BY <1>3 DEF Deported
  <1>4. ASSUME NEW g \in Groups, Destroyed(g) PROVE Rooted'
    <2>1. CASE UNCHANGED records
      BY <1>1, <2>1 DEF records
    <2>2. CASE /\ disk' = [d \in Disks |-> IF disk[d] = g THEN "free" ELSE disk[d]]
               /\ imported' = imported \ {g}
      BY <2>2
    <2> QED
      BY <1>4, <2>1, <2>2 DEF Destroyed
  <1>5. ASSUME NEW d \in Disks, DiskSetUp(d) PROVE Rooted'
    <2>1. /\ disk' = IF disk[d] \in imported THEN disk ELSE [disk EXCEPT ![d] = "free"]
          /\ imported' = imported
      BY <1>5 DEF DiskSetUp
    <2>2. ASSUME NEW g \in imported, NEW e \in Disks, disk[e] = g PROVE disk'[e] = g
      BY <1>0, <2>1, <2>2
    <2> QED
      BY <2>1, <2>2
  <1>6. CASE GroupCreated(1) /\ 1 \in Disks
    <2>1. CASE Exists(Ours) /\ imported' = imported \cup {Ours} /\ disk' = disk
      BY <2>1
    <2>2. CASE /\ disk[1] = "free" /\ disk' = [disk EXCEPT ![1] = Ours]
               /\ imported' = imported \cup {Ours}
      BY <1>0, <1>6, <2>2
    <2> QED
      BY <1>6, <2>1, <2>2 DEF GroupCreated
  <1>7. ASSUME NEW d \in Disks, DiskAdded(d) PROVE Rooted'
    <2>1. /\ disk' = disk \/ (disk[d] = "free" /\ disk' = [disk EXCEPT ![d] = Ours])
          /\ imported' = imported
      BY <1>7 DEF DiskAdded, CanAdd
    <2>2. ASSUME NEW g \in imported, NEW e \in Disks, disk[e] = g PROVE disk'[e] = g
      BY <1>0, <2>1, <2>2
    <2> QED
      BY <2>1, <2>2
  <1>8. CASE NodeRestart
    BY <1>8 DEF NodeRestart
  <1>9. CASE \/ ClearKeys \/ ListDisk \/ SetCoordinator \/ UncoordFound
             \/ Fault \/ Again \/ UNCHANGED vars
    BY <1>1, <1>9 DEF ClearKeys, KeysCleared, ListDisk, SetCoordinator, CoordinatorOn,
       UncoordFound, CoordinatorOff, Fault, Again, records, vars
  <1>10. CASE ImportFound \/ Reimport \/ Deport \/ Redeport \/ DestroyFound
    <2>1. found \in Groups
      BY DEF TypeOK, TaskTyped
    <2> QED
      BY <1>0, <1>1, <1>2, <1>3, <1>4, <1>10, <2>1
         DEF ImportFound, Reimport, Deport, Redeport, DestroyFound, records
  <1>11. CASE SetUpDisk \/ CreateGroup \/ AddDisk
    BY <1>0, <1>1, <1>5, <1>6, <1>7, <1>11 DEF SetUpDisk, CreateGroup, AddDisk, records
  <1> QED
    BY <1>8, <1>9, <1>10, <1>11 DEF Next, Step

\* A group that is imported has a disk, so that the creation of the group never
\* meets an imported name without disks, for which vxdg init would answer with
\* neither of the outcomes that the task knows: the first disk is in a group,
\* or the group of the cluster exists, or its name is free to be taken.
THEOREM CreationHasOutcome ==
    Spec => [](/\ \A g \in imported : Exists(g)
               /\ pc = "create" => \/ Exists(Ours)
                                   \/ disk[1] # "free"
                                   \/ Ours \notin imported)
  <1>1. Init => Rooted
    BY DEF Init, Rooted
  <1>2. TypeOK /\ Rooted /\ [Next]_vars => Rooted'
    BY RootedStep
  <1>3. Rooted => /\ \A g \in imported : Exists(g)
                  /\ pc = "create" => Exists(Ours) \/ disk[1] # "free" \/ Ours \notin imported
    BY DEF Rooted
  <1> QED
    BY <1>1, <1>2, <1>3, TypeCorrect, PTL DEF Spec
=============================================================================
