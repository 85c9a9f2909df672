------------------------- MODULE LvmSnapPlanProofs -------------------------
(***************************************************************************)
(* Proofs about LvmSnapPlan for any number of nodes and file systems.      *)
(***************************************************************************)
EXTENDS LvmSnapPlan, SequenceTheorems, WellFoundedInduction, TLAPS

Reasons == {"", "unreachable", "missing", "invalid", "error"}

(***************************************************************************)
(* What the steps of a plan do, kind by kind.                              *)
(***************************************************************************)
LEMMA CheckSteps ==
  ASSUME ReachCheck \/ MergingCheck \/ ExistCheck \/ ValidCheck
  PROVE  /\ ended = "no" /\ checks # <<>>
         /\ UNCHANGED system
         /\ Pass \/ \E r \in Reasons : Fail(r)
<1>1. CASE ReachCheck
  BY <1>1 DEF ReachCheck, CheckTurn, Reasons
<1>2. CASE MergingCheck
  <2>1. CASE MergingFound
    BY <2>1 DEF MergingFound, CheckTurn, Reasons
  <2>2. CASE ~MergingFound
    BY <1>2, <2>2 DEF MergingCheck, CheckTurn, Reasons
  <2>. QED
    BY <2>1, <2>2
<1>3. CASE ExistCheck
  BY <1>3 DEF ExistCheck, CheckTurn, Reasons
<1>4. CASE ValidCheck
  BY <1>4 DEF ValidCheck, CheckTurn, Reasons
<1>. QED
  BY <1>1, <1>2, <1>3, <1>4

\* A task of a file system: the agent's action, or nothing on the nodes.
LEMMA LvSteps ==
  ASSUME NEW l \in LVs, LvTask(l)
  PROVE  /\ ended = "no" /\ l \in lvs /\ checks = <<>>
         /\ \/ LvCall(l) /\ LvDone(l) /\ UNCHANGED skipped
            \/ LvCall(l) /\ Fail("error")
            \/ UNCHANGED system /\ Fail("error")
            \/ /\ forced /\ skipped' = skipped \cup {NodeOf[l]}
               /\ UNCHANGED system /\ LvDone(l)
BY DEF LvTask, NodeTurn, Skips

LEMMA GrubSteps ==
  ASSUME NEW n \in Nodes, GrubTask(n)
  PROVE  /\ ended = "no" /\ GrubTurn(n) /\ checks = <<>>
         /\ \/ GrubCall(n) /\ GrubDone(n) /\ UNCHANGED skipped
            \/ GrubCall(n) /\ Fail("error")
            \/ UNCHANGED system /\ Fail("error")
            \/ /\ forced /\ skipped' = skipped \cup {n}
               /\ UNCHANGED system /\ GrubDone(n)
BY DEF GrubTask, GrubTurn, NodeTurn, Skips

\* The restart of some nodes only lets waiting merges start.
LEMMA RestartedType ==
  ASSUME NEW R, Restarted(R), TypeOK
  PROVE  /\ lv' \in [LVs -> {"absent", "valid", "invalid"} \cup Merges]
         /\ changed' \subseteq changed
         /\ \A l \in LVs : \/ lv'[l] = lv[l]
                           \/ lv[l] = "pending" /\ lv'[l] = "merging" /\ l \notin changed'
         /\ \A l \in LVs : NodeOf[l] \in R => lv'[l] # "pending"
         /\ \A x \in changed : x \in LVs \/ x \in changed'
         /\ \A x \in changed : x \notin LVs \/ lv[x] # "pending" => x \in changed'
BY DEF Restarted, TypeOK, Merges

(***************************************************************************)
(* Types.                                                                  *)
(***************************************************************************)
LEMMA ChecksType ==
  ASSUME NEW a \in {"create", "remove", "restore"}, NEW f \in BOOLEAN
  PROVE  Checks(a, f) \in Seq({"reach", "merging", "exist", "valid"})
<1>1. CASE a = "create"
  BY <1>1 DEF Checks
<1>2. CASE a = "remove" /\ f
  BY <1>2 DEF Checks
<1>3. CASE a = "remove" /\ ~f
  BY <1>3 DEF Checks
<1>4. CASE a = "restore" /\ f
  BY <1>4 DEF Checks
<1>5. CASE a = "restore" /\ ~f
  BY <1>5 DEF Checks
<1>. QED
  BY <1>1, <1>2, <1>3, <1>4, <1>5

LEMMA FailType ==
  ASSUME TypeOK, NEW r \in Reasons, Fail(r),
         reach' \subseteq Nodes, changed' \subseteq LVs \cup Nodes, backup' \subseteq Nodes,
         lv' \in [LVs -> {"absent", "valid", "invalid"} \cup Merges]
  PROVE  TypeOK'
<1>1. checks' \in Seq({"reach", "merging", "exist", "valid"})
  BY DEF Fail
<1>2. calm' \in BOOLEAN /\ forced' \in BOOLEAN /\ (forced' => MayForce)
  BY DEF TypeOK, Fail
<1>. QED
  BY <1>1, <1>2 DEF TypeOK, Fail, Reasons

LEMMA LvCallType ==
  ASSUME TypeOK, NEW l \in LVs, LvCall(l)
  PROVE  /\ reach' \subseteq Nodes /\ changed' \subseteq LVs \cup Nodes
         /\ backup' \subseteq Nodes
         /\ lv' \in [LVs -> {"absent", "valid", "invalid"} \cup Merges]
BY DEF TypeOK, LvCall, CreateLv, RemoveLv, RestoreLv, Merges

LEMMA GrubCallType ==
  ASSUME TypeOK, NEW n \in Nodes, GrubCall(n)
  PROVE  /\ reach' \subseteq Nodes /\ changed' \subseteq LVs \cup Nodes
         /\ backup' \subseteq Nodes
         /\ lv' \in [LVs -> {"absent", "valid", "invalid"} \cup Merges]
BY DEF TypeOK, GrubCall

LEMMA StartType ==
  ASSUME TypeOK, NEW a \in {"create", "remove", "restore"}, NEW f \in BOOLEAN, Start(a, f),
         item' \in {"none", "partial", "made"}
  PROVE  TypeOK'
BY ChecksType DEF TypeOK, Start, system, Nodes

LEMMA TypeStep == TypeOK /\ [Next]_vars => TypeOK'
<1>. SUFFICES ASSUME TypeOK, [Next]_vars PROVE TypeOK'
  OBVIOUS
<1>1. CASE Create \/ \E f \in BOOLEAN : Remove(f) \/ Restore(f)
  <2>1. CASE Create
    BY <2>1, StartType DEF Create
  <2>2. ASSUME NEW f \in BOOLEAN, Remove(f) PROVE TypeOK'
    BY <2>2, StartType DEF Remove, TypeOK
  <2>3. ASSUME NEW f \in BOOLEAN, Restore(f) PROVE TypeOK'
    BY <2>3, StartType DEF Restore, TypeOK
  <2>. QED
    BY <1>1, <2>1, <2>2, <2>3
<1>2. CASE \E f \in BOOLEAN : NoRestorePlan(f)
  <2>. PICK f \in BOOLEAN : NoRestorePlan(f)
    BY <1>2
  <2>1. UNCHANGED <<system, todo, item>> /\ action' = "restore" /\ ended' = "failed"
    BY DEF NoRestorePlan
  <2>2. forced' = f /\ (f => MayForce) /\ calm' = TRUE /\ skipped' = {} /\ why' \in {"invalid", "missing"}
    BY DEF NoRestorePlan
  <2>. QED
    BY <2>1, <2>2 DEF TypeOK, system, todo
<1>3. CASE ReachCheck \/ MergingCheck \/ ExistCheck \/ ValidCheck
  <2>1. CASE Pass
    <3>1. checks # <<>> /\ UNCHANGED system
      BY <1>3, CheckSteps
    <3>2. checks' \in Seq({"reach", "merging", "exist", "valid"})
      <4>1. checks \in Seq({"reach", "merging", "exist", "valid"})
        BY DEF TypeOK
      <4>2. checks' = Tail(checks)
        BY <2>1 DEF Pass
      <4>. QED
        BY <3>1, <4>1, <4>2
    <3>. QED
      BY <2>1, <3>1, <3>2 DEF TypeOK, Pass, Proceed, system
  <2>2. ASSUME NEW r \in Reasons, Fail(r) PROVE TypeOK'
    BY <1>3, <2>2, CheckSteps, FailType DEF system, TypeOK
  <2>. QED
    BY <1>3, <2>1, <2>2, CheckSteps
<1>4. ASSUME NEW l \in LVs, LvTask(l) PROVE TypeOK'
  <2>0. "error" \in Reasons
    BY DEF Reasons
  <2>1. CASE LvCall(l) /\ LvDone(l) /\ UNCHANGED skipped
    <3>1. /\ reach' \subseteq Nodes /\ changed' \subseteq LVs \cup Nodes
          /\ backup' \subseteq Nodes
          /\ lv' \in [LVs -> {"absent", "valid", "invalid"} \cup Merges]
      BY <2>1, LvCallType
    <3>. QED
      BY <2>1, <3>1 DEF TypeOK, LvDone, Proceed
  <2>2. CASE LvCall(l) /\ Fail("error")
    BY <2>0, <2>2, LvCallType, FailType
  <2>3. CASE UNCHANGED system /\ Fail("error")
    BY <2>0, <2>3, FailType DEF system, TypeOK
  <2>4. CASE /\ forced /\ skipped' = skipped \cup {NodeOf[l]}
             /\ UNCHANGED system /\ LvDone(l)
    <3>1. NodeOf[l] \in Nodes
      BY LvmAssumption
    <3>2. skipped' \subseteq Nodes /\ (skipped' # {} => forced)
      BY <2>4, <3>1 DEF TypeOK
    <3>. QED
      BY <2>4, <3>2 DEF TypeOK, LvDone, Proceed, system
  <2>. QED
    BY <1>4, <2>1, <2>2, <2>3, <2>4, LvSteps
<1>5. ASSUME NEW n \in Nodes, GrubTask(n) PROVE TypeOK'
  <2>0. "error" \in Reasons
    BY DEF Reasons
  <2>1. CASE GrubCall(n) /\ GrubDone(n) /\ UNCHANGED skipped
    BY <2>1, GrubCallType DEF TypeOK, GrubDone, Proceed
  <2>2. CASE GrubCall(n) /\ Fail("error")
    BY <2>0, <2>2, GrubCallType, FailType
  <2>3. CASE UNCHANGED system /\ Fail("error")
    BY <2>0, <2>3, FailType DEF system, TypeOK
  <2>4. CASE /\ forced /\ skipped' = skipped \cup {n}
             /\ UNCHANGED system /\ GrubDone(n)
    BY <2>4 DEF TypeOK, GrubDone, Proceed, system
  <2>. QED
    BY <1>5, <2>1, <2>2, <2>3, <2>4, GrubSteps
<1>6. CASE RestartPeers
  <2>1. PICK R \in SUBSET (reach \cap Peers) :
          /\ Restarted(R)
          /\ \/ /\ Peers \subseteq R \/ (forced /\ (calm => R = reach \cap Peers))
                /\ restarts' = restarts \ {"peers"}
                /\ skipped' = skipped \cup (Peers \ R)
                /\ UNCHANGED <<reach, checks, lvs, grubs>> /\ Proceed
             \/ /\ \E gone \in SUBSET R : reach' = reach \ gone
                /\ Fail("error")
    BY <1>6 DEF RestartPeers
  <2>2. backup' = backup
    BY <1>6 DEF RestartPeers
  <2>3. /\ lv' \in [LVs -> {"absent", "valid", "invalid"} \cup Merges]
        /\ changed' \subseteq changed
    BY <2>1, RestartedType
  <2>4. CASE Fail("error")
    BY <2>1, <2>2, <2>3, <2>4, FailType DEF TypeOK, Reasons
  <2>5. CASE ~Fail("error")
    <3>1. /\ Peers \subseteq R \/ forced
          /\ restarts' = restarts \ {"peers"}
          /\ skipped' = skipped \cup (Peers \ R)
          /\ UNCHANGED <<reach, checks, lvs, grubs>> /\ Proceed
      BY <2>1, <2>5
    <3>2. skipped' \subseteq Nodes /\ (skipped' # {} => forced)
      BY <3>1 DEF TypeOK, Nodes
    <3>. QED
      BY <2>2, <2>3, <3>1, <3>2 DEF TypeOK, Proceed
  <2>. QED
    BY <2>4, <2>5
<1>7. CASE RestartMs
  <2>1. CASE Restarted({Ms}) /\ restarts' = {} /\ Proceed
             /\ UNCHANGED <<reach, backup, checks, lvs, grubs, skipped>>
    BY <2>1, RestartedType DEF TypeOK, Proceed
  <2>2. CASE Fail("error") /\ UNCHANGED system
    BY <2>2, FailType DEF TypeOK, system, Reasons
  <2>. QED
    BY <1>7, <2>1, <2>2 DEF RestartMs
<1>8. CASE Finish
  BY <1>8 DEF Finish, TypeOK, system, todo
<1>9. CASE Around
  <2>1. /\ reach' \subseteq Nodes /\ changed' \subseteq LVs \cup Nodes
        /\ backup' \subseteq Nodes
        /\ lv' \in [LVs -> {"absent", "valid", "invalid"} \cup Merges]
    <3>1. ASSUME NEW l \in LVs, Merged(l) \/ Invalidate(l)
          PROVE  lv' \in [LVs -> {"absent", "valid", "invalid"} \cup Merges]
                 /\ UNCHANGED <<reach, changed, backup>>
      BY <3>1 DEF Merged, Invalidate, TypeOK
    <3>2. ASSUME NEW x \in LVs \cup Nodes, Upgrade(x)
          PROVE  changed' \subseteq LVs \cup Nodes /\ UNCHANGED <<reach, lv, backup>>
      BY <3>2 DEF Upgrade, TypeOK
    <3>3. ASSUME NEW n \in Peers, Lose(n) \/ Return(n)
          PROVE  reach' \subseteq Nodes /\ UNCHANGED <<lv, changed, backup>>
      BY <3>3 DEF Lose, Return, TypeOK, Nodes
    <3>4. ASSUME NEW n \in Nodes, Crash(n)
          PROVE  /\ lv' \in [LVs -> {"absent", "valid", "invalid"} \cup Merges]
                 /\ changed' \subseteq changed /\ UNCHANGED <<reach, backup>>
      BY <3>4, RestartedType DEF Crash
    <3>. QED
      BY <1>9, <3>1, <3>2, <3>3, <3>4 DEF Around, TypeOK
  <2>. QED
    BY <1>9, <2>1 DEF Around, TypeOK, todo
<1>10. CASE UNCHANGED vars
  BY <1>10 DEF vars, system, todo, status, TypeOK
<1>. QED
  BY <1>1, <1>2, <1>3, <1>4, <1>5, <1>6, <1>7, <1>8, <1>9, <1>10 DEF Next, PlanStep

\* Every variable keeps its type.
THEOREM TypeCorrect == Spec => []TypeOK
<1>1. Init => TypeOK
  <2>. SUFFICES ASSUME Init PROVE TypeOK
    OBVIOUS
  <2>1. lv \in [LVs -> {"absent", "valid", "invalid"} \cup Merges]
    BY DEF Init
  <2>2. checks \in Seq({"reach", "merging", "exist", "valid"})
    BY EmptySeq DEF Init
  <2>3. forced \in BOOLEAN /\ (forced => MayForce)
    BY DEF Init
  <2>4. skipped \subseteq Nodes /\ (skipped # {} => forced)
    BY DEF Init
  <2>5. /\ reach \subseteq Nodes /\ changed \subseteq LVs \cup Nodes
        /\ backup \subseteq Nodes /\ lvs \subseteq LVs /\ grubs \subseteq Nodes
        /\ restarts \subseteq {"peers", "ms"}
    BY DEF Init
  <2>6. /\ item \in {"none", "partial", "made"}
        /\ action \in {"none", "create", "remove", "restore"}
        /\ ended \in {"no", "idle", "done", "failed"}
        /\ calm \in BOOLEAN
        /\ why \in {"", "unreachable", "missing", "invalid", "error"}
    BY DEF Init
  <2>. QED
    BY <2>1, <2>2, <2>3, <2>4, <2>5, <2>6 DEF TypeOK
<1>. QED
  BY <1>1, TypeStep, PTL DEF Spec

(***************************************************************************)
(* What the system may do around a plan.                                   *)
(***************************************************************************)
\* A snapshot that can still take its file system back.
Live(l) == lv[l] \in {"valid", "invalid", "pending"}

LEMMA AroundSteps ==
  ASSUME TypeOK, Around
  PROVE  /\ UNCHANGED <<todo, item, action, forced, backup>>
         /\ ended = "no" => ended' = "no" /\ changed' \subseteq changed
         /\ ended # "no" => ended' = "idle"
         /\ \A l \in LVs : /\ lv[l] = "absent" => lv'[l] = "absent"
                           /\ Listed(l)' <=> Listed(l)
                           /\ lv'[l] = "pending" => lv[l] = "pending"
                           /\ lv[l] = "pending" => lv'[l] \in Merges
                           /\ Live(l) => Live(l)' \/ l \notin changed'
<1>0. /\ UNCHANGED <<todo, item, action, forced>>
      /\ ended = "no" => ended' = "no"
      /\ ended # "no" => ended' = "idle"
  BY DEF Around
<1>1. ASSUME NEW k \in LVs, Merged(k)
      PROVE  /\ UNCHANGED <<backup, changed>>
             /\ \A l \in LVs : lv'[l] = lv[l] \/ (lv[l] = "merging" /\ lv'[l] = "absent")
  BY <1>1 DEF Merged, TypeOK
<1>2. ASSUME NEW x \in LVs \cup Nodes, Upgrade(x)
      PROVE  UNCHANGED <<backup, lv>> /\ ended # "no"
  BY <1>2 DEF Upgrade
<1>3. ASSUME NEW n \in Peers, Lose(n) \/ Return(n)
      PROVE  UNCHANGED <<backup, lv, changed>>
  BY <1>3 DEF Lose, Return
<1>4. ASSUME NEW n \in Nodes, Crash(n)
      PROVE  /\ UNCHANGED backup /\ changed' \subseteq changed
             /\ \A l \in LVs : \/ lv'[l] = lv[l]
                               \/ lv[l] = "pending" /\ lv'[l] = "merging" /\ l \notin changed'
  BY <1>4, RestartedType DEF Crash
<1>5. ASSUME NEW k \in LVs, Invalidate(k)
      PROVE  /\ UNCHANGED <<backup, changed>>
             /\ \A l \in LVs : lv'[l] = lv[l] \/ (lv[l] = "valid" /\ lv'[l] = "invalid")
  BY <1>5 DEF Invalidate, TypeOK
<1>6. CASE \E k \in LVs : Merged(k)
  BY <1>0, <1>1, <1>6 DEF Listed, Live, Merges
<1>7. CASE \E x \in LVs \cup Nodes : Upgrade(x)
  BY <1>0, <1>2, <1>7 DEF Listed, Live, Merges
<1>8. CASE \E n \in Peers : Lose(n) \/ Return(n)
  BY <1>0, <1>3, <1>8 DEF Listed, Live, Merges
<1>9. CASE \E n \in Nodes : Crash(n)
  BY <1>0, <1>4, <1>9 DEF Listed, Live, Merges
<1>10. CASE \E k \in LVs : Invalidate(k)
  BY <1>0, <1>5, <1>10 DEF Listed, Live, Merges
<1>. QED
  BY <1>6, <1>7, <1>8, <1>9, <1>10 DEF Around

(***************************************************************************)
(* The grub backup outlives the snapshots, if no plan is forced.           *)
(***************************************************************************)
BackupInv ==
    /\ BackupOutlivesSnapshots
    /\ ended = "no" /\ action = "create" =>
         item = "partial" /\ \A n \in Nodes : n \in grubs \/ n \in backup
    /\ ended = "no" /\ action # "create" =>
         \A l \in LVs : l \in lvs \/ ~Listed(l)

\* A step that stops a plan, or none, keeps it if no snapshot comes back.
LEMMA BackupFrame ==
  ASSUME BackupInv, ended' # "no" \/ UNCHANGED <<ended, action, lvs, grubs>>,
         item' = item, backup' = backup,
         \A l \in LVs : Listed(l)' => Listed(l)
  PROVE  BackupInv'
BY DEF BackupInv, BackupOutlivesSnapshots

LEMMA BackupStep ==
  ASSUME ~MayForce, TypeOK, BackupInv, [Next]_vars
  PROVE  BackupInv'
<1>0. ~forced
  BY DEF TypeOK
<1>1. CASE Create \/ \E f \in BOOLEAN : Remove(f) \/ Restore(f)
  BY <1>1, LvmAssumption
     DEF Create, Remove, Restore, Start, system, TypeOK, BackupInv, BackupOutlivesSnapshots, Listed
<1>2. CASE \E f \in BOOLEAN : NoRestorePlan(f)
  BY <1>2, BackupFrame DEF NoRestorePlan, system, Listed
<1>3. CASE ReachCheck \/ MergingCheck \/ ExistCheck \/ ValidCheck
  BY <1>3, CheckSteps, BackupFrame DEF Pass, Proceed, Fail, system, Listed
<1>4. ASSUME NEW l \in LVs, LvTask(l) PROVE BackupInv'
  <2>1. CASE LvCall(l)
    <3>1. backup' = backup
      BY <2>1 DEF LvCall
    <3>2. \A k \in LVs : Listed(k)' => Listed(k) \/ (k = l /\ action = "create")
      BY <2>1 DEF LvCall, CreateLv, RemoveLv, RestoreLv, Listed, TypeOK
    <3>3. action # "create" => ~Listed(l)'
      BY <2>1 DEF LvCall, CreateLv, RemoveLv, RestoreLv, Listed, TypeOK, Merges
    <3>4. CASE LvDone(l)
      BY <1>4, <3>1, <3>2, <3>3, <3>4, LvSteps
         DEF LvDone, Proceed, BackupInv, BackupOutlivesSnapshots
    <3>5. CASE Fail("error")
      BY <1>4, <3>1, <3>2, <3>3, <3>5, LvSteps
         DEF Fail, BackupInv, BackupOutlivesSnapshots
    <3>. QED
      BY <1>0, <1>4, <2>1, <3>4, <3>5, LvSteps
  <2>2. CASE ~LvCall(l)
    BY <1>0, <1>4, <2>2, LvSteps, BackupFrame DEF Fail, system, Listed
  <2>. QED
    BY <2>1, <2>2
<1>5. ASSUME NEW n \in Nodes, GrubTask(n) PROVE BackupInv'
  <2>1. CASE GrubCall(n)
    <3>1. /\ lv' = lv
          /\ action = "create" => backup' = backup \cup {n}
          /\ backup' = backup \/ backup' = backup \cup {n}
             \/ (backup' = backup \ {n} /\ action # "create")
      BY <2>1 DEF GrubCall
    <3>2. action # "create" => \A l \in LVs : NodeOf[l] = n => ~Listed(l)
      BY <1>5, GrubSteps DEF GrubTurn, BackupInv
    <3>3. CASE GrubDone(n)
      BY <1>5, <3>1, <3>2, <3>3, GrubSteps
         DEF GrubDone, Proceed, BackupInv, BackupOutlivesSnapshots, Listed
    <3>4. CASE Fail("error")
      BY <1>5, <3>1, <3>2, <3>4, GrubSteps
         DEF Fail, BackupInv, BackupOutlivesSnapshots, Listed
    <3>. QED
      BY <1>0, <1>5, <2>1, <3>3, <3>4, GrubSteps
  <2>2. CASE ~GrubCall(n)
    BY <1>0, <1>5, <2>2, GrubSteps, BackupFrame DEF Fail, system, Listed
  <2>. QED
    BY <2>1, <2>2
<1>6. CASE RestartPeers
  <2>1. \A l \in LVs : Listed(l)' => Listed(l)
    BY <1>6, RestartedType DEF RestartPeers, Listed
  <2>. QED
    BY <1>6, <2>1, BackupFrame DEF RestartPeers, Fail, Proceed
<1>7. CASE RestartMs
  <2>1. \A l \in LVs : Listed(l)' => Listed(l)
    BY <1>7, RestartedType DEF RestartMs, Listed, system
  <2>. QED
    BY <1>7, <2>1, BackupFrame DEF RestartMs, Fail, Proceed, system
<1>8. CASE Finish
  BY <1>8, LvmAssumption DEF Finish, system, TypeOK, BackupInv, BackupOutlivesSnapshots, Listed
<1>9. CASE Around
  BY <1>9, AroundSteps, BackupFrame DEF todo
<1>10. CASE UNCHANGED vars
  BY <1>10, BackupFrame DEF vars, system, todo, status, Listed
<1>. QED
  BY <1>1, <1>2, <1>3, <1>4, <1>5, <1>6, <1>7, <1>8, <1>9, <1>10 DEF Next, PlanStep

\* Without force, no plan, whole or broken off, removes a node's grub.cfg.backup
\* before its last usable snapshot.
THEOREM BackupKept == ~MayForce => (Spec => []BackupOutlivesSnapshots)
<1>. SUFFICES ASSUME ~MayForce PROVE Spec => []BackupOutlivesSnapshots
  OBVIOUS
<1>1. Init => BackupInv
  BY DEF Init, BackupInv, BackupOutlivesSnapshots
<1>2. TypeOK /\ BackupInv /\ [Next]_vars => BackupInv'
  BY BackupStep
<1>3. BackupInv => BackupOutlivesSnapshots
  BY DEF BackupInv
<1>. QED
  BY <1>1, <1>2, <1>3, TypeCorrect, PTL DEF Spec

(***************************************************************************)
(* A removal that was not forced leaves nothing.                           *)
(***************************************************************************)
RemovalInv ==
    /\ RemovedWhole
    /\ ended = "no" /\ action = "remove" /\ ~forced =>
         /\ \A l \in LVs : l \in lvs \/ lv[l] = "absent"
         /\ \A n \in Nodes : n \in grubs \/ n \notin backup

LEMMA RemovalFrame ==
  ASSUME RemovalInv, ended' \notin {"no", "done"} \/ UNCHANGED <<ended, action, forced, lvs, grubs>>,
         backup' = backup, \A l \in LVs : lv[l] = "absent" => lv'[l] = "absent"
  PROVE  RemovalInv'
BY DEF RemovalInv, RemovedWhole

LEMMA RemovalStep == TypeOK /\ RemovalInv /\ [Next]_vars => RemovalInv'
<1>. SUFFICES ASSUME TypeOK, RemovalInv, [Next]_vars PROVE RemovalInv'
  OBVIOUS
<1>1. CASE Create \/ \E f \in BOOLEAN : Remove(f) \/ Restore(f)
  BY <1>1 DEF Create, Remove, Restore, Start, RemovalInv, RemovedWhole
<1>2. CASE \E f \in BOOLEAN : NoRestorePlan(f)
  BY <1>2, RemovalFrame DEF NoRestorePlan, system
<1>3. CASE ReachCheck \/ MergingCheck \/ ExistCheck \/ ValidCheck
  BY <1>3, CheckSteps, RemovalFrame DEF Pass, Proceed, Fail, system
<1>4. ASSUME NEW l \in LVs, LvTask(l) PROVE RemovalInv'
  <2>1. CASE LvCall(l) /\ LvDone(l)
    <3>1. action = "remove" =>
            /\ backup' = backup /\ lv'[l] = "absent"
            /\ \A k \in LVs : k # l => lv'[k] = lv[k]
      BY <2>1 DEF LvCall, RemoveLv, TypeOK
    <3>. QED
      BY <1>4, <2>1, <3>1, LvSteps DEF LvDone, Proceed, RemovalInv, RemovedWhole
  <2>2. CASE Fail("error")
    BY <2>2 DEF Fail, RemovalInv, RemovedWhole
  <2>3. CASE forced /\ UNCHANGED system /\ LvDone(l)
    BY <1>4, <2>3, LvSteps DEF LvDone, Proceed, RemovalInv, RemovedWhole
  <2>. QED
    BY <1>4, <2>1, <2>2, <2>3, LvSteps
<1>5. ASSUME NEW n \in Nodes, GrubTask(n) PROVE RemovalInv'
  <2>1. CASE GrubCall(n) /\ GrubDone(n)
    <3>1. lv' = lv /\ (action = "remove" => backup' = backup \ {n})
      BY <2>1 DEF GrubCall
    <3>. QED
      BY <1>5, <2>1, <3>1, GrubSteps DEF GrubDone, Proceed, RemovalInv, RemovedWhole
  <2>2. CASE Fail("error")
    BY <2>2 DEF Fail, RemovalInv, RemovedWhole
  <2>3. CASE forced /\ UNCHANGED system /\ GrubDone(n)
    BY <1>5, <2>3, GrubSteps DEF GrubDone, Proceed, RemovalInv, RemovedWhole
  <2>. QED
    BY <1>5, <2>1, <2>2, <2>3, GrubSteps
<1>6. CASE RestartPeers
  <2>1. \A l \in LVs : lv[l] = "absent" => lv'[l] = "absent"
    BY <1>6, RestartedType DEF RestartPeers
  <2>. QED
    BY <1>6, <2>1, RemovalFrame DEF RestartPeers, Fail, Proceed
<1>7. CASE RestartMs
  <2>1. \A l \in LVs : lv[l] = "absent" => lv'[l] = "absent"
    BY <1>7, RestartedType DEF RestartMs, system
  <2>. QED
    BY <1>7, <2>1, RemovalFrame DEF RestartMs, Fail, Proceed, system
<1>8. CASE Finish
  BY <1>8 DEF Finish, system, TypeOK, RemovalInv, RemovedWhole
<1>9. CASE Around
  BY <1>9, AroundSteps, RemovalFrame DEF todo
<1>10. CASE UNCHANGED vars
  BY <1>10, RemovalFrame DEF vars, system, todo, status
<1>. QED
  BY <1>1, <1>2, <1>3, <1>4, <1>5, <1>6, <1>7, <1>8, <1>9, <1>10 DEF Next, PlanStep

\* A removal that was not forced and succeeded left no snapshot and no backup.
THEOREM RemovalIsWhole == Spec => []RemovedWhole
<1>1. Init => RemovalInv
  BY DEF Init, RemovalInv, RemovedWhole
<1>2. TypeOK /\ RemovalInv /\ [Next]_vars => RemovalInv'
  BY RemovalStep
<1>3. RemovalInv => RemovedWhole
  BY DEF RemovalInv
<1>. QED
  BY <1>1, <1>2, <1>3, TypeCorrect, PTL DEF Spec

(***************************************************************************)
(* Merges that wait.                                                       *)
(***************************************************************************)
LEMMA MergeStep ==
  ASSUME TypeOK, [Next]_vars, NEW l \in LVs, lv[l] = "pending"
  PROVE  lv'[l] \in Merges
<1>0. lv' = lv => lv'[l] \in Merges
  BY DEF Merges
<1>1. CASE Create \/ \E f \in BOOLEAN : Remove(f) \/ Restore(f)
  BY <1>0, <1>1 DEF Create, Remove, Restore, Start, system
<1>2. CASE \E f \in BOOLEAN : NoRestorePlan(f)
  BY <1>0, <1>2 DEF NoRestorePlan, system
<1>3. CASE ReachCheck \/ MergingCheck \/ ExistCheck \/ ValidCheck
  BY <1>0, <1>3, CheckSteps DEF system
<1>4. ASSUME NEW k \in LVs, LvTask(k) PROVE lv'[l] \in Merges
  <2>1. CASE LvCall(k)
    BY <2>1 DEF LvCall, CreateLv, RemoveLv, RestoreLv, TypeOK, Merges
  <2>2. CASE UNCHANGED system
    BY <1>0, <2>2 DEF system
  <2>. QED
    BY <1>4, <2>1, <2>2, LvSteps
<1>5. ASSUME NEW n \in Nodes, GrubTask(n) PROVE lv'[l] \in Merges
  BY <1>0, <1>5, GrubSteps DEF GrubCall, system
<1>6. CASE RestartPeers
  BY <1>6, RestartedType DEF RestartPeers, Merges
<1>7. CASE RestartMs
  BY <1>0, <1>7, RestartedType DEF RestartMs, Merges, system
<1>8. CASE Finish
  BY <1>0, <1>8 DEF Finish, system
<1>9. CASE Around
  BY <1>9, AroundSteps
<1>10. CASE UNCHANGED vars
  BY <1>0, <1>10 DEF vars, system
<1>. QED
  BY <1>1, <1>2, <1>3, <1>4, <1>5, <1>6, <1>7, <1>8, <1>9, <1>10 DEF Next, PlanStep

\* No plan, forced or not, cancels a merge that waits for a restart.
THEOREM MergesAreKept == Spec => NoMergeCancelled
<1>1. TypeOK /\ [Next]_vars => [\A l \in LVs : lv[l] = "pending" => lv'[l] \in Merges]_vars
  BY MergeStep
<1>. QED
  BY <1>1, TypeCorrect, PTL DEF Spec, NoMergeCancelled

(***************************************************************************)
(* A restore that was not forced brings everything back.                   *)
(***************************************************************************)
Careful == ended = "no" /\ action = "restore" /\ ~forced

Both == <<"exist", "valid">>

\* Before the first check: nothing is done, and the MS's own snapshots are there.
Unlooked == checks = Both => /\ lvs = LVs /\ grubs = Nodes
                             /\ restarts = {"peers", "ms"}
                             /\ \A l \in Kickstart : Listed(l)

\* After it: what differs can still be brought back, or its turn is to come.
Looked == checks # Both => \A l \in LVs : Live(l) \/ l \notin changed

DoneTasks == /\ \A l \in LVs : l \in lvs \/ ~Listed(l)
             /\ \A n \in Nodes : n \in grubs \/ n \notin changed

DoneRestarts ==
    /\ "peers" \in restarts \/ \A l \in LVs :
         NodeOf[l] \in Peers => l \notin lvs /\ lv[l] # "pending"
    /\ "ms" \in restarts \/ \A l \in LVs :
         NodeOf[l] = Ms => l \notin lvs /\ lv[l] # "pending"

RestoreInv ==
    /\ RestoreIsWhole
    /\ Careful => /\ checks \in {Both, <<"valid">>, <<>>}
                  /\ Unlooked /\ Looked /\ DoneTasks /\ DoneRestarts

LEMMA CheckLists ==
  /\ Both # <<>> /\ Both # <<"valid">> /\ <<"valid">> # <<>>
  /\ Head(Both) = "exist" /\ Tail(Both) = <<"valid">>
  /\ Head(<<"valid">>) = "valid" /\ Tail(<<"valid">>) = <<>>
BY DEF Both

\* Nothing but the system moves, and nothing that can still be brought back
\* is lost without being brought back.
LEMMA RestoreFrame ==
  ASSUME RestoreInv, Careful => UNCHANGED todo, UNCHANGED <<action, forced>>,
         ended' \notin {"no", "done"} \/ UNCHANGED ended,
         ended = "done" /\ ended' = "done" => UNCHANGED changed,
         Careful => changed' \subseteq changed,
         \A l \in LVs : /\ Listed(l)' <=> Listed(l)
                        /\ lv'[l] = "pending" => lv[l] = "pending"
                        /\ Live(l) => Live(l)' \/ l \notin changed'
  PROVE  RestoreInv'
<1>1. RestoreIsWhole'
  BY DEF RestoreInv, RestoreIsWhole
<1>2. ASSUME Careful' PROVE Careful /\ UNCHANGED todo
  BY <1>2 DEF Careful
<1>3. ASSUME Careful'
      PROVE  /\ checks' \in {Both, <<"valid">>, <<>>}
             /\ Unlooked' /\ Looked' /\ DoneTasks' /\ DoneRestarts'
  <2>1. Careful /\ UNCHANGED <<checks, lvs, grubs, restarts>> /\ changed' \subseteq changed
    BY <1>2, <1>3 DEF todo
  <2>2. /\ checks \in {Both, <<"valid">>, <<>>}
        /\ Unlooked /\ Looked /\ DoneTasks /\ DoneRestarts
    BY <2>1 DEF RestoreInv
  <2>3. checks' \in {Both, <<"valid">>, <<>>}
    BY <2>1, <2>2
  <2>4. Unlooked'
    BY <2>1, <2>2, LvmAssumption DEF Unlooked, Listed, Both
  <2>5. Looked'
    BY <2>1, <2>2 DEF Looked, Live, Both
  <2>6. DoneTasks' /\ DoneRestarts'
    BY <2>1, <2>2 DEF DoneTasks, DoneRestarts, Listed
  <2>. QED
    BY <2>3, <2>4, <2>5, <2>6
<1>. QED
  BY <1>1, <1>3 DEF RestoreInv

LEMMA RestoreStops ==
  ASSUME RestoreInv, ended' \notin {"no", "done"}
  PROVE  RestoreInv'
BY DEF RestoreInv, RestoreIsWhole, Careful

\* The checks of a restore come in their order, and the first one makes Looked.
LEMMA RestoreChecks ==
  ASSUME TypeOK, RestoreInv, ReachCheck \/ MergingCheck \/ ExistCheck \/ ValidCheck
  PROVE  RestoreInv'
<1>1. CASE \E r \in Reasons : Fail(r)
  BY <1>1, RestoreStops DEF Fail
<1>2. CASE Pass
  <2>1. /\ UNCHANGED <<system, action, forced, ended, lvs, grubs, restarts>>
        /\ checks' = Tail(checks) /\ checks # <<>> /\ ended = "no"
    BY <1>2, CheckSteps DEF Pass, Proceed
  <2>2. RestoreIsWhole'
    BY <2>1 DEF RestoreIsWhole
  <2>3. ASSUME Careful'
        PROVE  /\ checks' \in {Both, <<"valid">>, <<>>}
               /\ Unlooked' /\ Looked' /\ DoneTasks' /\ DoneRestarts'
    <3>1. Careful
      BY <2>1, <2>3 DEF Careful
    <3>2. /\ checks \in {Both, <<"valid">>, <<>>}
          /\ Unlooked /\ Looked /\ DoneTasks /\ DoneRestarts
      BY <3>1 DEF RestoreInv
    <3>3. checks' \in {<<"valid">>, <<>>} /\ checks' # Both
      BY <2>1, <3>2, CheckLists
    <3>4. Unlooked'
      BY <3>3 DEF Unlooked, Both
    <3>5. DoneTasks' /\ DoneRestarts'
      BY <2>1, <3>2 DEF DoneTasks, DoneRestarts, Listed, system
    <3>6. Looked'
      <4>1. CASE checks = Both
        <5>1. Head(checks) = "exist"
          BY <4>1, CheckLists
        <5>2. ExistCheck
          BY <5>1 DEF ReachCheck, MergingCheck, MergingFound, ValidCheck, CheckTurn
        <5>3. \A l \in LVs \ Kickstart : Listed(l)
          BY <1>2, <5>2, <2>1 DEF ExistCheck, Fail
        <5>4. \A l \in LVs : Listed(l)
          BY <4>1, <5>3, <3>2 DEF Unlooked
        <5>. QED
          BY <2>1, <5>4 DEF Looked, Listed, Live, system
      <4>2. CASE checks # Both
        BY <2>1, <3>2, <4>2 DEF Looked, Live, system, Both
      <4>. QED
        BY <4>1, <4>2
    <3>. QED
      BY <3>3, <3>4, <3>5, <3>6
  <2>. QED
    BY <2>2, <2>3 DEF RestoreInv
<1>. QED
  BY <1>1, <1>2, CheckSteps

\* A file system's task in a restore that was not forced.
LEMMA RestoreLvStep ==
  ASSUME TypeOK, RestoreInv, NEW l \in LVs, LvTask(l)
  PROVE  RestoreInv'
<1>1. CASE Fail("error")
  BY <1>1, RestoreStops DEF Fail
<1>2. CASE ~Fail("error")
  <2>1. /\ LvDone(l) /\ UNCHANGED <<action, forced, ended, checks, grubs, restarts>>
        /\ lvs' = lvs \ {l} /\ ended = "no" /\ l \in lvs /\ checks = <<>>
    BY <1>2, LvSteps DEF LvDone, Proceed
  <2>2. RestoreIsWhole'
    BY <2>1 DEF RestoreIsWhole
  <2>3. ASSUME Careful'
        PROVE  /\ checks' \in {Both, <<"valid">>, <<>>}
               /\ Unlooked' /\ Looked' /\ DoneTasks' /\ DoneRestarts'
    <3>1. Careful
      BY <2>1, <2>3 DEF Careful
    <3>2. /\ checks \in {Both, <<"valid">>, <<>>}
          /\ Unlooked /\ Looked /\ DoneTasks /\ DoneRestarts
      BY <3>1 DEF RestoreInv
    <3>3. LvCall(l) /\ action = "restore"
      BY <1>2, <3>1, LvSteps DEF Careful
    <3>4. /\ changed' = changed /\ lv[l] # "invalid"
          /\ lv' = [lv EXCEPT ![l] = IF @ = "valid" THEN "pending" ELSE @]
      BY <3>3 DEF LvCall, RestoreLv
    <3>5. /\ ~Listed(l)' /\ (Live(l) => Live(l)')
          /\ \A k \in LVs : k # l => lv'[k] = lv[k]
      BY <3>4 DEF TypeOK, Listed, Live
    <3>6. checks' # Both /\ checks # Both
      BY <2>1, CheckLists
    <3>7. Unlooked' /\ checks' \in {Both, <<"valid">>, <<>>}
      BY <2>1, <3>2, <3>6 DEF Unlooked, Both
    <3>8. Looked'
      BY <3>2, <3>4, <3>5, <3>6 DEF Looked, Live, Both
    <3>9. DoneTasks'
      BY <2>1, <3>2, <3>4, <3>5 DEF DoneTasks, Listed
    <3>10. DoneRestarts'
      BY <2>1, <3>2, <3>5 DEF DoneRestarts
    <3>. QED
      BY <3>7, <3>8, <3>9, <3>10
  <2>. QED
    BY <2>2, <2>3 DEF RestoreInv
<1>. QED
  BY <1>1, <1>2

LEMMA RestoreGrubStep ==
  ASSUME TypeOK, RestoreInv, NEW n \in Nodes, GrubTask(n)
  PROVE  RestoreInv'
<1>1. CASE Fail("error")
  BY <1>1, RestoreStops DEF Fail
<1>2. CASE ~Fail("error")
  <2>1. /\ GrubDone(n) /\ UNCHANGED <<action, forced, ended, checks, lvs, restarts>>
        /\ grubs' = grubs \ {n} /\ ended = "no" /\ checks = <<>>
    BY <1>2, GrubSteps DEF GrubDone, Proceed
  <2>2. RestoreIsWhole'
    BY <2>1 DEF RestoreIsWhole
  <2>3. ASSUME Careful'
        PROVE  /\ checks' \in {Both, <<"valid">>, <<>>}
               /\ Unlooked' /\ Looked' /\ DoneTasks' /\ DoneRestarts'
    <3>1. Careful
      BY <2>1, <2>3 DEF Careful
    <3>2. /\ checks \in {Both, <<"valid">>, <<>>}
          /\ Unlooked /\ Looked /\ DoneTasks /\ DoneRestarts
      BY <3>1 DEF RestoreInv
    <3>3. GrubCall(n) /\ action = "restore" /\ ~forced
      BY <1>2, <3>1, GrubSteps DEF Careful
    <3>4. changed' = changed \ {n} /\ lv' = lv
      BY <3>3 DEF GrubCall
    <3>5. checks' # Both /\ checks # Both
      BY <2>1, CheckLists
    <3>6. Unlooked' /\ checks' \in {Both, <<"valid">>, <<>>}
      BY <2>1, <3>2, <3>5 DEF Unlooked, Both
    <3>7. Looked'
      BY <3>2, <3>4, <3>5 DEF Looked, Live, Both
    <3>8. DoneTasks' /\ DoneRestarts'
      BY <2>1, <3>2, <3>4 DEF DoneTasks, DoneRestarts, Listed
    <3>. QED
      BY <3>6, <3>7, <3>8
  <2>. QED
    BY <2>2, <2>3 DEF RestoreInv
<1>. QED
  BY <1>1, <1>2

\* The restarts, each after the tasks of its nodes.
LEMMA RestoreRestartStep ==
  ASSUME TypeOK, RestoreInv, NEW w \in {"peers", "ms"}, NEW R,
         ended = "no", RestartTurn(w), Restarted(R),
         restarts' = restarts \ {w},
         w = "peers" => (forced \/ Peers \subseteq R), w = "ms" => R = {Ms},
         UNCHANGED <<checks, lvs, grubs, action, forced, ended>>
  PROVE  RestoreInv'
<1>1. RestoreIsWhole'
  BY DEF RestoreIsWhole
<1>2. ASSUME Careful'
      PROVE  /\ checks' \in {Both, <<"valid">>, <<>>}
             /\ Unlooked' /\ Looked' /\ DoneTasks' /\ DoneRestarts'
  <2>1. Careful
    BY <1>2 DEF Careful
  <2>2. /\ checks \in {Both, <<"valid">>, <<>>}
        /\ Unlooked /\ Looked /\ DoneTasks /\ DoneRestarts
    BY <2>1 DEF RestoreInv
  <2>3. checks = <<>> /\ checks # Both /\ checks' # Both
    BY CheckLists DEF RestartTurn
  <2>4. Unlooked' /\ checks' \in {Both, <<"valid">>, <<>>}
    BY <2>2, <2>3 DEF Unlooked, Both
  <2>5. /\ changed' \subseteq changed
        /\ \A l \in LVs : \/ lv'[l] = lv[l]
                          \/ lv[l] = "pending" /\ lv'[l] = "merging" /\ l \notin changed'
        /\ \A l \in LVs : NodeOf[l] \in R => lv'[l] # "pending"
    BY RestartedType
  <2>6. Looked'
    BY <2>2, <2>3, <2>5 DEF Looked, Live, Both
  <2>7. DoneTasks'
    BY <2>2, <2>5 DEF DoneTasks, Listed
  <2>8. DoneRestarts'
    <3>1. CASE w = "peers"
      <4>1. Peers \subseteq R
        BY <2>1, <3>1 DEF Careful
      <4>2. \A l \in LVs : NodeOf[l] \in Peers => l \notin lvs /\ lv'[l] # "pending"
        BY <2>5, <3>1, <4>1, LvmAssumption DEF RestartTurn
      <4>3. \A l \in LVs : lv'[l] = "pending" => lv[l] = "pending"
        BY <2>5
      <4>. QED
        BY <2>2, <3>1, <4>2, <4>3 DEF DoneRestarts
    <3>2. CASE w = "ms"
      <4>1. lvs = {}
        BY <3>2 DEF RestartTurn
      <4>2. \A l \in LVs : lv'[l] = "pending" => lv[l] = "pending"
        BY <2>5
      <4>. QED
        BY <2>2, <2>5, <3>2, <4>1, <4>2 DEF DoneRestarts
    <3>. QED
      BY <3>1, <3>2
  <2>. QED
    BY <2>4, <2>6, <2>7, <2>8
<1>. QED
  BY <1>1, <1>2 DEF RestoreInv

LEMMA RestoreStep == TypeOK /\ RestoreInv /\ [Next]_vars => RestoreInv'
<1>. SUFFICES ASSUME TypeOK, RestoreInv, [Next]_vars PROVE RestoreInv'
  OBVIOUS
<1>1. CASE Create \/ \E f \in BOOLEAN : Remove(f) \/ Restore(f)
  <2>1. ended' = "no"
    BY <1>1 DEF Create, Remove, Restore, Start
  <2>2. ASSUME Careful'
        PROVE  /\ checks' \in {Both, <<"valid">>, <<>>}
               /\ Unlooked' /\ Looked' /\ DoneTasks' /\ DoneRestarts'
    <3>1. Restore(FALSE)
      BY <1>1, <2>2 DEF Create, Remove, Restore, Start, Careful
    <3>2. /\ checks' = Checks("restore", FALSE) /\ lvs' = LVs /\ grubs' = Nodes
          /\ restarts' = {"peers", "ms"} /\ UNCHANGED system
          /\ \A l \in Kickstart : lv[l] = "valid"
      BY <3>1 DEF Restore, Start
    <3>3. checks' = Both
      BY <3>2 DEF Checks, Both
    <3>. QED
      BY <3>2, <3>3 DEF Unlooked, Looked, DoneTasks, DoneRestarts, Listed, system, Both
  <2>. QED
    BY <2>1, <2>2 DEF RestoreInv, RestoreIsWhole
<1>2. CASE \E f \in BOOLEAN : NoRestorePlan(f)
  BY <1>2, RestoreStops DEF NoRestorePlan
<1>3. CASE ReachCheck \/ MergingCheck \/ ExistCheck \/ ValidCheck
  BY <1>3, RestoreChecks
<1>4. ASSUME NEW l \in LVs, LvTask(l) PROVE RestoreInv'
  BY <1>4, RestoreLvStep
<1>5. ASSUME NEW n \in Nodes, GrubTask(n) PROVE RestoreInv'
  BY <1>5, RestoreGrubStep
<1>6. CASE RestartPeers
  <2>1. CASE Fail("error")
    BY <2>1, RestoreStops DEF Fail
  <2>2. CASE ~Fail("error")
    BY <1>6, <2>2, RestoreRestartStep DEF RestartPeers, Proceed
  <2>. QED
    BY <2>1, <2>2
<1>7. CASE RestartMs
  <2>1. CASE Fail("error")
    BY <2>1, RestoreStops DEF Fail
  <2>2. CASE ~Fail("error")
    <3>1. restarts' = restarts \ {"ms"}
      BY <1>7, <2>2 DEF RestartMs, RestartTurn
    <3>. QED
      BY <1>7, <2>2, <3>1, RestoreRestartStep DEF RestartMs, Proceed
  <2>. QED
    BY <2>1, <2>2
<1>8. CASE Finish
  <2>1. ended' = "done" /\ UNCHANGED <<changed, action, forced>>
    BY <1>8 DEF Finish, system
  <2>2. ASSUME action = "restore", ~forced PROVE changed = {}
    <3>1. Careful
      BY <1>8, <2>2 DEF Finish, Careful
    <3>2. Looked /\ DoneTasks /\ DoneRestarts
      BY <3>1 DEF RestoreInv
    <3>3. checks # Both /\ lvs = {} /\ grubs = {} /\ restarts = {}
      BY <1>8, CheckLists DEF Finish
    <3>4. \A n \in Nodes : n \notin changed
      BY <3>2, <3>3 DEF DoneTasks
    <3>5. ASSUME NEW l \in LVs PROVE l \notin changed
      <4>1. ~Listed(l)
        BY <3>2, <3>3 DEF DoneTasks
      <4>2. lv[l] # "pending"
        BY <3>2, <3>3, LvmAssumption DEF DoneRestarts, Nodes
      <4>. QED
        BY <3>2, <3>3, <4>1, <4>2 DEF Looked, Live, Listed
    <3>. QED
      BY <3>4, <3>5 DEF TypeOK
  <2>. QED
    BY <2>1, <2>2 DEF RestoreInv, RestoreIsWhole, Careful
<1>9. CASE Around
  BY <1>9, AroundSteps, RestoreFrame DEF Careful
<1>10. CASE UNCHANGED vars
  BY <1>10, RestoreFrame DEF vars, system, todo, status, Listed, Live
<1>. QED
  BY <1>1, <1>2, <1>3, <1>4, <1>5, <1>6, <1>7, <1>8, <1>9, <1>10 DEF Next, PlanStep

\* A restore that was not forced and succeeded brought every file system and
\* every grub.cfg back to when the snapshot was made.
THEOREM RestoredIsWhole == Spec => []RestoreIsWhole
<1>1. Init => RestoreInv
  BY DEF Init, RestoreInv, RestoreIsWhole, Careful
<1>2. TypeOK /\ RestoreInv /\ [Next]_vars => RestoreInv'
  BY RestoreStep
<1>3. RestoreInv => RestoreIsWhole
  BY DEF RestoreInv
<1>. QED
  BY <1>1, <1>2, <1>3, TypeCorrect, PTL DEF Spec

(***************************************************************************)
(* A restore leaves no snapshot and no backup unused on the nodes that it  *)
(* did not skip, also when it is forced.                                   *)
(***************************************************************************)
Restoring == ended = "no" /\ action = "restore"

\* The tasks of a file system, a grub.cfg or a restart are still to come, or
\* done, or their node was skipped.
TasksUsed == /\ \A l \in LVs : l \in lvs \/ NodeOf[l] \in skipped \/ ~Listed(l)
             /\ \A n \in Nodes : n \in grubs \/ n \in skipped \/ n \notin backup
RestartsUsed ==
    /\ "peers" \in restarts \/ \A l \in LVs :
         NodeOf[l] \in Peers => NodeOf[l] \in skipped \/ (l \notin lvs /\ lv[l] # "pending")
    /\ "ms" \in restarts \/ \A l \in LVs :
         NodeOf[l] = Ms => NodeOf[l] \in skipped \/ (l \notin lvs /\ lv[l] # "pending")

UsedInv == NothingLeftUnused /\ (Restoring => TasksUsed /\ RestartsUsed)

LEMMA UsedStops ==
  ASSUME UsedInv, ended' \notin {"no", "done"}
  PROVE  UsedInv'
BY DEF UsedInv, NothingLeftUnused, Restoring

\* Nothing but the system moves, and no snapshot or backup comes up again.
LEMMA UsedFrame ==
  ASSUME UsedInv, UNCHANGED <<ended, action, lvs, grubs, restarts, skipped, backup>>,
         ended = "done" => UNCHANGED <<changed, lv>>,
         \A l \in LVs : /\ Listed(l)' <=> Listed(l)
                        /\ lv'[l] = "pending" => lv[l] = "pending"
  PROVE  UsedInv'
<1>1. NothingLeftUnused'
  BY DEF UsedInv, NothingLeftUnused
<1>2. ASSUME Restoring' PROVE TasksUsed' /\ RestartsUsed'
  <2>1. TasksUsed /\ RestartsUsed
    BY <1>2 DEF UsedInv, Restoring
  <2>. QED
    BY <2>1 DEF TasksUsed, RestartsUsed
<1>. QED
  BY <1>1, <1>2 DEF UsedInv

LEMMA UsedLvStep ==
  ASSUME TypeOK, UsedInv, NEW l \in LVs, LvTask(l)
  PROVE  UsedInv'
<1>1. CASE Fail("error")
  BY <1>1, UsedStops DEF Fail
<1>2. CASE ~Fail("error")
  <2>1. /\ UNCHANGED <<action, ended, grubs, restarts>>
        /\ lvs' = lvs \ {l} /\ ended = "no"
    BY <1>2, LvSteps DEF LvDone, Proceed
  <2>2. NothingLeftUnused'
    BY <2>1 DEF NothingLeftUnused
  <2>3. ASSUME Restoring' PROVE TasksUsed' /\ RestartsUsed'
    <3>1. TasksUsed /\ RestartsUsed /\ action = "restore"
      BY <2>1, <2>3 DEF UsedInv, Restoring
    <3>2. CASE LvCall(l) /\ UNCHANGED skipped
      <4>1. /\ lv[l] # "invalid" /\ backup' = backup
            /\ lv' = [lv EXCEPT ![l] = IF @ = "valid" THEN "pending" ELSE @]
        BY <3>1, <3>2 DEF LvCall, RestoreLv
      <4>2. ~Listed(l)' /\ \A k \in LVs : k # l => lv'[k] = lv[k]
        BY <4>1 DEF TypeOK, Listed
      <4>3. TasksUsed'
        BY <2>1, <3>1, <3>2, <4>1, <4>2 DEF TasksUsed, Listed
      <4>4. l \in lvs
        BY LvSteps
      <4>5. RestartsUsed'
        BY <2>1, <3>1, <3>2, <4>2, <4>4 DEF RestartsUsed
      <4>. QED
        BY <4>3, <4>5
    <3>3. CASE UNCHANGED system /\ skipped' = skipped \cup {NodeOf[l]}
      <4>1. lv' = lv /\ backup' = backup
        BY <3>3 DEF system
      <4>. QED
        BY <2>1, <3>1, <3>3, <4>1 DEF TasksUsed, RestartsUsed, Listed
    <3>. QED
      BY <1>2, <3>2, <3>3, LvSteps
  <2>. QED
    BY <2>2, <2>3 DEF UsedInv
<1>. QED
  BY <1>1, <1>2

LEMMA UsedGrubStep ==
  ASSUME TypeOK, UsedInv, NEW n \in Nodes, GrubTask(n)
  PROVE  UsedInv'
<1>1. CASE Fail("error")
  BY <1>1, UsedStops DEF Fail
<1>2. CASE ~Fail("error")
  <2>1. /\ UNCHANGED <<action, ended, lvs, restarts>>
        /\ grubs' = grubs \ {n} /\ ended = "no"
    BY <1>2, GrubSteps DEF GrubDone, Proceed
  <2>2. NothingLeftUnused'
    BY <2>1 DEF NothingLeftUnused
  <2>3. ASSUME Restoring' PROVE TasksUsed' /\ RestartsUsed'
    <3>1. TasksUsed /\ RestartsUsed /\ action = "restore"
      BY <2>1, <2>3 DEF UsedInv, Restoring
    <3>2. CASE GrubCall(n) /\ UNCHANGED skipped
      <4>1. lv' = lv /\ backup' = backup \ {n}
        BY <3>1, <3>2 DEF GrubCall
      <4>. QED
        BY <2>1, <3>1, <3>2, <4>1 DEF TasksUsed, RestartsUsed, Listed
    <3>3. CASE UNCHANGED system /\ skipped' = skipped \cup {n}
      <4>1. lv' = lv /\ backup' = backup
        BY <3>3 DEF system
      <4>. QED
        BY <2>1, <3>1, <3>3, <4>1 DEF TasksUsed, RestartsUsed, Listed
    <3>. QED
      BY <1>2, <3>2, <3>3, GrubSteps
  <2>. QED
    BY <2>2, <2>3 DEF UsedInv
<1>. QED
  BY <1>1, <1>2

\* A restart lets the merges of its nodes start; those left out are skipped.
LEMMA UsedRestartStep ==
  ASSUME TypeOK, UsedInv, NEW w \in {"peers", "ms"}, NEW R,
         ended = "no", RestartTurn(w), Restarted(R), restarts' = restarts \ {w},
         w = "peers" => skipped' = skipped \cup (Peers \ R),
         w = "ms" => R = {Ms} /\ UNCHANGED skipped,
         UNCHANGED <<lvs, grubs, action, ended, backup>>
  PROVE  UsedInv'
<1>1. NothingLeftUnused'
  BY DEF NothingLeftUnused
<1>2. ASSUME Restoring' PROVE TasksUsed' /\ RestartsUsed'
  <2>1. TasksUsed /\ RestartsUsed
    BY <1>2 DEF UsedInv, Restoring
  <2>2. skipped \subseteq skipped'
    OBVIOUS
  <2>3. /\ \A l \in LVs : lv'[l] = lv[l] \/ (lv[l] = "pending" /\ lv'[l] = "merging")
        /\ \A l \in LVs : NodeOf[l] \in R => lv'[l] # "pending"
    BY RestartedType
  <2>4. TasksUsed'
    BY <2>1, <2>2, <2>3 DEF TasksUsed, Listed
  <2>5. RestartsUsed'
    <3>1. CASE w = "peers"
      <4>1. \A l \in LVs : NodeOf[l] \in Peers =>
              NodeOf[l] \in skipped' \/ (l \notin lvs /\ lv'[l] # "pending")
        BY <2>3, <3>1, LvmAssumption DEF RestartTurn
      <4>2. "ms" \in restarts' <=> "ms" \in restarts
        BY <3>1
      <4>. QED
        BY <2>1, <2>2, <2>3, <4>1, <4>2 DEF RestartsUsed
    <3>2. CASE w = "ms"
      <4>1. lvs = {}
        BY <3>2 DEF RestartTurn
      <4>2. \A l \in LVs : NodeOf[l] = Ms => lv'[l] # "pending"
        BY <2>3, <3>2
      <4>3. "peers" \in restarts' <=> "peers" \in restarts
        BY <3>2
      <4>. QED
        BY <2>1, <2>2, <2>3, <4>1, <4>2, <4>3 DEF RestartsUsed
    <3>. QED
      BY <3>1, <3>2
  <2>. QED
    BY <2>4, <2>5
<1>. QED
  BY <1>1, <1>2 DEF UsedInv

LEMMA UsedStep == TypeOK /\ UsedInv /\ [Next]_vars => UsedInv'
<1>. SUFFICES ASSUME TypeOK, UsedInv, [Next]_vars PROVE UsedInv'
  OBVIOUS
<1>1. CASE Create \/ \E f \in BOOLEAN : Remove(f) \/ Restore(f)
  <2>1. NothingLeftUnused'
    BY <1>1 DEF Create, Remove, Restore, Start, NothingLeftUnused
  <2>2. ASSUME Restoring' PROVE TasksUsed' /\ RestartsUsed'
    <3>1. lvs' = LVs /\ grubs' = Nodes /\ restarts' = {"peers", "ms"}
      BY <1>1, <2>2 DEF Create, Remove, Restore, Start, Restoring
    <3>. QED
      BY <3>1 DEF TasksUsed, RestartsUsed
  <2>. QED
    BY <2>1, <2>2 DEF UsedInv
<1>2. CASE \E f \in BOOLEAN : NoRestorePlan(f)
  BY <1>2, UsedStops DEF NoRestorePlan
<1>3. CASE ReachCheck \/ MergingCheck \/ ExistCheck \/ ValidCheck
  <2>1. CASE Pass
    BY <1>3, <2>1, CheckSteps, UsedFrame DEF Pass, Proceed, system, Listed
  <2>2. CASE ~Pass
    BY <1>3, <2>2, CheckSteps, UsedStops DEF Fail
  <2>. QED
    BY <2>1, <2>2
<1>4. ASSUME NEW l \in LVs, LvTask(l) PROVE UsedInv'
  BY <1>4, UsedLvStep
<1>5. ASSUME NEW n \in Nodes, GrubTask(n) PROVE UsedInv'
  BY <1>5, UsedGrubStep
<1>6. CASE RestartPeers
  <2>1. CASE Fail("error")
    BY <2>1, UsedStops DEF Fail
  <2>2. CASE ~Fail("error")
    BY <1>6, <2>2, UsedRestartStep DEF RestartPeers, Proceed
  <2>. QED
    BY <2>1, <2>2
<1>7. CASE RestartMs
  <2>1. CASE Fail("error")
    BY <2>1, UsedStops DEF Fail
  <2>2. CASE ~Fail("error")
    <3>1. restarts' = restarts \ {"ms"}
      BY <1>7, <2>2 DEF RestartMs, RestartTurn
    <3>. QED
      BY <1>7, <2>2, <3>1, UsedRestartStep DEF RestartMs, Proceed
  <2>. QED
    BY <2>1, <2>2
<1>8. CASE Finish
  <2>1. ended' = "done" /\ UNCHANGED <<lv, changed, backup, skipped, action>>
    BY <1>8 DEF Finish, system
  <2>2. ASSUME action = "restore"
        PROVE  /\ \A l \in LVs : NodeOf[l] \in skipped \/ lv[l] \in {"absent", "merging"}
               /\ \A n \in Nodes : n \in skipped \/ n \notin backup
    <3>1. TasksUsed /\ RestartsUsed /\ lvs = {} /\ grubs = {} /\ restarts = {}
      BY <1>8, <2>2 DEF Finish, UsedInv, Restoring
    <3>2. ASSUME NEW l \in LVs, NodeOf[l] \notin skipped PROVE lv[l] \in {"absent", "merging"}
      <4>1. ~Listed(l)
        BY <3>1, <3>2 DEF TasksUsed
      <4>2. lv[l] # "pending"
        BY <3>1, <3>2, LvmAssumption DEF RestartsUsed, Nodes
      <4>. QED
        BY <4>1, <4>2 DEF TypeOK, Listed, Merges
    <3>. QED
      BY <3>1, <3>2 DEF TasksUsed
  <2>. QED
    BY <2>1, <2>2 DEF UsedInv, NothingLeftUnused, Restoring
<1>9. CASE Around
  <2>1. CASE ended = "no"
    BY <1>9, <2>1, AroundSteps, UsedFrame DEF todo, Around
  <2>2. CASE ended # "no"
    BY <1>9, <2>2, AroundSteps, UsedStops
  <2>. QED
    BY <2>1, <2>2
<1>10. CASE UNCHANGED vars
  BY <1>10, UsedFrame DEF vars, system, todo, status, Listed
<1>. QED
  BY <1>1, <1>2, <1>3, <1>4, <1>5, <1>6, <1>7, <1>8, <1>9, <1>10 DEF Next, PlanStep

\* A restore that succeeded, forced or not, left no snapshot unused and no
\* backup unused on the nodes that answered all its tasks.
THEOREM RestoresAreUsed == Spec => []NothingLeftUnused
<1>1. Init => UsedInv
  BY DEF Init, UsedInv, NothingLeftUnused, Restoring
<1>2. TypeOK /\ UsedInv /\ [Next]_vars => UsedInv'
  BY UsedStep
<1>3. UsedInv => NothingLeftUnused
  BY DEF UsedInv
<1>. QED
  BY <1>1, <1>2, <1>3, TypeCorrect, PTL DEF Spec

(***************************************************************************)
(* While nodes keep still, the validity check comes before the first file  *)
(* system, and what it saw stays so.                                       *)
(***************************************************************************)
StillRestoring == calm /\ Restoring

\* No node that answers has an invalid snapshot of a file system in S.
NoneSeenInvalid(S) == \A l \in S : lv[l] = "invalid" => NodeOf[l] \notin reach

ValidInv ==
    StillRestoring => /\ checks \in {Both, <<"valid">>, <<>>}
                      /\ checks # <<>> => lvs = LVs /\ NoneSeenInvalid(Kickstart)
                      /\ checks = <<>> => NoneSeenInvalid(LVs)

LEMMA ValidStops == ASSUME ended' # "no" PROVE ValidInv'
BY DEF ValidInv, StillRestoring, Restoring

\* Neither the nodes that answer nor the invalid snapshots become more.
LEMMA ValidFrame ==
  ASSUME ValidInv, UNCHANGED <<checks, ended, action, calm>>,
         checks = <<>> \/ UNCHANGED lvs,
         StillRestoring => UNCHANGED reach,
         \A l \in LVs : lv'[l] = "invalid" => lv[l] = "invalid" \/ ~StillRestoring
  PROVE  ValidInv'
<1>1. StillRestoring' => StillRestoring
  BY DEF StillRestoring, Restoring
<1>2. Kickstart \subseteq LVs
  BY LvmAssumption
<1>3. CASE StillRestoring
  BY <1>2, <1>3 DEF ValidInv, NoneSeenInvalid
<1>. QED
  BY <1>1, <1>3 DEF ValidInv

LEMMA ValidChecks ==
  ASSUME TypeOK, ValidInv, ReachCheck \/ MergingCheck \/ ExistCheck \/ ValidCheck
  PROVE  ValidInv'
<1>1. CASE \E r \in Reasons : Fail(r)
  BY <1>1, ValidStops DEF Fail
<1>2. CASE Pass
  <2>1. /\ UNCHANGED <<reach, lv, action, calm, ended, lvs>>
        /\ checks' = Tail(checks) /\ checks # <<>> /\ ended = "no"
    BY <1>2, CheckSteps DEF Pass, Proceed, system
  <2>2. ASSUME StillRestoring'
        PROVE  /\ checks' \in {Both, <<"valid">>, <<>>}
               /\ checks' # <<>> => lvs' = LVs /\ NoneSeenInvalid(Kickstart)'
               /\ checks' = <<>> => NoneSeenInvalid(LVs)'
    <3>1. StillRestoring
      BY <2>1, <2>2 DEF StillRestoring, Restoring
    <3>2. checks \in {Both, <<"valid">>} /\ lvs = LVs /\ NoneSeenInvalid(Kickstart)
      BY <2>1, <3>1 DEF ValidInv
    <3>3. CASE checks = Both
      BY <2>1, <3>2, <3>3, CheckLists DEF NoneSeenInvalid
    <3>4. CASE checks = <<"valid">>
      <4>1. checks' = <<>> /\ Head(checks) = "valid"
        BY <2>1, <3>4, CheckLists
      <4>2. ValidCheck
        BY <4>1 DEF ReachCheck, MergingCheck, MergingFound, ExistCheck, CheckTurn
      <4>3. \A l \in LVs \ Kickstart : NodeOf[l] \in reach => lv[l] # "invalid"
        BY <2>1, <3>1, <4>2 DEF ValidCheck, Fail, Pinged, StillRestoring
      <4>4. NoneSeenInvalid(LVs)
        BY <3>2, <4>3 DEF NoneSeenInvalid
      <4>. QED
        BY <2>1, <4>1, <4>4 DEF NoneSeenInvalid
    <3>. QED
      BY <3>2, <3>3, <3>4
  <2>. QED
    BY <2>2 DEF ValidInv
<1>. QED
  BY <1>1, <1>2, CheckSteps

LEMMA ValidStep == TypeOK /\ ValidInv /\ [Next]_vars => ValidInv'
<1>. SUFFICES ASSUME TypeOK, ValidInv, [Next]_vars PROVE ValidInv'
  OBVIOUS
<1>1. CASE Create \/ \E f \in BOOLEAN : Remove(f) \/ Restore(f)
  <2>1. ASSUME StillRestoring'
        PROVE  /\ checks' \in {Both, <<"valid">>}
               /\ lvs' = LVs /\ NoneSeenInvalid(Kickstart)'
    <3>1. PICK f \in BOOLEAN : Restore(f)
      BY <1>1, <2>1 DEF Create, Remove, Start, StillRestoring, Restoring
    <3>2. /\ checks' = Checks("restore", f) /\ lvs' = LVs /\ UNCHANGED system
          /\ \A l \in Kickstart : lv[l] = "valid"
      BY <3>1 DEF Restore, Start
    <3>3. checks' \in {Both, <<"valid">>}
      BY <3>2 DEF Checks, Both
    <3>. QED
      BY <3>2, <3>3 DEF NoneSeenInvalid, system
  <2>. QED
    BY <2>1, CheckLists DEF ValidInv
<1>2. CASE \E f \in BOOLEAN : NoRestorePlan(f)
  BY <1>2, ValidStops DEF NoRestorePlan
<1>3. CASE ReachCheck \/ MergingCheck \/ ExistCheck \/ ValidCheck
  BY <1>3, ValidChecks
<1>4. ASSUME NEW l \in LVs, LvTask(l) PROVE ValidInv'
  <2>1. CASE Fail("error")
    BY <2>1, ValidStops DEF Fail
  <2>2. CASE ~Fail("error")
    <3>1. checks = <<>> /\ UNCHANGED <<checks, ended, action, calm>>
      BY <1>4, <2>2, LvSteps DEF LvDone, Proceed
    <3>2. reach' = reach /\ \A k \in LVs : lv'[k] = "invalid" => lv[k] = "invalid"
      <4>1. CASE LvCall(l)
        BY <4>1 DEF LvCall, CreateLv, RemoveLv, RestoreLv, TypeOK
      <4>2. CASE UNCHANGED system
        BY <4>2 DEF system
      <4>. QED
        BY <1>4, <4>1, <4>2, LvSteps
    <3>. QED
      BY <3>1, <3>2, ValidFrame
  <2>. QED
    BY <2>1, <2>2
<1>5. ASSUME NEW n \in Nodes, GrubTask(n) PROVE ValidInv'
  <2>1. CASE Fail("error")
    BY <2>1, ValidStops DEF Fail
  <2>2. CASE ~Fail("error")
    BY <1>5, <2>2, GrubSteps, ValidFrame DEF GrubDone, Proceed, GrubCall, system
  <2>. QED
    BY <2>1, <2>2
<1>6. CASE RestartPeers
  <2>1. CASE Fail("error")
    BY <2>1, ValidStops DEF Fail
  <2>2. CASE ~Fail("error")
    <3>1. \A l \in LVs : lv'[l] = "invalid" => lv[l] = "invalid"
      BY <1>6, RestartedType DEF RestartPeers
    <3>. QED
      BY <1>6, <2>2, <3>1, ValidFrame DEF RestartPeers, Proceed
  <2>. QED
    BY <2>1, <2>2
<1>7. CASE RestartMs
  <2>1. CASE Fail("error")
    BY <2>1, ValidStops DEF Fail
  <2>2. CASE ~Fail("error")
    <3>1. \A l \in LVs : lv'[l] = "invalid" => lv[l] = "invalid"
      BY <1>7, <2>2, RestartedType DEF RestartMs
    <3>. QED
      BY <1>7, <2>2, <3>1, ValidFrame DEF RestartMs, Proceed
  <2>. QED
    BY <2>1, <2>2
<1>8. CASE Finish
  BY <1>8, ValidStops DEF Finish
<1>9. CASE Around
  <2>1. CASE ended # "no"
    BY <1>9, <2>1, AroundSteps, ValidStops
  <2>2. CASE ended = "no"
    <3>1. UNCHANGED <<todo, ended, action, calm>>
      BY <1>9, <2>2 DEF Around
    <3>2. ASSUME calm
          PROVE  /\ reach' = reach
                 /\ \A l \in LVs : lv'[l] = "invalid" => lv[l] = "invalid"
      <4>1. PICK l \in LVs : Merged(l)
        BY <1>9, <2>2, <3>2 DEF Around, Upgrade
      <4>. QED
        BY <4>1 DEF Merged, TypeOK
    <3>. QED
      BY <3>1, <3>2, ValidFrame DEF todo, StillRestoring
  <2>. QED
    BY <2>1, <2>2
<1>10. CASE UNCHANGED vars
  BY <1>10, ValidFrame DEF vars, system, todo, status
<1>. QED
  BY <1>1, <1>2, <1>3, <1>4, <1>5, <1>6, <1>7, <1>8, <1>9, <1>10 DEF Next, PlanStep

\* While nodes keep still no file system is restored, forced or not, if the
\* snapshot of another one on a node that answers is invalid.
THEOREM InvalidStopsRestore == Spec => []NoneRestoredIfInvalid
<1>1. Init => ValidInv
  BY DEF Init, ValidInv, StillRestoring, Restoring
<1>2. TypeOK /\ ValidInv /\ [Next]_vars => ValidInv'
  BY ValidStep
<1>3. ValidInv => NoneRestoredIfInvalid
  BY DEF ValidInv, NoneRestoredIfInvalid, NoneSeenInvalid, StillRestoring, Restoring
<1>. QED
  BY <1>1, <1>2, <1>3, TypeCorrect, PTL DEF Spec

(***************************************************************************)
(* Removals and backups, forced or not.                                    *)
(***************************************************************************)
\* What the tasks of a removal or restore are done with is gone, or skipped.
PurgeInv ==
    /\ RemovedButSkipped
    /\ ended = "no" /\ action # "create" =>
         \A l \in LVs : l \in lvs \/ ~Listed(l) \/ NodeOf[l] \in skipped
    /\ ended = "no" /\ action = "remove" =>
         /\ \A l \in LVs : l \in lvs \/ lv[l] = "absent" \/ NodeOf[l] \in skipped
         /\ \A n \in Nodes : n \in grubs \/ n \notin backup \/ n \in skipped

LEMMA PurgeStops == ASSUME ended' \notin {"no", "done"} PROVE PurgeInv'
BY DEF PurgeInv, RemovedButSkipped

\* No snapshot and no backup comes back, and none that was skipped is forgotten.
LEMMA PurgeFrame ==
  ASSUME PurgeInv, UNCHANGED <<action, ended, lvs, grubs, backup>>,
         ended = "done" => UNCHANGED skipped, skipped \subseteq skipped',
         \A l \in LVs : /\ lv[l] = "absent" => lv'[l] = "absent"
                        /\ Listed(l)' => Listed(l)
  PROVE  PurgeInv'
BY DEF PurgeInv, RemovedButSkipped

LEMMA PurgeLvStep ==
  ASSUME TypeOK, PurgeInv, NEW l \in LVs, LvTask(l)
  PROVE  PurgeInv'
<1>1. CASE Fail("error")
  BY <1>1, PurgeStops DEF Fail
<1>2. CASE ~Fail("error")
  <2>1. /\ ended = "no" /\ lvs' = lvs \ {l} /\ UNCHANGED <<action, ended, grubs>>
    BY <1>2, LvSteps DEF LvDone, Proceed
  <2>2. CASE LvCall(l) /\ UNCHANGED skipped
    <3>1. backup' = backup
      BY <2>2 DEF LvCall
    <3>2. \A k \in LVs : k # l => lv'[k] = lv[k]
      BY <2>2 DEF LvCall, CreateLv, RemoveLv, RestoreLv, TypeOK
    <3>3. action = "remove" => lv'[l] = "absent"
      BY <2>2 DEF LvCall, RemoveLv, TypeOK
    <3>4. action # "create" => ~Listed(l)'
      BY <2>2 DEF LvCall, RemoveLv, RestoreLv, TypeOK, Listed, Merges
    <3>. QED
      BY <2>1, <2>2, <3>1, <3>2, <3>3, <3>4 DEF PurgeInv, RemovedButSkipped, Listed
  <2>3. CASE UNCHANGED system /\ skipped' = skipped \cup {NodeOf[l]}
    BY <2>1, <2>3 DEF PurgeInv, RemovedButSkipped, Listed, system
  <2>. QED
    BY <1>2, <2>2, <2>3, LvSteps
<1>. QED
  BY <1>1, <1>2

LEMMA PurgeGrubStep ==
  ASSUME TypeOK, PurgeInv, NEW n \in Nodes, GrubTask(n)
  PROVE  PurgeInv'
<1>1. CASE Fail("error")
  BY <1>1, PurgeStops DEF Fail
<1>2. CASE ~Fail("error")
  <2>1. /\ ended = "no" /\ grubs' = grubs \ {n} /\ UNCHANGED <<action, ended, lvs>>
    BY <1>2, GrubSteps DEF GrubDone, Proceed
  <2>2. CASE GrubCall(n) /\ UNCHANGED skipped
    <3>1. lv' = lv /\ (action = "remove" => backup' = backup \ {n})
      BY <2>2 DEF GrubCall
    <3>. QED
      BY <2>1, <2>2, <3>1 DEF PurgeInv, RemovedButSkipped, Listed
  <2>3. CASE UNCHANGED system /\ skipped' = skipped \cup {n}
    BY <2>1, <2>3 DEF PurgeInv, RemovedButSkipped, Listed, system
  <2>. QED
    BY <1>2, <2>2, <2>3, GrubSteps
<1>. QED
  BY <1>1, <1>2

LEMMA PurgeStep == TypeOK /\ PurgeInv /\ [Next]_vars => PurgeInv'
<1>. SUFFICES ASSUME TypeOK, PurgeInv, [Next]_vars PROVE PurgeInv'
  OBVIOUS
<1>1. CASE Create \/ \E f \in BOOLEAN : Remove(f) \/ Restore(f)
  BY <1>1 DEF Create, Remove, Restore, Start, PurgeInv, RemovedButSkipped
<1>2. CASE \E f \in BOOLEAN : NoRestorePlan(f)
  BY <1>2, PurgeStops DEF NoRestorePlan
<1>3. CASE ReachCheck \/ MergingCheck \/ ExistCheck \/ ValidCheck
  <2>1. CASE Pass
    BY <1>3, <2>1, CheckSteps, PurgeFrame DEF Pass, Proceed, system, Listed
  <2>2. CASE \E r \in Reasons : Fail(r)
    BY <2>2, PurgeStops DEF Fail
  <2>. QED
    BY <1>3, <2>1, <2>2, CheckSteps
<1>4. ASSUME NEW l \in LVs, LvTask(l) PROVE PurgeInv'
  BY <1>4, PurgeLvStep
<1>5. ASSUME NEW n \in Nodes, GrubTask(n) PROVE PurgeInv'
  BY <1>5, PurgeGrubStep
<1>6. CASE RestartPeers
  <2>1. /\ \A l \in LVs : (lv[l] = "absent" => lv'[l] = "absent") /\ (Listed(l)' => Listed(l))
        /\ backup' = backup /\ ended = "no"
    BY <1>6, RestartedType DEF RestartPeers, Listed
  <2>2. CASE Fail("error")
    BY <2>2, PurgeStops DEF Fail
  <2>3. CASE ~Fail("error")
    BY <1>6, <2>1, <2>3, PurgeFrame DEF RestartPeers, Proceed
  <2>. QED
    BY <2>2, <2>3
<1>7. CASE RestartMs
  <2>1. /\ \A l \in LVs : (lv[l] = "absent" => lv'[l] = "absent") /\ (Listed(l)' => Listed(l))
        /\ backup' = backup /\ ended = "no"
    BY <1>7, RestartedType DEF RestartMs, Listed, system
  <2>2. CASE Fail("error")
    BY <2>2, PurgeStops DEF Fail
  <2>3. CASE ~Fail("error")
    BY <1>7, <2>1, <2>3, PurgeFrame DEF RestartMs, Proceed
  <2>. QED
    BY <2>2, <2>3
<1>8. CASE Finish
  BY <1>8 DEF Finish, system, TypeOK, PurgeInv, RemovedButSkipped
<1>9. CASE Around
  <2>1. CASE ended = "no"
    BY <1>9, <2>1, AroundSteps, PurgeFrame DEF todo, Around
  <2>2. CASE ended # "no"
    BY <1>9, <2>2, AroundSteps, PurgeStops
  <2>. QED
    BY <2>1, <2>2
<1>10. CASE UNCHANGED vars
  BY <1>10, PurgeFrame DEF vars, system, todo, status, Listed
<1>. QED
  BY <1>1, <1>2, <1>3, <1>4, <1>5, <1>6, <1>7, <1>8, <1>9, <1>10 DEF Next, PlanStep

\* A removal that succeeded, forced or not, left neither snapshot nor backup on
\* the nodes that answered all its tasks.
THEOREM RemovalSpares == Spec => []RemovedButSkipped
<1>1. Init => PurgeInv
  BY DEF Init, PurgeInv, RemovedButSkipped
<1>2. TypeOK /\ PurgeInv /\ [Next]_vars => PurgeInv'
  BY PurgeStep
<1>3. PurgeInv => RemovedButSkipped
  BY DEF PurgeInv
<1>. QED
  BY <1>1, <1>2, <1>3, TypeCorrect, PTL DEF Spec

\* Only a grub task takes a backup, and it comes after the node's file systems.
LEMMA BackupGoes ==
  ASSUME TypeOK, PurgeInv, [Next]_vars, NEW l \in LVs,
         NodeOf[l] \in backup \ backup', Listed(l)
  PROVE  NodeOf[l] \in skipped
<1>0. backup' # backup
  OBVIOUS
<1>1. PICK n \in Nodes : GrubTask(n)
  <2>1. ~UNCHANGED vars /\ ~UNCHANGED system
    BY <1>0 DEF vars, system
  <2>2. ~(Create \/ \E f \in BOOLEAN : Remove(f) \/ Restore(f) \/ NoRestorePlan(f))
    BY <2>1 DEF Create, Remove, Restore, Start, NoRestorePlan
  <2>3. ~(ReachCheck \/ MergingCheck \/ ExistCheck \/ ValidCheck)
    BY <2>1, CheckSteps
  <2>4. ~\E k \in LVs : LvTask(k)
    BY <1>0, <2>1, LvSteps DEF LvCall
  <2>5. ~RestartPeers /\ ~RestartMs /\ ~Finish
    BY <1>0, <2>1 DEF RestartPeers, RestartMs, Finish, system
  <2>6. ~Around
    BY <1>0, AroundSteps
  <2>. QED
    BY <2>1, <2>2, <2>3, <2>4, <2>5, <2>6 DEF Next, PlanStep
<1>2. /\ ended = "no" /\ \A k \in lvs : NodeOf[k] # n
      /\ action # "create" /\ NodeOf[l] = n
  BY <1>0, <1>1, GrubSteps DEF GrubCall, GrubTurn, system
<1>. QED
  BY <1>2 DEF PurgeInv

\* No plan takes the grub.cfg backup of a node, forced or not, that has a usable
\* snapshot, unless it was forced and left file systems of that node out.
THEOREM BackupIsLast == Spec => BackupGoesLast
<1>1. Init => PurgeInv
  BY DEF Init, PurgeInv, RemovedButSkipped
<1>2. TypeOK /\ PurgeInv /\ [Next]_vars => PurgeInv'
  BY PurgeStep
<1>3. TypeOK /\ PurgeInv /\ [Next]_vars =>
        [\A l \in LVs : NodeOf[l] \in backup \ backup' /\ Listed(l) => NodeOf[l] \in skipped]_vars
  BY BackupGoes
<1>. QED
  BY <1>1, <1>2, <1>3, TypeCorrect, PTL DEF Spec, BackupGoesLast

(***************************************************************************)
(* Plans implement SnapshotPlan.                                           *)
(***************************************************************************)
Mode == IF forced THEN "forced" ELSE "careful"
LenientPlans == {<<"remove", "forced">>, <<"restore", "forced">>}

LEMMA HeldSame ==
  ASSUME UNCHANGED backup,
         \A l \in LVs : (Listed(l)' <=> Listed(l)) /\ (lv'[l] \in Merges <=> lv[l] \in Merges)
  PROVE  Held' = Held
BY LvmAssumption DEF Held

\* The tasks of items come in the order of the nodes, the grub task last.
LEMMA LvTurn ==
  ASSUME TypeOK, NEW l \in LVs, l \in lvs, ended = "no", NodeTurn(NodeOf[l])
  PROVE  Plan!Turn(l)
<1>1. l \notin Nodes /\ NodeOf[l] \in Nodes /\ Home(l) = NodeOf[l]
  BY LvmAssumption DEF Home
<1>. SUFFICES ASSUME NEW y \in lvs \cup grubs, <<y, l>> \in Earlier PROVE FALSE
  BY <1>1 DEF Plan!Turn
<1>2. Rank[Home(y)] < Rank[NodeOf[l]]
  BY <1>1, LvmAssumption DEF Earlier
<1>3. CASE y \in lvs
  <2>1. y \in LVs /\ Home(y) = NodeOf[y] /\ NodeOf[y] \in Nodes
    BY <1>3, LvmAssumption DEF TypeOK, Home
  <2>. QED
    BY <1>2, <1>3, <2>1 DEF NodeTurn
<1>4. CASE y \in grubs
  <2>1. y \in Nodes /\ y \notin LVs /\ Home(y) = y
    BY <1>4, LvmAssumption DEF TypeOK, Home
  <2>. QED
    BY <1>2, <1>4, <2>1 DEF NodeTurn
<1>. QED
  BY <1>3, <1>4

LEMMA GrubsTurn ==
  ASSUME TypeOK, NEW n \in Nodes, ended = "no", GrubTurn(n)
  PROVE  Plan!Turn(n)
<1>1. n \notin LVs /\ Home(n) = n /\ n \in grubs
  BY LvmAssumption DEF Home, GrubTurn
<1>. SUFFICES ASSUME NEW y \in lvs \cup grubs, <<y, n>> \in Earlier PROVE FALSE
  BY <1>1 DEF Plan!Turn
<1>2. Rank[Home(y)] < Rank[n] \/ (y \in LVs /\ n = NodeOf[y])
  BY <1>1 DEF Earlier
<1>3. CASE y \in lvs
  <2>1. y \in LVs /\ Home(y) = NodeOf[y] /\ NodeOf[y] \in Nodes
    BY <1>3, LvmAssumption DEF TypeOK, Home
  <2>. QED
    BY <1>2, <1>3, <2>1 DEF GrubTurn, NodeTurn
<1>4. CASE y \in grubs
  <2>1. y \in Nodes /\ y \notin LVs /\ Home(y) = y
    BY <1>4, LvmAssumption DEF TypeOK, Home
  <2>. QED
    BY <1>2, <1>4, <2>1 DEF GrubTurn, NodeTurn
<1>. QED
  BY <1>3, <1>4

\* What the agent does to a snapshot or a grub.cfg is what the plan demands.
LEMMA LvEffect ==
  ASSUME TypeOK, NEW l \in LVs, LvCall(l)
  PROVE  Plan!Effect(l)
<1>0. l \notin Nodes /\ backup' = backup /\ l \in LVs \cup Nodes
  BY LvmAssumption DEF LvCall
<1>. DEFINE new == IF Listed(l)' THEN "kept" ELSE IF lv'[l] \in Merges THEN "spent" ELSE "none"
<1>1. lv' = [lv EXCEPT ![l] = lv'[l]]
  BY DEF LvCall, CreateLv, RemoveLv, RestoreLv, TypeOK
<1>2. Held' = [Held EXCEPT ![l] = new]
  BY <1>0, <1>1 DEF Held, Listed, TypeOK
<1>3. /\ Held[l] = IF Listed(l) THEN "kept" ELSE IF lv[l] \in Merges THEN "spent" ELSE "none"
      /\ lv[l] \in {"absent", "valid", "invalid"} \cup Merges
  BY <1>0 DEF Held, TypeOK
<1>4. CASE action = "create" /\ CreateLv(l)
  <2>1. new = "kept"
    BY <1>4 DEF CreateLv, Listed, TypeOK
  <2>. QED
    BY <1>2, <1>4, <2>1 DEF Plan!Effect, Plan!Goal
<1>5. CASE action = "remove" /\ RemoveLv(l)
  <2>1. new = "none" /\ Held[l] # "spent"
    BY <1>3, <1>5 DEF RemoveLv, Listed, TypeOK, Merges
  <2>. QED
    BY <1>2, <1>5, <2>1 DEF Plan!Effect, Plan!Goal
<1>6. CASE action = "restore" /\ RestoreLv(l)
  <2>1. \/ Held[l] = "kept" /\ new = "spent"
        \/ Held[l] # "kept" /\ new = Held[l]
    BY <1>3, <1>6 DEF RestoreLv, Listed, TypeOK, Merges
  <2>2. new \in Plan!Goal(Held[l])
    BY <1>6, <2>1 DEF Plan!Goal
  <2>. QED
    BY <1>2, <2>2 DEF Plan!Effect
<1>. QED
  BY <1>4, <1>5, <1>6 DEF LvCall

LEMMA GrubEffect ==
  ASSUME TypeOK, NEW n \in Nodes, GrubCall(n)
  PROVE  Plan!Effect(n)
<1>0. n \notin LVs /\ lv' = lv /\ n \in LVs \cup Nodes
  BY LvmAssumption DEF GrubCall
<1>. DEFINE new == IF n \in backup' THEN "kept" ELSE "none"
<1>1. backup' \ {n} = backup \ {n}
  BY DEF GrubCall
<1>2. Held' = [Held EXCEPT ![n] = new]
  BY <1>0, <1>1 DEF Held, Listed
<1>3. Held[n] = IF n \in backup THEN "kept" ELSE "none"
  BY <1>0 DEF Held
<1>4. \/ action = "create" /\ new = "kept"
      \/ action = "remove" /\ new = "none"
      \/ action = "restore" /\ Held[n] = "kept" /\ new = "none"
      \/ action = "restore" /\ Held[n] = "none" /\ new = "none"
  BY <1>3 DEF GrubCall
<1>5. new \in Plan!Goal(Held[n])
  BY <1>3, <1>4 DEF Plan!Goal
<1>. QED
  BY <1>2, <1>5 DEF Plan!Effect

\* A forced task that leaves its node out.
LEMMA MaySkip ==
  ASSUME NEW n, Skips(n)
  PROVE  <<action, Mode>> \in LenientPlans
<1>1. Mode = "forced"
  BY DEF Skips, Mode
<1>2. action = "remove" \/ action = "restore"
  BY DEF Skips
<1>. QED
  BY <1>1, <1>2 DEF LenientPlans

LEMMA FailBreaks ==
  ASSUME NEW r, Fail(r), ended = "no",
         Held' = Held \/ \E x \in LVs \cup Nodes : Plan!Turn(x) /\ Plan!Effect(x)
  PROVE  Plan!Break
<1>1. lvs' \cup grubs' = {} /\ ended' = "failed" /\ UNCHANGED <<action, forced>>
  BY DEF Fail
<1>. QED
  BY <1>1 DEF Plan!Break

LEMMA LvPlanStep ==
  ASSUME TypeOK, NEW l \in LVs, LvTask(l)
  PROVE  Plan!Break \/ Plan!Act(l) \/ Plan!PassOver(l)
<1>1. l \in LVs \cup Nodes /\ l \notin Nodes /\ Plan!Turn(l) /\ ended = "no"
  BY LvTurn, LvmAssumption DEF LvTask
<1>2. ASSUME LvDone(l) PROVE Plan!Go(l)
  <2>1. lvs' \cup grubs' = (lvs \cup grubs) \ {l} /\ UNCHANGED <<action, forced, ended>>
    BY <1>1, <1>2 DEF LvDone, Proceed, TypeOK
  <2>. QED
    BY <1>1, <2>1 DEF Plan!Go
<1>3. CASE LvCall(l) /\ LvDone(l)
  BY <1>1, <1>2, <1>3, LvEffect DEF Plan!Act
<1>4. CASE LvCall(l) /\ Fail("error")
  BY <1>1, <1>4, LvEffect, FailBreaks
<1>5. CASE UNCHANGED system /\ Fail("error")
  <2>1. Held' = Held
    BY <1>5, HeldSame DEF system, Listed
  <2>. QED
    BY <1>1, <1>5, <2>1, FailBreaks
<1>6. CASE Skips(NodeOf[l]) /\ UNCHANGED system /\ LvDone(l)
  <2>1. Held' = Held
    BY <1>6, HeldSame DEF system, Listed
  <2>. QED
    BY <1>1, <1>2, <1>6, <2>1, MaySkip DEF Plan!PassOver, Mode, LenientPlans
<1>. QED
  BY <1>3, <1>4, <1>5, <1>6 DEF LvTask

LEMMA GrubPlanStep ==
  ASSUME TypeOK, NEW n \in Nodes, GrubTask(n)
  PROVE  Plan!Break \/ Plan!Act(n) \/ Plan!PassOver(n)
<1>1. n \in LVs \cup Nodes /\ n \notin LVs /\ Plan!Turn(n) /\ ended = "no"
  BY GrubsTurn, LvmAssumption DEF GrubTask
<1>2. ASSUME GrubDone(n) PROVE Plan!Go(n)
  <2>1. lvs' \cup grubs' = (lvs \cup grubs) \ {n} /\ UNCHANGED <<action, forced, ended>>
    BY <1>1, <1>2 DEF GrubDone, Proceed, TypeOK
  <2>. QED
    BY <1>1, <2>1 DEF Plan!Go
<1>3. CASE GrubCall(n) /\ GrubDone(n)
  BY <1>1, <1>2, <1>3, GrubEffect DEF Plan!Act
<1>4. CASE GrubCall(n) /\ Fail("error")
  BY <1>1, <1>4, GrubEffect, FailBreaks
<1>5. CASE UNCHANGED system /\ Fail("error")
  <2>1. Held' = Held
    BY <1>5, HeldSame DEF system, Listed
  <2>. QED
    BY <1>1, <1>5, <2>1, FailBreaks
<1>6. CASE Skips(n) /\ UNCHANGED system /\ GrubDone(n)
  <2>1. Held' = Held
    BY <1>6, HeldSame DEF system, Listed
  <2>. QED
    BY <1>1, <1>2, <1>6, <2>1, MaySkip DEF Plan!PassOver, Mode, LenientPlans
<1>. QED
  BY <1>3, <1>4, <1>5, <1>6 DEF GrubTask

\* What happens beside the plans changes at most that a merge is complete.
LEMMA AroundPlanStep ==
  ASSUME TypeOK, Around
  PROVE  Plan!Around
<1>1. /\ UNCHANGED <<todo, action, forced, backup>>
      /\ ended = "no" => ended' = "no"
      /\ ended # "no" => ended' = "idle"
  BY AroundSteps
<1>2. Held' = Held \/ \E l \in LVs : Plan!Settle(l)
  <2>1. ASSUME NEW l \in LVs, Merged(l) PROVE Plan!Settle(l)
    <3>1. l \notin Nodes /\ l \in LVs \cup Nodes
      BY LvmAssumption
    <3>2. Held[l] = "spent"
      BY <2>1, <3>1 DEF Merged, Held, Listed, Merges
    <3>3. Held' = [Held EXCEPT ![l] = "none"]
      BY <1>1, <2>1, <3>1 DEF Merged, Held, Listed, Merges, TypeOK
    <3>. QED
      BY <3>2, <3>3 DEF Plan!Settle
  <2>2. ASSUME NEW n \in Nodes, Crash(n) PROVE Held' = Held
    BY <1>1, <2>2, RestartedType, HeldSame DEF Crash, Listed, Merges
  <2>3. ASSUME NEW l \in LVs, Invalidate(l) PROVE Held' = Held
    BY <1>1, <2>3, HeldSame DEF Invalidate, Listed, Merges, TypeOK
  <2>4. ASSUME lv' = lv PROVE Held' = Held
    BY <1>1, <2>4, HeldSame DEF Listed
  <2>. QED
    BY <2>1, <2>2, <2>3, <2>4 DEF Around, Upgrade, Lose, Return
<1>3. lvs' \cup grubs' = lvs \cup grubs
  BY <1>1 DEF todo
<1>. QED
  BY <1>1, <1>2, <1>3 DEF Plan!Around

LEMMA PlanAbstractStep ==
  ASSUME TypeOK, [Next]_vars
  PROVE  [Plan!Next]_(Plan!vars)
<1>. USE DEF Plan!Next, Plan!vars
<1>0. UNCHANGED <<lv, backup>> => Held' = Held
  BY HeldSame DEF Listed
<1>1. CASE Create \/ \E f \in BOOLEAN : Remove(f) \/ Restore(f)
  <2>1. /\ ended # "no" /\ ended' = "no" /\ action' \in {"create", "remove", "restore"}
        /\ lvs' \cup grubs' = LVs \cup Nodes /\ UNCHANGED <<lv, backup>>
    BY <1>1 DEF Create, Remove, Restore, Start, system
  <2>. QED
    BY <1>0, <2>1 DEF Plan!Begin
<1>2. CASE \E f \in BOOLEAN : NoRestorePlan(f)
  <2>1. /\ ended # "no" /\ ended' = "failed" /\ action' = "restore"
        /\ lvs' \cup grubs' = lvs \cup grubs /\ UNCHANGED <<lv, backup>>
    BY <1>2 DEF NoRestorePlan, system, todo
  <2>. QED
    BY <1>0, <2>1 DEF Plan!Refuse
<1>3. CASE ReachCheck \/ MergingCheck \/ ExistCheck \/ ValidCheck
  <2>1. ended = "no" /\ Held' = Held
    BY <1>0, <1>3, CheckSteps DEF system
  <2>2. CASE Pass
    BY <2>1, <2>2 DEF Pass, Proceed
  <2>3. CASE \E r \in Reasons : Fail(r)
    BY <2>1, <2>3, FailBreaks
  <2>. QED
    BY <1>3, <2>2, <2>3, CheckSteps
<1>4. ASSUME NEW l \in LVs, LvTask(l) PROVE Plan!Next
  BY <1>4, LvPlanStep
<1>5. ASSUME NEW n \in Nodes, GrubTask(n) PROVE Plan!Next
  BY <1>5, GrubPlanStep
<1>6. CASE RestartPeers
  <2>1. ended = "no" /\ Held' = Held
    BY <1>6, RestartedType, HeldSame DEF RestartPeers, Listed, Merges
  <2>2. CASE Fail("error")
    BY <2>1, <2>2, FailBreaks
  <2>3. CASE ~Fail("error")
    BY <1>6, <2>1, <2>3 DEF RestartPeers, Proceed
  <2>. QED
    BY <2>2, <2>3
<1>7. CASE RestartMs
  <2>1. ended = "no" /\ Held' = Held
    <3>1. CASE UNCHANGED system
      BY <1>0, <1>7, <3>1 DEF RestartMs, system
    <3>2. CASE Restarted({Ms}) /\ UNCHANGED backup
      BY <1>7, <3>2, RestartedType, HeldSame DEF RestartMs, Listed, Merges
    <3>. QED
      BY <1>7, <3>1, <3>2 DEF RestartMs
  <2>2. CASE Fail("error")
    BY <2>1, <2>2, FailBreaks
  <2>3. CASE ~Fail("error")
    BY <1>7, <2>1, <2>3 DEF RestartMs, Proceed
  <2>. QED
    BY <2>2, <2>3
<1>8. CASE Finish
  BY <1>0, <1>8 DEF Finish, Plan!Finish, system, todo
<1>9. CASE Around
  BY <1>9, AroundPlanStep
<1>10. CASE UNCHANGED vars
  BY <1>0, <1>10 DEF vars, system, todo, status
<1>. QED
  BY <1>1, <1>2, <1>3, <1>4, <1>5, <1>6, <1>7, <1>8, <1>9, <1>10 DEF Next, PlanStep

\* The plans of the LVM driver are plans as SnapshotPlan describes them: one task
\* for each snapshot and each grub.cfg, in the order of the nodes with grub.cfg
\* last, which changes that item alone, and a success after all of them.
THEOREM LvmPlansAreOrdered == Spec => ImplementsPlan
<1>1. Init => Plan!Init
  <2>. SUFFICES ASSUME Init PROVE Plan!Init
    OBVIOUS
  <2>1. Held \in [LVs \cup Nodes -> {"none", "kept", "spent"}]
    BY DEF Held
  <2>2. ended = "done" /\ lvs \cup grubs = {} /\ action = "none"
    BY DEF Init
  <2>. QED
    BY <2>1, <2>2 DEF Plan!Init
<1>2. TypeOK /\ [Next]_vars => [Plan!Next]_(Plan!vars)
  BY PlanAbstractStep
<1>. QED
  BY <1>1, <1>2, TypeCorrect, PTL DEF Spec, ImplementsPlan, Plan!Spec

\* What SnapshotPlanProofs proves of every implementation of SnapshotPlan.
PlanFacts == INSTANCE SnapshotPlanProofs WITH
            Items <- LVs \cup Nodes, Before <- Earlier,
            Lenient <- {<<"remove", "forced">>, <<"restore", "forced">>}, Consumes <- TRUE,
            snap <- Held, todo <- lvs \cup grubs, kind <- action,
            mode <- IF forced THEN "forced" ELSE "careful", ended <- ended

\* So a plan that was not forced and is done, a create, a removal or a restore,
\* left each snapshot and each grub.cfg copy as it had to.
THEOREM LvmPlansEndWhole == Spec => []Plan!Whole
<1>0. Plan!Init => PlanFacts!Init
  BY DEF Plan!Init, PlanFacts!Init
<1>1. [Plan!Next]_(Plan!vars) => [PlanFacts!Next]_(PlanFacts!vars)
  <2>1. \A x : Plan!Turn(x) <=> PlanFacts!Turn(x)
    BY DEF Plan!Turn, PlanFacts!Turn
  <2>2. \A v : Plan!Goal(v) = PlanFacts!Goal(v)
    BY DEF Plan!Goal, PlanFacts!Goal
  <2>3. \A x : Plan!Effect(x) <=> PlanFacts!Effect(x)
    BY <2>2 DEF Plan!Effect, PlanFacts!Effect
  <2>4. \A x : Plan!Go(x) <=> PlanFacts!Go(x)
    BY DEF Plan!Go, PlanFacts!Go
  <2>. QED
    BY <2>1, <2>3, <2>4 DEF Plan!Next, PlanFacts!Next, Plan!vars, PlanFacts!vars,
       Plan!Begin, PlanFacts!Begin, Plan!Refuse, PlanFacts!Refuse, Plan!Break, PlanFacts!Break,
       Plan!Finish, PlanFacts!Finish, Plan!Around, PlanFacts!Around, Plan!Settle, PlanFacts!Settle,
       Plan!Act, PlanFacts!Act, Plan!PassOver, PlanFacts!PassOver
<1>2. PlanFacts!Spec => []PlanFacts!Whole
  BY PlanFacts!DoneIsWhole
<1>3. PlanFacts!Whole <=> Plan!Whole
  BY DEF PlanFacts!Whole, Plan!Whole
<1>. QED
  BY <1>0, <1>1, <1>2, <1>3, LvmPlansAreOrdered, PTL
     DEF ImplementsPlan, Plan!Spec, PlanFacts!Spec

(***************************************************************************)
(* A plan never waits for itself, and gets shorter with every step.        *)
(***************************************************************************)
\* Some task, check or restart has its turn, or the plan can finish.
SomeTurn ==
    \/ \E c \in {"reach", "merging", "exist", "valid"} : CheckTurn(c)
    \/ \E l \in lvs : NodeTurn(NodeOf[l])
    \/ \E n \in Nodes : GrubTurn(n)
    \/ \E w \in {"peers", "ms"} : RestartTurn(w)
    \/ checks = <<>> /\ lvs = {} /\ grubs = {} /\ restarts = {}

\* Of some nodes one has the lowest rank.
LEMMA LowestRank ==
  ASSUME NEW S \in SUBSET Nodes, S # {}
  PROVE  \E n \in S : \A m \in S : ~(Rank[m] < Rank[n])
<1>. DEFINE T == {Rank[n] : n \in S}
<1>1. T \subseteq Nat /\ T # {}
  BY LvmAssumption
<1>2. PICK x \in T : \A y \in T : <<y, x>> \notin OpToRel(<, Nat)
  BY <1>1, NatLessThanWellFounded, WFMin, Zenon
<1>3. \A y \in T : ~(y < x)
  BY <1>1, <1>2 DEF OpToRel
<1>. QED
  BY <1>3

LEMMA TurnComes ==
  ASSUME TypeOK, ended = "no"
  PROVE  SomeTurn
<1>1. CASE checks # <<>>
  <2>0. checks \in Seq({"reach", "merging", "exist", "valid"})
    BY DEF TypeOK
  <2>1. Head(checks) \in {"reach", "merging", "exist", "valid"}
    BY <1>1, <2>0
  <2>. QED
    BY <1>1, <2>1 DEF SomeTurn, CheckTurn
<1>2. CASE checks = <<>> /\ \E n \in Peers : n \in grubs \/ \E l \in lvs : NodeOf[l] = n
  <2>. DEFINE S == {n \in Peers : n \in grubs \/ \E l \in lvs : NodeOf[l] = n}
  <2>1. PICK n \in S : \A m \in S : ~(Rank[m] < Rank[n])
    BY <1>2, LowestRank DEF Nodes
  <2>2. n \in Peers /\ n # Ms /\ ~(Rank[Ms] < Rank[n])
    BY <2>1, LvmAssumption DEF Nodes
  <2>3. NodeTurn(n)
    BY <1>2, <2>1, <2>2 DEF NodeTurn, Nodes
  <2>4. CASE \E l \in lvs : NodeOf[l] = n
    BY <2>3, <2>4 DEF SomeTurn
  <2>5. CASE \A l \in lvs : NodeOf[l] # n
    BY <2>1, <2>2, <2>3, <2>5 DEF SomeTurn, GrubTurn, Nodes
  <2>. QED
    BY <2>4, <2>5
<1>3. CASE checks = <<>> /\ \A n \in Peers : n \notin grubs /\ \A l \in lvs : NodeOf[l] # n
  <2>0. lvs \subseteq LVs /\ grubs \subseteq Nodes
    BY DEF TypeOK
  <2>1. /\ lvs \cap {l \in LVs : NodeOf[l] # Ms} = {} /\ grubs \subseteq {Ms}
        /\ \A l \in lvs : NodeOf[l] = Ms
    BY <1>3, <2>0, LvmAssumption DEF Nodes
  <2>2. CASE lvs = {} /\ grubs = {}
    <3>1. restarts = {} \/ restarts = {"ms"} \/ "peers" \in restarts
      BY DEF TypeOK
    <3>. QED
      BY <1>3, <2>1, <2>2, <3>1 DEF SomeTurn, RestartTurn
  <2>3. CASE (lvs # {} \/ grubs # {}) /\ RestartFirst /\ "peers" \in restarts
    BY <1>3, <2>1, <2>3 DEF SomeTurn, RestartTurn
  <2>4. CASE (lvs # {} \/ grubs # {}) /\ ~(RestartFirst /\ "peers" \in restarts)
    <3>1. NodeTurn(Ms)
      BY <1>3, <2>1, <2>4, LvmAssumption DEF NodeTurn, Nodes
    <3>. QED
      BY <2>1, <2>4, <3>1 DEF SomeTurn, GrubTurn, Nodes
  <2>. QED
    BY <2>2, <2>3, <2>4
<1>. QED
  BY <1>1, <1>2, <1>3

\* While a plan runs the turn of some task comes, for any number of nodes, in
\* any order: no task waits for one that waits for it.
THEOREM NoTaskWaitsInVain == Spec => [](ended = "no" => SomeTurn)
<1>1. TypeOK => (ended = "no" => SomeTurn)
  BY TurnComes
<1>. QED
  BY <1>1, TypeCorrect, PTL

\* Nothing is added to what the plan has to do.
Remains == /\ Len(checks') <= Len(checks) /\ lvs' \subseteq lvs
           /\ grubs' \subseteq grubs /\ restarts' \subseteq restarts
Shrinks == /\ Remains
           /\ \/ Len(checks') < Len(checks) \/ lvs' # lvs
              \/ grubs' # grubs \/ restarts' # restarts

LEMMA PlanStepShrinks ==
  ASSUME TypeOK, PlanStep, ended' = "no"
  PROVE  Shrinks
<1>0. \A r : ~Fail(r)
  BY DEF Fail
<1>1. checks \in Seq({"reach", "merging", "exist", "valid"}) /\ Len(checks) \in Nat
  <2>1. checks \in Seq({"reach", "merging", "exist", "valid"})
    BY DEF TypeOK
  <2>. QED
    BY <2>1
<1>2. CASE ReachCheck \/ MergingCheck \/ ExistCheck \/ ValidCheck
  <2>1. Pass /\ checks # <<>>
    BY <1>0, <1>2, CheckSteps
  <2>2. Len(checks') = Len(checks) - 1
    BY <1>1, <2>1 DEF Pass
  <2>. QED
    BY <1>1, <2>1, <2>2 DEF Pass, Shrinks, Remains
<1>3. ASSUME NEW l \in LVs, LvTask(l) PROVE Shrinks
  <2>1. LvDone(l) /\ l \in lvs
    BY <1>0, <1>3, LvSteps
  <2>. QED
    BY <1>1, <2>1 DEF LvDone, Shrinks, Remains
<1>4. ASSUME NEW n \in Nodes, GrubTask(n) PROVE Shrinks
  <2>1. GrubDone(n) /\ n \in grubs
    BY <1>0, <1>4, GrubSteps DEF GrubTurn
  <2>. QED
    BY <1>1, <2>1 DEF GrubDone, Shrinks, Remains
<1>5. CASE RestartPeers
  BY <1>0, <1>1, <1>5 DEF RestartPeers, RestartTurn, Shrinks, Remains
<1>6. CASE RestartMs
  BY <1>0, <1>1, <1>6 DEF RestartMs, RestartTurn, Shrinks, Remains
<1>7. CASE Finish
  BY <1>7 DEF Finish
<1>. QED
  BY <1>2, <1>3, <1>4, <1>5, <1>6, <1>7 DEF PlanStep

\* Every step of a plan ends it or leaves it less to do, and nothing that goes
\* on around it gives it more; so it takes at most one step for each check,
\* task and restart, and one to finish.
THEOREM PlansRunDown ==
    Spec => [][ended = "no" /\ ended' = "no" =>
                 IF PlanStep THEN Shrinks ELSE UNCHANGED todo]_vars
<1>1. TypeOK /\ [Next]_vars =>
        [ended = "no" /\ ended' = "no" => IF PlanStep THEN Shrinks ELSE UNCHANGED todo]_vars
  <2>. SUFFICES ASSUME TypeOK, Next, ended = "no", ended' = "no"
                PROVE  IF PlanStep THEN Shrinks ELSE UNCHANGED todo
    OBVIOUS
  <2>1. CASE PlanStep
    BY <2>1, PlanStepShrinks
  <2>2. CASE ~PlanStep
    <3>1. Around
      BY <2>2 DEF Next, Create, Remove, Restore, Start, NoRestorePlan
    <3>. QED
      BY <2>2, <3>1 DEF Around
  <2>. QED
    BY <2>1, <2>2
<1>. QED
  BY <1>1, TypeCorrect, PTL DEF Spec
=============================================================================
