------------------------ MODULE SnapshotPlanProofs ------------------------
(***************************************************************************)
(* What every plan that implements SnapshotPlan guarantees.                *)
(***************************************************************************)
EXTENDS SnapshotPlan, TLAPS

Strict == <<kind, mode>> \notin Lenient

\* An item that a strict plan has come to.
AsDemanded(x) == /\ kind = "create" => snap[x] = "kept"
                 /\ kind = "remove" => snap[x] = "none"
                 /\ kind = "restore" /\ Consumes => snap[x] # "kept"

WholeInv ==
    /\ ended = "done" /\ kind # "none" /\ Strict => \A x \in Items : AsDemanded(x)
    /\ ended = "no" /\ Strict => \A x \in Items : x \in todo \/ AsDemanded(x)

LEMMA TypeStep == TypeOK /\ [Next]_vars => TypeOK'
<1>. SUFFICES ASSUME TypeOK, [Next]_vars PROVE TypeOK'
  OBVIOUS
<1>. USE DEF TypeOK
<1>0. ASSUME NEW x \in Items, Effect(x) PROVE snap' \in [Items -> {"none", "kept", "spent"}]
  <2>1. PICK v \in Goal(snap[x]) : snap' = [snap EXCEPT ![x] = v]
    BY <1>0 DEF Effect
  <2>2. v \in {"none", "kept", "spent"}
    BY <2>1 DEF Goal
  <2>. QED
    BY <2>1, <2>2
<1>1. CASE Begin \/ Refuse
  BY <1>1 DEF Begin, Refuse
<1>2. CASE Break
  BY <1>0, <1>2 DEF Break
<1>3. CASE Finish
  BY <1>3 DEF Finish
<1>4. CASE Around
  BY <1>4 DEF Around, Settle
<1>5. ASSUME NEW x \in Items, Act(x) \/ PassOver(x) PROVE TypeOK'
  BY <1>0, <1>5 DEF Act, PassOver, Go
<1>6. CASE UNCHANGED vars
  BY <1>6 DEF vars
<1>. QED
  BY <1>1, <1>2, <1>3, <1>4, <1>5, <1>6 DEF Next

LEMMA EffectDemanded ==
  ASSUME TypeOK, NEW x \in Items, Effect(x), UNCHANGED kind
  PROVE  AsDemanded(x)' /\ \A y \in Items : y # x => snap'[y] = snap[y]
<1>1. PICK v \in Goal(snap[x]) : snap' = [snap EXCEPT ![x] = v]
  BY DEF Effect
<1>2. snap'[x] = v /\ \A y \in Items : y # x => snap'[y] = snap[y]
  BY <1>1 DEF TypeOK
<1>3. /\ kind = "create" => v = "kept"
      /\ kind = "remove" => v = "none"
      /\ kind = "restore" => v # "kept"
  BY <1>1 DEF Goal
<1>. QED
  BY <1>2, <1>3 DEF AsDemanded

LEMMA WholeStep == TypeOK /\ WholeInv /\ [Next]_vars => WholeInv'
<1>. SUFFICES ASSUME TypeOK, WholeInv, [Next]_vars PROVE WholeInv'
  OBVIOUS
<1>1. CASE Begin
  BY <1>1 DEF Begin, WholeInv
<1>2. CASE Refuse \/ Break
  BY <1>2 DEF Refuse, Break, WholeInv
<1>3. CASE Finish
  BY <1>3 DEF Finish, WholeInv, Strict, AsDemanded
<1>4. CASE Around
  <2>1. \A x \in Items : AsDemanded(x) => AsDemanded(x)'
    <3>1. ASSUME NEW y \in Items, Settle(y)
          PROVE  \A x \in Items : AsDemanded(x) => AsDemanded(x)'
      BY <1>4, <3>1 DEF Around, Settle, AsDemanded, TypeOK
    <3>. QED
      BY <1>4, <3>1 DEF Around, AsDemanded
  <2>. QED
    BY <1>4, <2>1 DEF Around, WholeInv, Strict
<1>5. ASSUME NEW x \in Items, Act(x) PROVE WholeInv'
  <2>1. AsDemanded(x)' /\ \A y \in Items : y # x => snap'[y] = snap[y]
    BY <1>5, EffectDemanded DEF Act, Go
  <2>2. \A y \in Items : AsDemanded(y) => AsDemanded(y)'
    BY <1>5, <2>1 DEF Act, Go, AsDemanded
  <2>. QED
    BY <1>5, <2>1, <2>2 DEF Act, Turn, Go, WholeInv, Strict
<1>6. ASSUME NEW x \in Items, PassOver(x) PROVE WholeInv'
  BY <1>6 DEF PassOver, Go, WholeInv, Strict
<1>7. CASE UNCHANGED vars
  BY <1>7 DEF vars, WholeInv, Strict, AsDemanded
<1>. QED
  BY <1>1, <1>2, <1>3, <1>4, <1>5, <1>6, <1>7 DEF Next

\* A plan that is done and was to pass over nothing left every item as it had
\* to, whatever failed before it and whichever driver planned it.
THEOREM DoneIsWhole == Spec => []Whole
<1>1. Init => TypeOK /\ WholeInv
  BY DEF Init, TypeOK, WholeInv
<1>2. TypeOK /\ WholeInv /\ [Next]_vars => TypeOK' /\ WholeInv'
  BY TypeStep, WholeStep
<1>3. WholeInv => Whole
  BY DEF WholeInv, Whole, Strict, AsDemanded
<1>. QED
  BY <1>1, <1>2, <1>3, PTL DEF Spec
=============================================================================
