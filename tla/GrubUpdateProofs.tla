-------------------------- MODULE GrubUpdateProofs --------------------------
(***************************************************************************)
(* Proof that the grub agent implements the atomic update of boot files,   *)
(* for any boot files, whichever of them a node has, and whatever earlier  *)
(* agents left behind.                                                     *)
(***************************************************************************)
EXTENDS GrubUpdate, TLAPS

\* An agent runs while its caller waits, and backs up files that exist.
Waiting == (told = "asked" <=> gpc # "idle") /\ saved \subseteq present

\* While backups are made nothing is edited.
BackingUp == gpc = "backup" =>
    /\ gbad = "no" /\ text = was
    /\ \A k \in 1 .. Len(Order) : k < gk /\ Order[k] \in present =>
         Order[k] \in saved /\ copy[Order[k]] = was[Order[k]]

\* Edits begin with a backup of this update for every file.
Editing == gpc = "edit" =>
    /\ gbad = "no"
    /\ \A f \in present : f \in saved /\ copy[f] = was[f]
    /\ \A f \in Files \ present : text[f] = was[f]
    /\ \A k \in 1 .. Len(Order) : k < gk /\ Order[k] \in present => text[Order[k]] = goal

\* What is not restored yet has its backup.
Restoring == gpc = "restore" =>
    /\ \A f \in saved : copy[f] = was[f]
    /\ \A f \in Files \ saved : text[f] = was[f]
    /\ \A k \in 1 .. Len(Order) : k < gk => Order[k] \notin saved

\* Backups are thrown away when the files are as the answer says.
Discarding == gpc = "discard" => IF gbad = "yes" THEN text = was
                                 ELSE \A f \in present : text[f] = goal

GrubInv == GrubTypeOK /\ Waiting /\ BackingUp /\ Editing /\ Restoring /\ Discarding

LEMMA LenIsNat == Len(Order) \in Nat
  BY GrubAssumption

LEMMA FileInFiles == GrubTypeOK /\ gk <= Len(Order) => File \in Files /\ gk \in 1 .. Len(Order)
  BY GrubAssumption, LenIsNat DEF GrubTypeOK, File

LEMMA GrubInitInv == GrubInit => GrubInv
  BY GrubAssumption, LenIsNat
  DEF GrubInit, GrubInv, GrubTypeOK, Waiting, BackingUp, Editing, Restoring, Discarding

\* Steps keep the types.
LEMMA GrubTyped == GrubTypeOK /\ [GrubNext]_grubVars => GrubTypeOK'
  <1> SUFFICES ASSUME GrubTypeOK, [GrubNext]_grubVars PROVE GrubTypeOK'
    OBVIOUS
  <1> USE LenIsNat DEF GrubTypeOK, GrubGoto, NextFile, AtFile, AtEnd, boot
  <1>1. CASE UNCHANGED grubVars
    BY <1>1 DEF grubVars, agent
  <1>2. ASSUME NEW names \in Texts, Ask(names) PROVE GrubTypeOK'
    BY <1>2 DEF Ask
  <1>3. ASSUME NEW ok \in BOOLEAN, Backup(ok) PROVE GrubTypeOK'
    <2>1. File \in Files /\ gk \in 1 .. Len(Order)
      BY <1>3, FileInFiles DEF Backup
    <2> QED
      BY <1>3, <2>1 DEF Backup
  <1>4. CASE BackedUp \/ Edited
    BY <1>4 DEF BackedUp, Edited
  <1>5. ASSUME NEW ok \in BOOLEAN, Edit(ok) PROVE GrubTypeOK'
    <2>1. File \in Files /\ gk \in 1 .. Len(Order)
      BY <1>5, FileInFiles DEF Edit
    <2>3. text' \in [Files -> Texts]
      BY <1>5, <2>1 DEF Edit
    <2> QED
      BY <1>5, <2>1, <2>3 DEF Edit
  <1>6. CASE Restore \/ Discard
    <2>1. File \in Files /\ gk \in 1 .. Len(Order)
      BY <1>6, FileInFiles DEF Restore, Discard
    <2> QED
      BY <1>6, <2>1 DEF Restore, Discard
  <1>7. CASE Restored \/ Discarded \/ GrubStops
    BY <1>7 DEF Restored, Discarded, GrubStops, GrubReply
  <1> QED
    BY <1>1, <1>2, <1>3, <1>4, <1>5, <1>6, <1>7 DEF GrubNext, GrubStep

-----------------------------------------------------------------------------
\* The invariant, step by step.

LEMMA AskInv == ASSUME GrubInv, GrubTypeOK', NEW names \in Texts, Ask(names) PROVE GrubInv'
  BY LenIsNat DEF GrubInv, GrubTypeOK, Ask, GrubGoto, boot, Waiting, BackingUp, Editing,
                  Restoring, Discarding

LEMMA BackupInv == ASSUME GrubInv, GrubTypeOK', NEW ok \in BOOLEAN, Backup(ok) PROVE GrubInv'
  <1>1. /\ File \in Files /\ gk \in 1 .. Len(Order) /\ File = Order[gk]
        /\ \A k \in 1 .. Len(Order) : Order[k] = File => k = gk
    BY FileInFiles, GrubAssumption DEF Backup, AtFile, GrubInv, File
  <1>2. /\ gpc = "backup" /\ told = "asked" /\ text = was /\ gbad = "no"
        /\ saved \subseteq present
    BY DEF Backup, AtFile, GrubInv, Waiting, BackingUp
  <1>3. CASE File \notin present
    BY <1>1, <1>2, <1>3, LenIsNat DEF Backup, NextFile, AtFile, GrubInv, Waiting, BackingUp,
       Editing, Restoring, Discarding, GrubTypeOK
  <1>4. CASE File \in present /\ ~ok
    BY <1>1, <1>2, <1>4 DEF Backup, GrubGoto, GrubInv, Waiting, BackingUp,
       Editing, Restoring, Discarding
  <1>5. CASE File \in present /\ ok
    <2>1. /\ saved' = saved \cup {File} /\ copy' = [copy EXCEPT ![File] = was[File]]
          /\ gk' = gk + 1 /\ gpc' = "backup" /\ gbad' = "no"
          /\ UNCHANGED <<present, text, was, goal, told>>
      BY <1>2, <1>5 DEF Backup, NextFile
    <2>2. Waiting'
      BY <1>2, <1>5, <2>1 DEF Waiting
    <2>3. ASSUME NEW k \in 1 .. Len(Order), k < gk', Order[k] \in present
          PROVE  Order[k] \in saved' /\ copy'[Order[k]] = was'[Order[k]]
      <3>1. CASE k = gk
        BY <1>1, <2>1, <3>1 DEF GrubInv, GrubTypeOK
      <3>2. CASE k < gk
        BY <1>1, <1>2, <2>1, <2>3, <3>2 DEF GrubInv, GrubTypeOK, BackingUp
      <3> QED
        BY <1>1, <2>1, <2>3, <3>1, <3>2, LenIsNat
    <2>4. BackingUp'
      BY <1>2, <2>1, <2>3 DEF BackingUp
    <2> QED
      BY <2>1, <2>2, <2>4 DEF GrubInv, Editing, Restoring, Discarding
  <1> QED
    BY <1>3, <1>4, <1>5

LEMMA BackedUpInv == ASSUME GrubInv, GrubTypeOK', BackedUp PROVE GrubInv'
  <1>1. gpc = "backup" /\ gk = Len(Order) + 1 /\ gpc' = "edit" /\ gk' = 1
    BY DEF BackedUp, AtEnd, GrubGoto
  <1>2. \A f \in present : f \in saved /\ copy[f] = was[f]
    <2> SUFFICES ASSUME NEW f \in present PROVE f \in saved /\ copy[f] = was[f]
      OBVIOUS
    <2>1. PICK k \in 1 .. Len(Order) : Order[k] = f
      BY GrubAssumption DEF GrubInv, GrubTypeOK
    <2> QED
      BY <1>1, <2>1, LenIsNat DEF GrubInv, BackingUp
  <1> QED
    BY <1>1, <1>2, LenIsNat DEF BackedUp, boot, GrubInv, Waiting, BackingUp, Editing,
       Restoring, Discarding

\* sed writes the names of the request, and by then grub2-mkconfig, which
\* comes after all files that it reads, writes them too.
LEMMA WritesGoal ==
    ASSUME GrubInv, AtFile("edit"), NEW names \in Texts, Written(File, names)
    PROVE  names = goal
  <1>1. File \in Files /\ gk \in 1 .. Len(Order) /\ File = Order[gk] /\ gpc = "edit"
    BY FileInFiles DEF AtFile, GrubInv, File
  <1>2. CASE File \in Sources
    BY <1>2 DEF Written
  <1>3. CASE File \notin Sources
    <2>1. PICK s \in Sources \cap present : names = text[s]
      BY <1>3 DEF Written
    <2>2. PICK j \in 1 .. Len(Order) : Order[j] = s
      BY <2>1, GrubAssumption
    <2>3. j < gk
      BY <1>1, <1>3, <2>1, <2>2, GrubAssumption
    <2> QED
      BY <1>1, <2>1, <2>2, <2>3 DEF GrubInv, Editing
  <1> QED
    BY <1>2, <1>3

LEMMA EditInv == ASSUME GrubInv, GrubTypeOK', NEW ok \in BOOLEAN, Edit(ok) PROVE GrubInv'
  <1>1. /\ File \in Files /\ gk \in 1 .. Len(Order) /\ File = Order[gk]
        /\ \A k \in 1 .. Len(Order) : Order[k] = File => k = gk
    BY FileInFiles, GrubAssumption DEF Edit, AtFile, GrubInv, File
  <1>2. gpc = "edit" /\ told = "asked" /\ gbad = "no"
    BY DEF Edit, AtFile, GrubInv, Waiting, Editing
  <1>3. CASE File \notin present
    BY <1>1, <1>2, <1>3, LenIsNat DEF Edit, NextFile, AtFile, GrubInv, Waiting, BackingUp,
       Editing, Restoring, Discarding, GrubTypeOK
  <1>4. CASE File \in present /\ ~ok
    <2>1. \A f \in Files \ {File} : text'[f] = text[f]
      BY <1>4 DEF Edit, GrubInv, GrubTypeOK
    <2>2. gpc' = "restore" /\ gk' = 1 /\ gbad' = "yes"
      BY <1>4 DEF Edit, GrubGoto
    <2>3. UNCHANGED <<present, saved, copy, was, goal, told>>
      BY DEF Edit
    <2>4. Restoring'
      BY <1>2, <1>4, <2>1, <2>2, <2>3, LenIsNat DEF GrubInv, Editing, Restoring, Waiting, GrubTypeOK
    <2> QED
      BY <1>2, <2>2, <2>3, <2>4 DEF GrubInv, Waiting, BackingUp, Editing, Discarding
  <1>5. CASE File \in present /\ ok
    <2>1. PICK names \in Texts : Written(File, names) /\ text' = [text EXCEPT ![File] = names]
      BY <1>5 DEF Edit
    <2>2. text' = [text EXCEPT ![File] = goal]
      BY <2>1, WritesGoal DEF Edit
    <2>3. /\ gk' = gk + 1 /\ gpc' = "edit" /\ gbad' = "no"
          /\ UNCHANGED <<present, saved, copy, was, goal, told>>
      BY <1>2, <1>5 DEF Edit, NextFile
    <2>4. ASSUME NEW k \in 1 .. Len(Order), k < gk', Order[k] \in present
          PROVE  text'[Order[k]] = goal'
      <3>0. text \in [Files -> Texts]
        BY DEF GrubInv, GrubTypeOK
      <3>1. CASE k = gk
        BY <1>1, <2>2, <2>3, <3>0, <3>1
      <3>2. CASE k < gk
        <4>1. text[Order[k]] = goal
          BY <1>2, <2>4, <3>2 DEF GrubInv, Editing
        <4> QED
          BY <1>1, <2>2, <2>3, <2>4, <3>0, <3>2, <4>1 DEF GrubInv, GrubTypeOK
      <3> QED
        BY <1>1, <2>3, <2>4, <3>1, <3>2, LenIsNat
    <2>5. Editing'
      BY <1>1, <1>2, <1>5, <2>2, <2>3, <2>4 DEF GrubInv, Editing, GrubTypeOK
    <2> QED
      BY <1>2, <2>3, <2>5 DEF GrubInv, Waiting, BackingUp, Restoring, Discarding
  <1> QED
    BY <1>3, <1>4, <1>5

LEMMA EditedInv == ASSUME GrubInv, GrubTypeOK', Edited PROVE GrubInv'
  <1>1. gpc = "edit" /\ gk = Len(Order) + 1 /\ gpc' = "discard" /\ gk' = 1 /\ gbad = "no"
    BY DEF Edited, AtEnd, GrubGoto, GrubInv, Editing
  <1>2. \A f \in present : text[f] = goal
    <2> SUFFICES ASSUME NEW f \in present PROVE text[f] = goal
      OBVIOUS
    <2>1. PICK k \in 1 .. Len(Order) : Order[k] = f
      BY GrubAssumption DEF GrubInv, GrubTypeOK
    <2> QED
      BY <1>1, <2>1, LenIsNat DEF GrubInv, Editing
  <1> QED
    BY <1>1, <1>2 DEF Edited, boot, GrubInv, Waiting, BackingUp, Editing, Restoring, Discarding

LEMMA RestoreInv == ASSUME GrubInv, GrubTypeOK', Restore PROVE GrubInv'
  <1>1. /\ File \in Files /\ gk \in 1 .. Len(Order) /\ File = Order[gk]
        /\ gpc = "restore" /\ told = "asked"
    BY FileInFiles DEF Restore, AtFile, GrubInv, File, Waiting
  <1>2. /\ gk' = gk + 1 /\ gpc' = "restore" /\ saved' = saved \ {File}
        /\ UNCHANGED <<present, copy, was, goal, gbad, told>>
    BY <1>1 DEF Restore, NextFile
  <1>3. text' = IF File \in saved THEN [text EXCEPT ![File] = copy[File]] ELSE text
    BY DEF Restore
  <1>4. /\ text \in [Files -> Texts] /\ saved \subseteq Files /\ saved \subseteq present
        /\ \A f \in saved : copy[f] = was[f]
        /\ \A f \in Files \ saved : text[f] = was[f]
        /\ \A k \in 1 .. Len(Order) : k < gk => Order[k] \notin saved
    BY <1>1 DEF GrubInv, GrubTypeOK, Restoring, Waiting
  <1>5. \A f \in Files \ saved' : text'[f] = was'[f]
    BY <1>1, <1>2, <1>3, <1>4
  <1>6. \A k \in 1 .. Len(Order) : k < gk' => Order[k] \notin saved'
    <2> SUFFICES ASSUME NEW k \in 1 .. Len(Order), k < gk' PROVE Order[k] \notin saved'
      OBVIOUS
    <2>1. k = gk \/ k < gk
      BY <1>1, <1>2, LenIsNat
    <2> QED
      BY <1>1, <1>2, <1>4, <2>1
  <1>7. Restoring' /\ Waiting'
    BY <1>1, <1>2, <1>4, <1>5, <1>6 DEF Restoring, Waiting
  <1> QED
    BY <1>2, <1>7 DEF GrubInv, BackingUp, Editing, Discarding

LEMMA DiscardInv == ASSUME GrubInv, GrubTypeOK', Discard PROVE GrubInv'
  BY DEF Discard, AtFile, NextFile, GrubInv, Waiting, BackingUp, Editing, Restoring, Discarding

\* An answer leaves an agent that is idle.
LEMMA ReplyInv ==
    ASSUME GrubInv, GrubTypeOK', NEW answer \in {"done", "failed", "lost"}, GrubReply(answer)
    PROVE  GrubInv'
  BY DEF GrubReply, boot, GrubInv, Waiting, BackingUp, Editing, Restoring, Discarding

LEMMA GrubNextInv == GrubInv /\ [GrubNext]_grubVars => GrubInv'
  <1> SUFFICES ASSUME GrubInv, [GrubNext]_grubVars PROVE GrubInv'
    OBVIOUS
  <1>0. GrubTypeOK'
    BY GrubTyped DEF GrubInv
  <1>1. CASE UNCHANGED grubVars
    BY <1>1 DEF grubVars, boot, agent, GrubInv, GrubTypeOK, Waiting, BackingUp, Editing,
       Restoring, Discarding
  <1>2. CASE Restored \/ Discarded \/ GrubStops
    BY <1>0, <1>2, ReplyInv DEF Restored, Discarded, GrubStops
  <1> QED
    BY <1>0, <1>1, <1>2, AskInv, BackupInv, BackedUpInv, EditInv, EditedInv, RestoreInv,
       DiscardInv DEF GrubNext, GrubStep

LEMMA GrubInvariant == GrubSpec => []GrubInv
  BY GrubInitInv, GrubNextInv, PTL DEF GrubSpec

-----------------------------------------------------------------------------
\* The refinement: every command is work on the files or shows nothing, and
\* every answer is one that the abstract update may give.

USE DEF Atomic!vars, Atomic!Next, Atomic!Ask, Atomic!Work, Atomic!Done, Atomic!Failed,
        Atomic!Lost

LEMMA AtomicStep == GrubInv /\ GrubInv' /\ [GrubNext]_grubVars => [Atomic!Next]_Atomic!vars
  <1> SUFFICES ASSUME GrubInv, GrubInv', [GrubNext]_grubVars
               PROVE  [Atomic!Next]_Atomic!vars
    OBVIOUS
  <1>1. CASE UNCHANGED grubVars \/ BackedUp \/ Edited \/ Discard
    BY <1>1 DEF grubVars, boot, BackedUp, Edited, Discard
  <1>2. ASSUME NEW names \in Texts, Ask(names) PROVE Atomic!Ask
    BY <1>2 DEF Ask, boot
  <1>3. ASSUME NEW ok \in BOOLEAN, Backup(ok) PROVE UNCHANGED Atomic!vars
    BY <1>3 DEF Backup
  <1>4. ASSUME NEW ok \in BOOLEAN, Edit(ok) PROVE Atomic!Work
    <2>1. told = "asked"
      BY <1>4 DEF Edit, AtFile, GrubInv, Waiting
    <2>2. text' \in [Files -> Texts]
      BY DEF GrubInv, GrubTypeOK
    <2> QED
      BY <1>4, <2>1, <2>2 DEF Edit
  <1>5. CASE Restore
    <2>1. told = "asked"
      BY <1>5 DEF Restore, AtFile, GrubInv, Waiting
    <2>2. text' \in [Files -> Texts]
      BY DEF GrubInv, GrubTypeOK
    <2> QED
      BY <1>5, <2>1, <2>2 DEF Restore
  <1>6. CASE Restored
    <2>1. /\ told = "asked" /\ gpc = "restore" /\ gk = Len(Order) + 1
          /\ saved \subseteq Files /\ text \in [Files -> Texts] /\ was \in [Files -> Texts]
      BY <1>6 DEF Restored, AtEnd, GrubInv, Waiting, GrubTypeOK
    <2>2. \A f \in Files : f \notin saved
      <3> SUFFICES ASSUME NEW f \in Files PROVE f \notin saved
        OBVIOUS
      <3>1. PICK k \in 1 .. Len(Order) : Order[k] = f
        BY GrubAssumption
      <3> QED
        BY <2>1, <3>1, LenIsNat DEF GrubInv, Restoring
    <2>3. \A f \in Files : text[f] = was[f]
      BY <2>1, <2>2 DEF GrubInv, Restoring
    <2>4. text = was
      BY <2>1, <2>3
    <2> QED
      BY <1>6, <2>1, <2>4 DEF Restored, GrubReply, boot
  <1>7. CASE Discarded
    <2>1. told = "asked" /\ gpc = "discard" /\ gbad \in {"no", "yes"}
      BY <1>7 DEF Discarded, AtEnd, GrubInv, Waiting, GrubTypeOK
    <2> QED
      BY <1>7, <2>1 DEF Discarded, GrubReply, boot, GrubInv, Discarding
  <1>8. CASE GrubStops
    BY <1>8 DEF GrubStops, GrubReply, boot, GrubInv, Waiting
  <1> QED
    BY <1>1, <1>2, <1>3, <1>4, <1>5, <1>6, <1>7, <1>8 DEF GrubNext, GrubStep

\* An update of the boot files of a node that is answered has happened to all
\* of them or to none, whichever commands fail and wherever earlier agents
\* were ended: the grub agent implements AtomicUpdate.
THEOREM GrubIsAtomic == GrubSpec => UpdatesBootAtomically
  <1>1. GrubInit => Atomic!Init
    BY DEF GrubInit, Atomic!Init
  <1> QED
    BY <1>1, AtomicStep, GrubInvariant, PTL DEF GrubSpec, UpdatesBootAtomically, Atomic!Spec
=============================================================================
