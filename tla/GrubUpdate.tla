----------------------------- MODULE GrubUpdate -----------------------------
(***************************************************************************)
(* The grub agent of one node: it puts the names of the logical volumes    *)
(* that are activated at boot into the boot files.  Backups of all files   *)
(* come first, then the edits, file by file, and the backups are restored  *)
(* if an edit fails.  The agent may be ended by its timeout or a restart   *)
(* of the node after any command, and leaves what it has done so far; the  *)
(* caller waits longer than the agent may run, so no two agents overlap.   *)
(* The text of a file stands for the volume names in it.                   *)
(***************************************************************************)
EXTENDS Naturals, Sequences

CONSTANTS
    Files,    \* the boot files, in the order the agent comes to them:
    Order,
    Sources,  \* those edited with sed; grub2-mkconfig makes the others
    Texts     \* what a file may read

ASSUME GrubAssumption ==
    /\ Order \in Seq(Files)
    /\ \A f \in Files : \E k \in 1 .. Len(Order) : Order[k] = f
    /\ \A j, k \in 1 .. Len(Order) : Order[j] = Order[k] => j = k
    /\ Sources \subseteq Files
    \* Sources come before the files made from them.
    /\ \A j, k \in 1 .. Len(Order) :
         Order[j] \in Sources /\ Order[k] \notin Sources => j < k

VARIABLES
    present,  \* the boot files this node has
    text,     \* what they read
    saved,    \* files with a backup in /var/tmp
    copy,     \* what the backups read
    was,      \* what the files read when the update was asked for
    goal,     \* the volume names of the request
    gpc,      \* what the agent does, "idle" when none runs
    gk,       \* the file it has come to
    gbad,     \* has a command failed?
    told      \* the answer the caller has, "asked" while it waits

boot == <<present, text, saved, copy>>
agent == <<gpc, gk, gbad>>
grubVars == <<boot, was, goal, agent, told>>

GrubTypeOK == /\ present \subseteq Files
              /\ text \in [Files -> Texts]
              /\ saved \subseteq Files
              /\ copy \in [Files -> Texts]
              /\ was \in [Files -> Texts] /\ goal \in Texts
              /\ gpc \in {"idle", "backup", "edit", "restore", "discard"}
              /\ gk \in 1 .. Len(Order) + 1
              /\ gbad \in {"no", "yes"}
              /\ told \in {"nothing", "asked", "done", "failed", "lost"}

-----------------------------------------------------------------------------
File == Order[gk]
GrubGoto(step) == gpc' = step /\ gk' = 1
NextFile == gk' = gk + 1 /\ UNCHANGED gpc
AtFile(step) == gpc = step /\ gk <= Len(Order)
AtEnd(step) == gpc = step /\ gk = Len(Order) + 1
GrubReply(answer) == /\ told' = answer /\ gpc' = "idle" /\ gk' = 1 /\ gbad' = "no"
                 /\ UNCHANGED <<boot, was, goal>>

\* The update_grub task calls the agent with the names of the volumes.
Ask(names) == /\ told # "asked" /\ gpc = "idle"
              /\ told' = "asked" /\ goal' = names /\ was' = text
              /\ GrubGoto("backup") /\ gbad' = "no"
              /\ UNCHANGED boot

\* cp to a fixed name, over a backup that an earlier agent may have left; an
\* error makes the agent remove the backups and answer it.
Backup(ok) ==
    /\ AtFile("backup")
    /\ IF File \notin present
       THEN NextFile /\ UNCHANGED <<saved, copy, gbad>>
       ELSE /\ saved' = saved \cup {File}
            /\ copy' = [copy EXCEPT ![File] = text[File]]
            /\ IF ok THEN NextFile /\ UNCHANGED gbad
                     ELSE GrubGoto("discard") /\ gbad' = "yes"
    /\ UNCHANGED <<present, text, was, goal, told>>
BackedUp == AtEnd("backup") /\ GrubGoto("edit") /\ UNCHANGED <<boot, was, goal, gbad, told>>

\* What a command leaves in a file: sed the names of the request, and
\* grub2-mkconfig what a file that it reads says.
Written(f, names) == IF f \in Sources THEN names = goal
                     ELSE names \in {text[s] : s \in Sources \cap present}

\* Mutant of Edit: after a failed command the backups are removed, not restored.
EditNoRestore(ok) ==
    /\ AtFile("edit")
    /\ IF File \notin present
       THEN NextFile /\ UNCHANGED <<text, gbad>>
       ELSE /\ \/ \E names \in Texts : /\ Written(File, names)
                                       /\ text' = [text EXCEPT ![File] = names]
               \/ ~ok /\ UNCHANGED text
            /\ IF ok THEN NextFile /\ UNCHANGED gbad
                     ELSE GrubGoto("discard") /\ gbad' = "yes"
    /\ UNCHANGED <<present, saved, copy, was, goal, told>>

\* sed or grub2-mkconfig; one that fails may have written its file.
Edit(ok) ==
    /\ AtFile("edit")
    /\ IF File \notin present
       THEN NextFile /\ UNCHANGED <<text, gbad>>
       ELSE /\ \/ \E names \in Texts : /\ Written(File, names)
                                       /\ text' = [text EXCEPT ![File] = names]
               \/ ~ok /\ UNCHANGED text
            /\ IF ok THEN NextFile /\ UNCHANGED gbad
                     ELSE GrubGoto("restore") /\ gbad' = "yes"
    /\ UNCHANGED <<present, saved, copy, was, goal, told>>
Edited == AtEnd("edit") /\ GrubGoto("discard") /\ UNCHANGED <<boot, was, goal, gbad, told>>

\* mv of a backup, wherever one exists.
Restore ==
    /\ AtFile("restore")
    /\ text' = IF File \in saved THEN [text EXCEPT ![File] = copy[File]] ELSE text
    /\ saved' = saved \ {File}
    /\ NextFile
    /\ UNCHANGED <<present, copy, was, goal, gbad, told>>
Restored == AtEnd("restore") /\ GrubReply("failed")

\* rm of a backup.
Discard ==
    /\ AtFile("discard")
    /\ saved' = saved \ {File}
    /\ NextFile
    /\ UNCHANGED <<present, text, copy, was, goal, gbad, told>>
Discarded == AtEnd("discard") /\ GrubReply(IF gbad = "yes" THEN "failed" ELSE "done")

\* The agent's timeout or a restart of the node ends it.
GrubStops == gpc # "idle" /\ GrubReply("lost")

GrubStep(ok) == \/ Backup(ok) \/ BackedUp \/ Edit(ok) \/ Edited
                \/ Restore \/ Restored \/ Discard \/ Discarded

GrubInit == /\ present \in SUBSET Files /\ Sources \cap present # {}
            /\ text \in [Files -> Texts] /\ saved = {} /\ copy = text
            /\ was = text /\ goal \in Texts
            /\ gpc = "idle" /\ gk = 1 /\ gbad = "no" /\ told = "nothing"

GrubNext == \/ \E names \in Texts : Ask(names)
            \/ \E ok \in BOOLEAN : GrubStep(ok)
            \/ GrubStops

GrubSpec == GrubInit /\ [][GrubNext]_grubVars

-----------------------------------------------------------------------------
\* An update that is answered has happened to all boot files or to none,
\* although the agent edits them one by one, fails half way, and may find the
\* half edited files and the backups of an agent that was ended before it.
Atomic == INSTANCE AtomicUpdate WITH Items <- Files, files <- text
UpdatesBootAtomically == Atomic!Spec
=============================================================================
