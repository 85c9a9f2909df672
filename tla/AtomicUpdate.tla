---------------------------- MODULE AtomicUpdate ----------------------------
(***************************************************************************)
(* What the caller of an update of several files may rely on: an update    *)
(* that is answered as done left its goal in every file, and one that is   *)
(* answered as failed left every file as it was when the update was asked  *)
(* for.  An update that is never answered may have left anything.          *)
(***************************************************************************)
CONSTANTS Items, Texts

VARIABLES
    present, \* the files that exist
    files,   \* what each file reads
    was,     \* what each file read when the last update was asked for
    goal,    \* what the last update is to leave in every file
    told     \* the answer to it

vars == <<present, files, was, goal, told>>

Init == /\ present \subseteq Items
        /\ files \in [Items -> Texts] /\ was = files
        /\ goal \in Texts /\ told = "nothing"

\* An update is asked for, when no other one is waited for.
Ask == /\ told # "asked" /\ told' = "asked"
       /\ was' = files /\ goal' \in Texts /\ UNCHANGED <<present, files>>

\* Files change while the update runs.
Work == /\ told = "asked"
        /\ files' \in [Items -> Texts]
        /\ UNCHANGED <<present, was, goal, told>>

Done == /\ told = "asked" /\ told' = "done"
        /\ \A f \in present : files[f] = goal
        /\ UNCHANGED <<present, files, was, goal>>
Failed == /\ told = "asked" /\ told' = "failed"
          /\ files = was
          /\ UNCHANGED <<present, files, was, goal>>
Lost == /\ told = "asked" /\ told' = "lost"
        /\ UNCHANGED <<present, files, was, goal>>

Next == Ask \/ Work \/ Done \/ Failed \/ Lost
Spec == Init /\ [][Next]_vars
=============================================================================
