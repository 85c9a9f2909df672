--------------------------- MODULE SnapLifecycle ---------------------------
(***************************************************************************)
(* What a plan may rely on when it creates and removes the space-optimised *)
(* VxVM snapshot of a file system, whatever the agent does command by      *)
(* command: the records of a snapshot come and go one stage at a time, a   *)
(* plan is told "created" only by the step that completes the snapshot,    *)
(* and never told "removed" while the snapshot is complete.                *)
(***************************************************************************)
CONSTANT Snaps

VARIABLES
    phase,  \* phase[s]: no record of s, some of its records, or all of them
    told    \* told[s]: the outcome of the last task for s, as the plan knows it

vars == <<phase, told>>

Phases == {"none", "partial", "full"}
Tolds == {"nothing", "asked", "created", "removed", "skipped", "unseen", "failed"}

\* A record appears or disappears: never from nothing to all or back.
Adjacent == {<<"none", "partial">>, <<"partial", "none">>,
             <<"partial", "full">>, <<"full", "partial">>}

TypeOK == /\ phase \in [Snaps -> Phases]
          /\ told \in [Snaps -> Tolds]

Init == /\ phase \in [Snaps -> {"none", "full"}]
        /\ told = [s \in Snaps |-> "nothing"]

\* An agent changes the records while the plan waits, or after it gave up.
Progress(s) == /\ \E p \in Phases : /\ <<phase[s], p>> \in Adjacent
                                    /\ phase' = [phase EXCEPT ![s] = p]
               /\ told' = told

\* A task for s starts.
Ask(s) == told' = [told EXCEPT ![s] = "asked"] /\ phase' = phase

\* The task for s ends with an answer that changes no record.
Settle(s, answer) == /\ told[s] = "asked"
                     /\ told' = [told EXCEPT ![s] = answer]
                     /\ phase' = phase

\* The step that completes the snapshot is the one that answers "created".
Created(s) == /\ told[s] = "asked" /\ phase[s] = "partial"
              /\ phase' = [phase EXCEPT ![s] = "full"]
              /\ told' = [told EXCEPT ![s] = "created"]

\* The step that answers "removed" leaves no complete snapshot.
Removed(s) == /\ told[s] = "asked"
              /\ phase[s] # "full"
              /\ phase' \in {phase, [phase EXCEPT ![s] = "none"]}
              /\ told' = [told EXCEPT ![s] = "removed"]

Next == \E s \in Snaps : \/ Progress(s)
                         \/ Ask(s)
                         \/ Settle(s, "failed")
                         \/ Settle(s, "skipped")
                         \/ Settle(s, "unseen")
                         \/ Created(s)
                         \/ Removed(s)

Spec == Init /\ [][Next]_vars
=============================================================================
