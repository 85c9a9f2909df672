------------------------------ MODULE Killpart ------------------------------
(***************************************************************************)
(* The LVM objects on the disks of one node, and the clear action of the   *)
(* killpart agent, which purges a new disk: it looks for the volume group  *)
(* on the disk, gives it a name of its own if it shares one, removes its   *)
(* volumes one by one unless one is mounted, then the group, and wipes the *)
(* beginning of the disk.  The agent may be ended after any command.       *)
(***************************************************************************)
EXTENDS Naturals

CONSTANTS
    Disks,        \* disks that kickstart did not partition
    Groups,       \* volume groups, by their UUID
    Volumes,      \* logical volumes
    GroupOf,      \* the group of a volume
    Origin,       \* <<s, v>>: s is an LVM snapshot of v
    Names,        \* names a volume group may have
    Likenesses,   \* the sets of <<d, e>> that matches may be
    Hyphenated,   \* volumes with a hyphen in their name, which the mount table
                  \* shows doubled
    NoDisk        \* not in Disks

ASSUME KillAssumption ==
    /\ GroupOf \in [Volumes -> Groups]
    /\ Origin \subseteq Volumes \X Volumes
    /\ Likenesses \subseteq SUBSET (Disks \X Disks)
    /\ Hyphenated \subseteq Volumes
    /\ NoDisk \notin Disks
    /\ {"blank", "orphan"} \cap Groups = {}
    \* A volume and its snapshots are in one group.
    /\ \A x \in Origin : GroupOf[x[1]] = GroupOf[x[2]]

VARIABLES
    pv,      \* the group a disk's physical volume is in; "orphan" for one in
             \* none, and "blank" for a disk without a physical volume
    name,    \* the name of each volume group
    lvs,     \* the volumes that exist
    mounted, \* those that are mounted
    matches, \* <<d, e>>: the fact of disk e matches the device name of d
    kdisk,   \* the disk of the call that is waited for, or NoDisk
    kgroup,  \* the volume group it has found
    seen,    \* was that what is on its disk ("own"), or has another disk been
             \* taken for it, or pvs or facter not told ("amiss")?  The agent
             \* does not know.
    kpc,     \* what it does next
    kdir,    \* volumes it has listed and not come to
    kout     \* its answer

lvm == <<pv, name, lvs, mounted, matches>>
killer == <<kdisk, kgroup, seen, kpc, kdir, kout>>

KillTypeOK == /\ pv \in [Disks -> Groups \cup {"blank", "orphan"}]
              /\ name \in [Groups -> Names]
              /\ lvs \subseteq Volumes /\ mounted \subseteq lvs
              /\ matches \in Likenesses
              /\ kdisk \in Disks \cup {NoDisk}
              /\ kgroup \in Groups /\ seen \in {"own", "amiss"}
              /\ kpc \in {"idle", "look", "name", "list", "kill", "wipe"}
              /\ kdir \subseteq Volumes
              /\ kout \in {"none", "done", "error"}

-----------------------------------------------------------------------------
Found == {g \in Groups : \E d \in Disks : pv[d] = g}
VolumesOf(g) == {v \in Volumes : GroupOf[v] = g}
WithSnapshots(v) == {v} \cup {s \in Volumes : <<s, v>> \in Origin}

KillGoto(step) == kpc' = step /\ UNCHANGED <<kdisk, kgroup, seen, kdir, kout>>
KillReply(answer) == /\ kpc' = "idle" /\ kout' = answer /\ kdir' = {} /\ seen' = "own"
                     /\ UNCHANGED <<kdisk, kgroup>>

\* The purge task calls the agent for a disk.
Clear(d) == /\ kdisk = NoDisk
            /\ kpc' = "look" /\ kdisk' = d
            /\ UNCHANGED <<lvm, kgroup, seen, kdir, kout>>

\* The caller has the answer, or has given up.
Heard == /\ kout # "none" /\ kout' = "none" /\ kdisk' = NoDisk
         /\ UNCHANGED <<lvm, kgroup, seen, kpc, kdir>>

\* The first physical volume whose device name matches the disk's facts tells
\* the group.  Neither an orphan nor a failed pvs stops the agent: it goes on
\* to wipe the disk.  Only a disk that has no device name is an error.
Look(ok) ==
    /\ kpc = "look"
    /\ \/ \E d \in Disks :
            /\ <<d, kdisk>> \in matches /\ seen' = IF d = kdisk THEN "own" ELSE "amiss"
            /\ \/ pv[d] \in Groups /\ kgroup' = pv[d] /\ kpc' = "name"
               \/ pv[d] = "orphan" /\ kgroup' = kgroup /\ kpc' = "wipe"
            /\ UNCHANGED <<kdisk, kdir, kout>>
       \/ /\ \/ ~ok /\ seen' = "amiss"
             \/ /\ \A d \in Disks : <<d, kdisk>> \in matches => pv[d] = "blank"
                /\ seen' = IF pv[kdisk] = "blank" THEN "own" ELSE "amiss"
          /\ kpc' = "wipe" /\ UNCHANGED <<kdisk, kgroup, kdir, kout>>
       \/ ~ok /\ KillReply("error")
    /\ UNCHANGED lvm

\* Mutant of Clashes: another group never counts, and none is renamed.
ClashesNever(g) == FALSE

\* vg_names_clash: another group on another disk has the name.
Clashes(g) == \E h \in Found \ {g} : name[h] = name[g]

\* vgrename, by UUID, to a random name that no group has.
Rename(ok) ==
    /\ kpc = "name"
    /\ IF Clashes(kgroup)
       THEN \/ /\ \E n \in Names : /\ \A h \in Groups : name[h] # n
                                   /\ name' = [name EXCEPT ![kgroup] = n]
               /\ KillGoto("list") /\ UNCHANGED <<pv, lvs, mounted, matches>>
            \/ ~ok /\ KillReply("error") /\ UNCHANGED lvm
       ELSE KillGoto("list") /\ UNCHANGED lvm

\* The entries of /dev/<group>/, by name.
List == /\ kpc = "list" /\ kpc' = "kill"
        /\ kdir' = {v \in lvs : name[GroupOf[v]] = name[kgroup]}
        /\ UNCHANGED <<lvm, kdisk, kgroup, seen, kout>>

\* Mutant of NextVolume: volumes are removed without a look at the mount table.
NextVolumeBlindly(v, ok) ==
    /\ kpc = "kill" /\ v \in kdir
    /\ \/ v \notin lvs /\ KillReply("error") /\ UNCHANGED lvm
       \/ /\ v \in lvs
          /\ lvs' = lvs \ WithSnapshots(v)
          /\ mounted' = mounted \ WithSnapshots(v)
          /\ kdir' = kdir \ {v}
          /\ UNCHANGED <<pv, name, matches, kdisk, kgroup, seen, kpc, kout>>

\* A volume that the mount table shows by its plain name ends the purge as a
\* success without further effect (the group is taken to be in use).  lvremove
\* takes the snapshots of a volume along and refuses one that is mounted, and
\* one that is gone when its turn comes is an error; where lvremove fails,
\* dmsetup remove may leave the volume and report success.
NextVolume(v, ok) ==
    /\ kpc = "kill" /\ v \in kdir
    /\ \/ v \in mounted \ Hyphenated /\ KillReply("done") /\ UNCHANGED lvm
       \/ v \in mounted \ Hyphenated /\ ~ok /\ KillReply("error") /\ UNCHANGED lvm
       \/ v \notin lvs /\ KillReply("error") /\ UNCHANGED lvm
       \/ /\ v \in lvs \ (mounted \ Hyphenated)
          /\ \/ /\ lvs' = lvs \ WithSnapshots(v) /\ WithSnapshots(v) \cap mounted = {}
                /\ kdir' = kdir \ {v}
                /\ UNCHANGED <<pv, name, mounted, matches, kdisk, kgroup, seen, kpc, kout>>
             \/ /\ ~ok /\ v \notin mounted /\ kdir' = kdir \ {v}
                /\ UNCHANGED <<lvm, kdisk, kgroup, seen, kpc, kout>>
             \/ /\ ~ok \/ WithSnapshots(v) \cap mounted # {}
                /\ KillReply("error") /\ UNCHANGED lvm

\* vgremove -f takes what volumes are left; it is refused while one is mounted.
RemoveGroup(ok) ==
    /\ kpc = "kill" /\ kdir = {}
    /\ \/ /\ VolumesOf(kgroup) \cap mounted = {}
          /\ pv' = [d \in Disks |-> IF pv[d] = kgroup THEN "orphan" ELSE pv[d]]
          /\ lvs' = lvs \ VolumesOf(kgroup)
          /\ KillGoto("wipe") /\ UNCHANGED <<name, mounted, matches>>
       \/ /\ ~ok \/ VolumesOf(kgroup) \cap mounted # {}
          /\ KillReply("error") /\ UNCHANGED lvm

\* dd and sfdisk, whose codes are not read.
Wipe(ok) == /\ kpc = "wipe"
            /\ \/ pv' = [pv EXCEPT ![kdisk] = "blank"]
               \/ ~ok /\ UNCHANGED pv
            /\ KillReply("done")
            /\ UNCHANGED <<name, lvs, mounted, matches>>

\* The agent's timeout or a restart of the node.
KillStops == kpc # "idle" /\ KillReply("error") /\ UNCHANGED lvm

KillStep(ok) == \/ Look(ok) \/ Rename(ok) \/ List \/ RemoveGroup(ok) \/ Wipe(ok)
                \/ \E v \in Volumes : NextVolume(v, ok)
=============================================================================
