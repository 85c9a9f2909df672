CONSTANTS
    d1 = d1
    d2 = d2
    no = no
    vg = vg
    old = old
    root = root
    data = data
    o = o
    s = s
    Disks <- MCDisks
    Groups <- MCGroups
    Volumes <- MCVolumes
    GroupOf <- MCGroupOf
    Origin <- MCOrigin
    Names <- MCNames
    Likenesses <- MCLikenesses
    Hyphenated <- MCHyphenated
    NoDisk = no
    Vg = vg
    Fs <- MCFs
    Mountable <- MCMountable
    Files <- MCFiles
    Order <- MCOrder
    Sources <- MCSources
    Texts <- MCTexts
SPECIFICATION FairSpec
INVARIANTS TypeOK AppliedStands 
PROPERTIES MountedKept UpdatesBootAtomically EventuallyDeployed
CHECK_DEADLOCK FALSE
