---------------------------- MODULE MCNodeDeploy ----------------------------
EXTENDS NodeDeploy

CONSTANTS d1, d2, no, vg, old, root, data, o, s

MCDisks == {d1, d2}
MCGroups == {vg, old}
MCNames == {vg,old}
MCVolumes == {root, data, o, s}
MCGroupOf == [v \in MCVolumes |-> CASE v \in {root, data} -> vg [] OTHER -> old]
MCOrigin == {<<s, o>>}
MCFs == {root, data}
Exactly == {<<d, d>> : d \in MCDisks}
MCLikenesses == {Exactly, Exactly \cup {<<d2, d1>>}}
MCHyphenated == {o}
MCMountable == {root}
MCTexts == SUBSET MCFs
MCFiles == {"default", "grub"}
MCOrder == <<"default", "grub">>
MCSources == {"default"}
=============================================================================
