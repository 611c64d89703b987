--------------------------- MODULE MCDeviceGroups ---------------------------
(* Instances of DeviceGroups for TLC: names of one class differ only in case. *)
EXTENDS DeviceGroups, TLC

CONSTANTS
    Variants,   \* the names that differ from each other only in case
    l1, l2      \* licences

MCLower == [n \in Names |-> IF n \in Variants THEN Variants ELSE {n}]

\* The public owner, and every user under every licence but the public one's.
MCOwners == {[user |-> PublicUser, lic |-> l1]} \union [user : Users, lic : Licences]

PrivateOwners == [user : Users, lic : Licences]

Symmetry == Permutations(Sessions) \union Permutations(Devices) \union Permutations(Variants)

=============================================================================
