------------------------------ MODULE MCSites ------------------------------
(* Instances of Sites for TLC: sessions, devices and names are model values, *)
(* and those names of one class differ only in the case of their letters.    *)
EXTENDS Sites, TLC

CONSTANT Variants  \* the names that differ from each other only in case

MCLower == [n \in Names |-> IF n \in Variants THEN Variants ELSE {n}]

Symmetry == Permutations(Sessions) \union Permutations(Devices) \union Permutations(Variants)

=============================================================================
