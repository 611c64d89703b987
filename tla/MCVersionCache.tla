--------------------------- MODULE MCVersionCache ---------------------------
(* Instances of VersionCache for TLC: writers, clients and contents are     *)
(* model values, interchangeable but for their names.                        *)
EXTENDS VersionCache, TLC

Symmetry == Permutations(Writers) \union Permutations(Clients) \union Permutations(Vals)

=============================================================================
