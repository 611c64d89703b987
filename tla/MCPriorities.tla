---------------------------- MODULE MCPriorities ----------------------------
(* Instances of Priorities for TLC: sessions and ids are model values. *)
EXTENDS Priorities, TLC

Symmetry == Permutations(Sessions) \union Permutations(Ids)

=============================================================================
