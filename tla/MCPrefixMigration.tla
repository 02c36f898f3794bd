------------------------- MODULE MCPrefixMigration -------------------------
(* Instances of PrefixMigration for TLC.                                     *)
EXTENDS PrefixMigration, TLC

CONSTANTS f1, f2, j1, j2

PodSymmetry == Permutations({j1, j2}) \cup Permutations({f1, f2})
=============================================================================
