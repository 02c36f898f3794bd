-------------------------- MODULE MCRegistryFiles --------------------------
(* Instances of RegistryFiles for TLC.                                      *)
EXTENDS RegistryFiles, TLC

CONSTANTS p1, p2, p3, f1, f2, f3, v1, v2, a1, a2, n1, n2

OneArtifact  == (v1 :> a1) @@ (v2 :> a1)
OneVersion   == (v1 :> a1)
TwoArtifacts == (v1 :> a1) @@ (v2 :> a2)
\* Each instance with symmetry has one artifact, so its versions are alike too.
Symmetry     == Permutations(Procs) \cup Permutations(FileIds)
                  \cup Permutations(Versions) \cup Permutations(Names)
=============================================================================
