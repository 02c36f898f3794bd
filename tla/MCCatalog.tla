----------------------------- MODULE MCCatalog -----------------------------
(* An instance of Catalog and Listings for TLC: artifacts 1 and 3 have the  *)
(* same name; 11 and 12 are versions of 1, 13 one of 2; 21 and 22 files of  *)
(* 11.                                                                      *)
EXTENDS Listings, TLC

CONSTANTS p1, p2

MCNameOf == (1 :> 1) @@ (2 :> 2) @@ (3 :> 1)
MCArtOf  == (11 :> 1) @@ (12 :> 1) @@ (13 :> 2)
MCVerOf  == (21 :> 11) @@ (22 :> 11)
MCSizeOf == (21 :> 1) @@ (22 :> 2)

MCBytes(S) == MapThenSumSet(LAMBDA f : MCSizeOf[f], S)
=============================================================================
