----------------------------- MODULE MCVersions -----------------------------
(* Instances of Versions for TLC.                                           *)
EXTENDS Versions, TLC

CONSTANTS i1, i2, i3, a1, a2

\* Ids of one artifact and of two; i1 < i2 < i3 in semver order, each with another
\* coordinate deciding.
Semvers      == (i1 :> <<0, 2, 1>>) @@ (i2 :> <<1, 0, 1>>) @@ (i3 :> <<1, 1, 0>>)
OneArtifact  == (i1 :> a1) @@ (i2 :> a1) @@ (i3 :> a1)
TwoArtifacts == (i1 :> a1) @@ (i2 :> a1) @@ (i3 :> a2)

KeepLast(n) == [NoFilter EXCEPT !.keepLast = n]

KeepOne  == {KeepLast(1)}
\* The largest int32 and the values around those that wrap to 0.
KeepMany == {KeepLast(HalfInt32 - 1), KeepLast(2 * HalfInt32 - 1), KeepLast(2 * HalfInt32)}
=============================================================================
