--------------------------- MODULE MCMetricsCache ---------------------------
(* An instance of MetricsCache for TLC.                                      *)
EXTENDS MetricsCache

CONSTANTS c1, c2
=============================================================================
