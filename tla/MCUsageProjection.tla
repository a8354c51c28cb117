------------------------- MODULE MCUsageProjection -------------------------
(* An instance of UsageProjection for TLC.                                   *)
EXTENDS UsageProjection, TLC

=============================================================================
