--------------------------- MODULE MCSendInflight ---------------------------
(* SendInflight with two acceptances.                                       *)
EXTENDS SendInflight, TLC

CONSTANTS r1, r2

=============================================================================
