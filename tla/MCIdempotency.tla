--------------------------- MODULE MCIdempotency ---------------------------
(* Idempotency with two or three requests for the key.                      *)
EXTENDS Idempotency, TLC

CONSTANTS r1, r2, r3

\* The last request has other content.
MixedHash == [r \in Requests |-> IF r = r3 THEN "h2" ELSE "h1"]

Alike == Permutations({r1, r2})
=============================================================================
