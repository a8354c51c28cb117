--------------------------- MODULE MCUsageLedger ---------------------------
(* An instance of UsageLedger for TLC: a request and its retry share a key.  *)
EXTENDS UsageLedger, TLC

CONSTANTS p1, p2, p3, k1, k2, a1, a2, ph

MCKeyOf == [p \in Requests |-> IF p = p3 THEN k2 ELSE k1]
MCAppOf == k1 :> a1 @@ k2 :> a2
MCPhoneOf == k1 :> ph @@ k2 :> ph
=============================================================================
