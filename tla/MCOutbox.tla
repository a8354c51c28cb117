------------------------------ MODULE MCOutbox ------------------------------
(* Outbox with a chunk.ready event, which may be deferred and re-armed, of   *)
(* two attempts.                                                            *)
EXTENDS Outbox, TLC

CONSTANTS e1, d1, d2, w1, w2

MCEventType == e1 :> "chunk.ready"
MCMaxAttempts == e1 :> 2
=============================================================================
