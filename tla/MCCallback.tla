---------------------------- MODULE MCCallback ----------------------------
(* An instance of Callback for TLC.                                         *)
EXTENDS Callback, TLC

CONSTANTS t1, w1, w2
===========================================================================
