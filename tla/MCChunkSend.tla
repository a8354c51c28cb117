---------------------------- MODULE MCChunkSend ----------------------------
(* An instance of ChunkSend for TLC. *)
EXTENDS ChunkSend, TLC

CONSTANTS w1, w2, v1, v2

TwoVendors == <<v1, v2>>
=============================================================================
