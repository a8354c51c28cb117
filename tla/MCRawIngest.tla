---------------------------- MODULE MCRawIngest ----------------------------
(* An instance of RawIngest for TLC.                                        *)
EXTENDS RawIngest, TLC

CONSTANTS p1, p2, sys, ops
===========================================================================
