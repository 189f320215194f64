---------------------------- MODULE MCRunStreams ----------------------------
(* Instances of RunStreams for TLC: runs A and B.                              *)
EXTENDS RunStreams
CONSTANTS A, B
=============================================================================
