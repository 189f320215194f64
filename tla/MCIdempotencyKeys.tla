--------------------------- MODULE MCIdempotencyKeys ---------------------------
(* Instances of IdempotencyKeys for TLC.                                       *)
EXTENDS IdempotencyKeys
CONSTANTS P1, P2, P3, A, B
=============================================================================
