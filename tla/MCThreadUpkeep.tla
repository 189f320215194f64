---------------------------- MODULE MCThreadUpkeep ----------------------------
(* Instances of ThreadUpkeep for TLC.                                          *)
EXTENDS ThreadUpkeep
CONSTANTS A, B, C, p
=============================================================================
