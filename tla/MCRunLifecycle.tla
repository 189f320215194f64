--------------------------- MODULE MCRunLifecycle ---------------------------
(* Instances of RunLifecycle for TLC. The configurations name the runs A, B,  *)
(* C and the processes i1, i2; where all of them play the same part they are  *)
(* interchangeable.                                                           *)
EXTENDS RunLifecycle, TLC
CONSTANTS A, B, C, i1, i2

Alike == Permutations(Runs)
AlikeInstances == Permutations(Instances)
=============================================================================
