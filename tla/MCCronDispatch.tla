---------------------------- MODULE MCCronDispatch ----------------------------
(* Instances of CronDispatch for TLC: H is a client's thread.                  *)
EXTENDS CronDispatch
CONSTANTS H, S1, Q1, E1, E2
=============================================================================
