---------------------------- MODULE MCRedisDispatch ----------------------------
(* Instances of RedisDispatch for TLC: H is a client's thread.                 *)
EXTENDS RedisDispatch
CONSTANTS H, S1, S2, Q1, W1
=============================================================================
