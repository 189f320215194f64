---------------------------- MODULE MCDeliveries ----------------------------
(* Instances of Deliveries for TLC: deliveries D and E, workers u and v.      *)
EXTENDS Deliveries
CONSTANTS D, E, u, v
=============================================================================
