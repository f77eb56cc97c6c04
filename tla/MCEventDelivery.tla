---------------------------- MODULE MCEventDelivery ----------------------------
(* The node's events outnumber the queue's places.                          *)
EXTENDS EventDelivery, TLC
=============================================================================
