----------------------------- MODULE MCGatewayLink -----------------------------
(***************************************************************************)
(* Instances of GatewayLink for TLC.                                       *)
(***************************************************************************)
EXTENDS GatewayLink

CONSTANTS p1, w1, s1, s2

MCOrders == {[kind |-> "START", arg |-> "ALL"]}
================================================================================
