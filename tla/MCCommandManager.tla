--------------------------- MODULE MCCommandManager ---------------------------
(***************************************************************************)
(* Instances of CommandManager for TLC.                                    *)
(***************************************************************************)
EXTENDS CommandManagerProperties, TLC

CONSTANTS k1, k2, g1, g2, g3, r1, r2, p1, p2, w1, w2

(* One gateway that loses its connection and opens another.                *)
MCOneGateway == g1 :> k1 @@ g2 :> k1

(* The same, next to a gateway that stays.                                 *)
MCTwoGateways == g1 :> k1 @@ g2 :> k2 @@ g3 :> k1

MCOrders == {[kind |-> "START", arg |-> "ALL"]}
=============================================================================
