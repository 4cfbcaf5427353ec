--------------------------- MODULE MCDissemination ---------------------------
(***************************************************************************)
(* Instances of Dissemination for TLC.                                     *)
(***************************************************************************)
EXTENDS DisseminationProperties

CONSTANTS k1, k2, s1, s2, s3, p1, p2, w1, w2

(* sink - s1 - s2: s2 hears a command only as repeated by s1.              *)
MCChain == {<<k1, s1>>, <<s1, s2>>, <<s2, s1>>}

(* Everyone hears everyone.                                                *)
MCClique == {<<k1, s1>>, <<k1, s2>>, <<s1, s2>>, <<s2, s1>>}

(* Two routes of different length from the sink to s3.                     *)
MCDiamond == {<<k1, s1>>, <<k1, s3>>, <<s1, s2>>, <<s2, s1>>, <<s2, s3>>, <<s3, s2>>}

(* Two sinks, each with a gateway, at the two ends of a chain.             *)
MCTwoSinks == {<<k1, s1>>, <<k2, s2>>, <<s1, s2>>, <<s2, s1>>}

MCOrders == {[kind |-> "START", arg |-> "ALL"], [kind |-> "DATA_PERIOD", arg |-> p2]}

MCPowerOrders ==
    {[kind |-> "START", arg |-> "ALL"], [kind |-> "TXPOWER", arg |-> w2],
     [kind |-> "TXPOWER", arg |-> NoArg]}

MCAllOrders ==
    {[kind |-> "START", arg |-> "GEOLOC"], [kind |-> "START", arg |-> NoArg],
     [kind |-> "STOP", arg |-> "ALL"], [kind |-> "DATA_PERIOD", arg |-> p2],
     [kind |-> "TXPOWER", arg |-> w2], [kind |-> "TXPOWER", arg |-> NoArg],
     [kind |-> "GLOBAL_REPAIR", arg |-> NoArg], [kind |-> "OTHER", arg |-> NoArg]}
=============================================================================
