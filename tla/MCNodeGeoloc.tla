----------------------------- MODULE MCNodeGeoloc -----------------------------
(***************************************************************************)
(* Instances of NodeGeoloc for TLC.                                        *)
(***************************************************************************)
EXTENDS NodeGeoloc, TLC

CONSTANTS s1, s2, s3

(* Two motes in range of each other.                                       *)
MCPair == {<<s1, s2>>, <<s2, s1>>}

(* s2 in the middle.                                                       *)
MCLine == MCPair \cup {<<s2, s3>>, <<s3, s2>>}
=============================================================================
