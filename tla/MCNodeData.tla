------------------------------ MODULE MCNodeData ------------------------------
(***************************************************************************)
(* Instances of NodeData for TLC.                                          *)
(***************************************************************************)
EXTENDS NodeData

MCPeriod == {1, 2, 5}
=============================================================================
