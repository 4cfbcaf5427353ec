------------------------------ MODULE MCDataPath ------------------------------
(***************************************************************************)
(* Instances of DataPath for TLC.                                          *)
(***************************************************************************)
EXTENDS DataPath

CONSTANTS s1, s2
=============================================================================
