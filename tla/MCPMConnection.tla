--------------------------- MODULE MCPMConnection ---------------------------
(* PMConnection for TLC.                                                     *)
EXTENDS PMConnection
=============================================================================
