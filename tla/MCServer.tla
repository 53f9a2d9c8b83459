------------------------------ MODULE MCServer ------------------------------
(* Small instances of Server for TLC.                                       *)
EXTENDS Server

CONSTANTS c1, c2, c3
=============================================================================
