------------------------------ MODULE MCServer ------------------------------
(* The TLC instance of Server.                                             *)
EXTENDS Server

=============================================================================
