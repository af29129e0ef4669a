------------------------------ MODULE MCServer ------------------------------
(* Instances of Server for model checking.                                 *)
EXTENDS Server
=============================================================================
