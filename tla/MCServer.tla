------------------------------ MODULE MCServer ------------------------------
(* Instances of MessageServer for TLC.                                       *)
EXTENDS MessageServer
=============================================================================
