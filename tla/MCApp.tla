-------------------------------- MODULE MCApp --------------------------------
(* Instance of AppLifetime for TLC. *)
EXTENDS AppLifetime, TLC
=============================================================================
