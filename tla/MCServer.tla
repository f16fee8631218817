------------------------------ MODULE MCServer ------------------------------
(* Two workers, the original process among them, processes for two           *)
(* connections, and two connections.                                         *)
EXTENDS Server
=============================================================================
