----------------------------- MODULE MCH2Silent -----------------------------
(***************************************************************************)
(* H2Silent for TLC, with the frames of MCH2Conn.                          *)
(***************************************************************************)
EXTENDS H2Silent, MCH2Conn
=============================================================================
