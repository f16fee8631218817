----------------------------- MODULE MCH2Input -----------------------------
(* Frames of up to three cells of payload through a buffer of six: the first  *)
(* read can end anywhere inside a frame, behind one or several others.       *)
EXTENDS H2Input
=============================================================================
