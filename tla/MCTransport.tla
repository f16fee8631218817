---------------------------- MODULE MCTransport ----------------------------
(* A stage of three bytes, records of two, parts of up to four: a call can   *)
(* fit, fill, overflow or exceed the stage, and span several records.        *)
EXTENDS Transport
=============================================================================
