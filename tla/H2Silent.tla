------------------------------ MODULE H2Silent ------------------------------
(***************************************************************************)
(* The HTTP/2 engine of H2Conn with a client that may stop sending: at any *)
(* moment it can fall silent, for good, with or without being gone.        *)
(***************************************************************************)
EXTENDS H2Conn

VARIABLE silent   \* the client has sent its last frame

silentVars == <<vars, silent>>

SilentInit == Init /\ silent = FALSE

FallSilent == ~ silent /\ silent' = TRUE /\ UNCHANGED vars

HearFrame == ~ silent /\ ReadFrame /\ UNCHANGED silent

Serving == Server /\ UNCHANGED silent

SilentNext ==
    \/ FallSilent
    \/ HearFrame
    \/ Serving
    \/ (PeerGone \/ Closed) /\ UNCHANGED silent

(***************************************************************************)
(* Fairness is the server's alone.  The kernel runs the process, and       *)
(* SO_RCVTIMEO makes a read that gets no bytes return, so a pending read   *)
(* that no frame answers eventually fails.                                 *)
(***************************************************************************)
SilentSpec == SilentInit /\ [][SilentNext]_silentVars /\ WF_silentVars(Serving)

-----------------------------------------------------------------------------
\* A client that falls silent is eventually rid of: every nested writer gives
\* up in turn, answers its own stream, and the frame loop closes the
\* connection, whatever state the streams were left in.
SilentClientIsClosed == silent ~> (pc = "closed")
=============================================================================
