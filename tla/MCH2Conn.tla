------------------------------ MODULE MCH2Conn ------------------------------
(***************************************************************************)
(* Instances of H2Conn for TLC.                                            *)
(***************************************************************************)
EXTENDS H2Conn

MCRequests == {"head", "file"}
MCBodyLen == [r \in MCRequests |-> IF r = "head" THEN HeadersOnly ELSE 2]

Fr(type, id, bit0, req, n, fault) ==
    [type |-> type, id |-> id, bit0 |-> bit0, req |-> req, n |-> n, fault |-> fault]

Plain(type, id, n) == Fr(type, id, FALSE, "head", n, "NO_ERROR")

\* Complete requests, bodies, resets and credit: what well-formed clients send.
RequestFrames == {Fr("HEADERS", s, TRUE, r, 0, "NO_ERROR") : s \in StreamIds, r \in MCRequests}
UploadFrames  == {Fr("HEADERS", s, FALSE, "head", 0, "NO_ERROR") : s \in StreamIds}
                 \cup {Fr("DATA", s, b, "head", 0, "NO_ERROR") : s \in StreamIds, b \in BOOLEAN}
ResetFrames   == {Plain("RST_STREAM", s, 0) : s \in StreamIds}
CreditFrames  == {Plain("WINDOW_UPDATE", s, 1) : s \in StreamIds \cup {0}}
SettingFrames == {Plain("SETTINGS", 0, n) : n \in {0, 2}}

\* Frames the handlers reject, one for each early return.
BadFrames ==
    {Plain("OVERSIZE", 0, 0), Plain("DATA", 0, 0), Plain("HEADERS", 2, 0),
     Plain("SETTINGS", 1, 0), Plain("SETTINGS", 0, MaxFlowWindow + 1),
     Plain("WINDOW_UPDATE", 1, 0), Plain("PING", 1, 0), Plain("GOAWAY", 1, 0)}
    \cup {Fr(t, 0, FALSE, "head", 1, "FRAME_SIZE_ERROR") :
            t \in {"RST_STREAM", "SETTINGS", "WINDOW_UPDATE", "PING", "GOAWAY"}}
    \cup {Fr("HEADERS", 3, TRUE, "file", 0, e) :
            e \in Faults \ {"NO_ERROR"}}

QuietFrames ==
    {Plain("PING", 0, 0), Plain("OTHER", 0, 0), Plain("SETTINGS", 0, NoEntry),
     Fr("SETTINGS", 0, TRUE, "head", 0, "NO_ERROR")}

\* GOAWAY: a stream the client opens after it is refused.
LeaveFrames   == {Plain("GOAWAY", 0, 0)}

\* Nesting, resets and slot recycling under flow control: bodies, so that the
\* responses compete for credit, and one response without a body.  The last
\* stream is never reset: no stream follows it into its slot; it may be an
\* upload, left open in a slot it took over while the writer it took it from is
\* still at work, and completed by DATA in the loop or under another writer.
\* Between them come the frames that are rejected and those that change nothing.
FileFrames    == {f \in RequestFrames : f.req = "file"}
RecycleFrames == FileFrames \cup {f \in ResetFrames : f.id < 5}
                 \cup {f \in CreditFrames : f.id # 3}
                 \cup {f \in UploadFrames : f.id = 5}
                 \cup {f \in RequestFrames : f.id = 3}
                 \cup BadFrames \cup QuietFrames

\* Retroactive window changes; the first stream may be reset, the client may
\* announce that it leaves.
ShiftFrames ==
    FileFrames \cup CreditFrames \cup SettingFrames \cup {Plain("RST_STREAM", 1, 0)}
               \cup LeaveFrames

\* Requests with and without bodies, and the error paths of every handler.
ErrorFrames == RequestFrames \cup UploadFrames \cup BadFrames \cup QuietFrames
               \cup LeaveFrames
=============================================================================
