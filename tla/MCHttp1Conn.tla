---------------------------- MODULE MCHttp1Conn ----------------------------
(* Requests for TLC: one for each way through the checks.                    *)
EXTENDS Http1Conn

Plain(m, t) == [method |-> m, target |-> t, version |-> "1.1", fields |-> {"Host"},
                traps |-> {}, conn |-> "absent", len |-> 2, inBody |-> FALSE]

MCRequests ==
    {Plain("GET", "file"), Plain("HEAD", "missing"), Plain("OPTIONS", "*"),
     Plain("POST", "file"), Plain("PRI", "*"),
     Plain("OPTIONS", "missing"), Plain("GET", "bad"),
     [Plain("GET", "long") EXCEPT !.len = 4],
     [Plain("GET", "file") EXCEPT !.len = 5],
     [Plain("GET", "file") EXCEPT !.version = "none"],
     [Plain("GET", "file") EXCEPT !.traps = {"Range"}],
     [Plain("GET", "file") EXCEPT !.version = "1.0", !.conn = "keep-alive"],
     [Plain("POST", "file") EXCEPT !.version = "other"],
     [Plain("GET", "file") EXCEPT !.conn = "close"],
     [Plain("GET", "file") EXCEPT !.traps = {"Content-Length"}],
     [Plain("GET", "file") EXCEPT !.fields = @ \cup {"Content-Length"}],
     [Plain("GET", "file") EXCEPT !.inBody = TRUE]}
=============================================================================
