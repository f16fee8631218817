SPECIFICATION FairSpec
CONSTANTS
    Pids = {p0, p1, p2, p3}
    Main = p0
    NoPid = none
    Conns = {c1, c2}
    NoConn = noconn
    WorkerCount = 2
    Crashes = TRUE
INVARIANTS
    InFlightFinishes
PROPERTIES
    QueueServed
    ConnectionsEnd
    StopReleasesPort
CHECK_DEADLOCK FALSE
