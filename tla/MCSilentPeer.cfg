\* Peer c2 connects and never sends, on an executor with one thread;
\* accept() does not fail and the owner keeps the server.
CONSTANTS
    Names = {a}
    a = a
    v1 = v1
    v2 = v2
    b1 = b1
    MaxDepth = 2
    Dir = Dir
    File = File
    Vals = {v1, v2}
    InitVal = v1
    MaxIno = 4
    Blocks = {}
    None = None
    Conns = {c1, c2, c3}
    LocalConn = LocalConn
    LoopbackMayFail = FALSE
    Silent = {c2}
    Workers = 1
    AcceptMayFail = FALSE
    CurInum = 4
    WriterPriority = TRUE
    OwnerMayDrop = FALSE
    PeerRequests <- PlainRequests

SPECIFICATION Spec
PROPERTY PeerServed

\* With every executor thread blocked in a silent peer's read, no task
\* step is enabled: the server really stays there.
CHECK_DEADLOCK FALSE
