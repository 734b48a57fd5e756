\* listener.accept() may return an Err; every peer sends its request and
\* the owner keeps the server.
CONSTANTS
    Names = {a}
    a = a
    v1 = v1
    v2 = v2
    b1 = b1
    MaxDepth = 2
    Dir = Dir
    File = File
    Vals = {v1, v2}
    InitVal = v1
    MaxIno = 4
    Blocks = {}
    None = None
    Conns = {c1, c2, c3}
    LocalConn = LocalConn
    LoopbackMayFail = FALSE
    Silent = {}
    Workers = 1
    AcceptMayFail = TRUE
    CurInum = 4
    WriterPriority = TRUE
    OwnerMayDrop = FALSE
    PeerRequests <- PlainRequests

SPECIFICATION Spec
PROPERTY PeerServed

