\* The owner may drop the server at any time after CacheServer::new returned, and the bind may fail.
CONSTANTS
    Names = {a}
    a = a
    v1 = v1
    v2 = v2
    b1 = b1
    MaxDepth = 2
    Dir = Dir
    File = File
    Vals = {v1, v2}
    InitVal = v1
    MaxIno = 4
    Blocks = {b1}
    None = None
    Conns = {c1}
    LocalConn = LocalConn
    LoopbackMayFail = FALSE
    Silent = {}
    Workers = 1
    AcceptMayFail = FALSE
    CurInum = 4
    WriterPriority = TRUE
    OwnerMayDrop = TRUE
    PeerRequests <- PlainRequests

SPECIFICATION Spec
INVARIANT OwnerTracksAcceptor
