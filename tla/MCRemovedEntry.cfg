CONSTANTS
    Names = {a}
    a = a
    v1 = v1
    v2 = v2
    b1 = b1
    MaxDepth = 2
    Dir = Dir
    File = File
    Vals = {v1, v2}
    InitVal = v1
    MaxIno = 4
    Blocks = {}
    None = None
    Conns = {c1, c2}
    LocalConn = LocalConn
    LoopbackMayFail = FALSE
    Silent = {}
    Workers = 1
    AcceptMayFail = FALSE
    CurInum = 4
    WriterPriority = TRUE
    OwnerMayDrop = FALSE
    PeerRequests <- MetaRequests

SPECIFICATION Spec
INVARIANT ResolvedPathListed
