CONSTANTS
    Names = {a}
    a = a
    v1 = v1
    v2 = v2
    b1 = b1
    MaxDepth = 2
    Dir = Dir
    File = File
    Vals = {v1, v2}
    InitVal = v1
    MaxIno = 4
    Blocks = {b1}
    None = None
    Conns = {c1, c2, c3}
    LocalConn = LocalConn
    LoopbackMayFail = TRUE
    Silent = {c3}
    Workers = 2
    AcceptMayFail = TRUE
    CurInum = 4
    WriterPriority = TRUE
    OwnerMayDrop = TRUE
    PeerRequests <- LifecycleRequests

SPECIFICATION Spec
PROPERTY TaskCompletes
PROPERTY DropJoins
