----------------------------- MODULE MetaStore -----------------------------
(***************************************************************************)
(* What the peer sync server promises its peers about the metadata graph:  *)
(* each request a peer connection delivers takes effect at one instant, as *)
(* if the whole handler ran alone, and its reply describes the graph at    *)
(* that instant.  Requests of different connections are applied in any     *)
(* order (the server issues no cross-connection barrier).  CacheServer,    *)
(* where handlers take locks and await between their steps, is checked to *)
(* implement this specification.                                           *)
(***************************************************************************)
EXTENDS MetaGraph

CONSTANTS
    Conns,          \* peer connections, one request each
    PeerRequests,   \* the requests peers may send (ino of UpdateDir unset)
    InitVal,        \* attributes of the root node at start
    CurInum         \* meta.cur_inum(): the local allocation counter

VARIABLES
    path2inum, cache, blocks,  \* S3MetaData maps and the content cache
    nextIno,        \* next inode number the cluster hands to a new child
    request,        \* request[c]: what connection c asked for
    phase,          \* "idle" | "pending" | "applied"
    resp            \* resp[c]: the reply built for c (None until applied)

absVars == <<path2inum, cache, blocks, nextIno, request, phase, resp>>

AbsInit ==
    /\ path2inum = [p \in Paths |-> IF p = Root THEN RootIno ELSE None]
    /\ cache = [i \in Inos |-> IF i = RootIno THEN RootNode(InitVal) ELSE None]
    /\ blocks = {}
    /\ nextIno = RootIno + 1
    /\ request = [c \in Conns |-> None]
    /\ phase = [c \in Conns |-> "idle"]
    /\ resp = [c \in Conns |-> None]

\* A peer connects and sends a request.  A new child of UpdateDir gets the
\* next free inode number of the cluster.
Submit(c, r) ==
    /\ phase[c] = "idle"
    /\ r.op = "UpdateDir" => nextIno <= MaxIno
    /\ request' = [request EXCEPT ![c] =
                     IF r.op = "UpdateDir" THEN [r EXCEPT !.ino = nextIno] ELSE r]
    /\ nextIno' = IF r.op = "UpdateDir" THEN nextIno + 1 ELSE nextIno
    /\ phase' = [phase EXCEPT ![c] = "pending"]
    /\ UNCHANGED <<path2inum, cache, blocks, resp>>

\* The whole of one handler, atomically: new maps, blocks and reply.
Outcome(r) ==
    LET i == path2inum[r.path]
        same == [p2i |-> path2inum, ch |-> cache, blk |-> blocks, reply |-> None]
    IN CASE r.op = "UpdateDir" ->
              IF i = None \/ cache[i] = None THEN [same EXCEPT !.reply = Ack]
              ELSE IF cache[i].kind # Dir THEN [same EXCEPT !.reply = Panic]
              ELSE LET e == UpdateDirEffect(path2inum, cache, i, r)
                   IN [p2i |-> e.p2i, ch |-> e.ch, blk |-> blocks, reply |-> Ack]
         [] r.op = "RemoveDirEntry" ->
              IF i = None \/ cache[i] = None THEN [same EXCEPT !.reply = Ack]
              ELSE IF cache[i].kind # Dir THEN [same EXCEPT !.reply = Panic]
              ELSE [same EXCEPT !.ch = RemoveDirEntryEffect(cache, i, r), !.reply = Ack]
         [] r.op = "PushFileAttr" ->
              IF i = None \/ cache[i] = None THEN [same EXCEPT !.reply = Ack]
              ELSE [same EXCEPT !.ch = PushAttrEffect(cache, i, r), !.reply = Ack]
         [] r.op = "LoadDir" ->
              [same EXCEPT !.reply = IF i = None THEN NoneReply ELSE LoadDirReply(cache, i)]
         [] r.op = "GetFileAttr" ->
              [same EXCEPT !.reply = IF i = None THEN NoneReply ELSE GetAttrReply(cache, i)]
         [] r.op = "Remove" ->
              LET e == RemoveNodeLocalEffect(path2inum, cache, r)
              IN [p2i |-> e.p2i, ch |-> e.ch, blk |-> blocks, reply |-> Ack]
         [] r.op = "Invalidate" -> [same EXCEPT !.blk = blocks \ {r.block}, !.reply = Ack]
         [] r.op = "CheckAvailable" ->
              [same EXCEPT !.reply = CheckAvailableReply(blocks, r.block)]
         [] r.op = "Read" -> [same EXCEPT !.reply = ReadReply(blocks, r.block)]
         [] r.op = "GetInodeNum" -> [same EXCEPT !.reply = CurInum]
         [] r.op = "TurnOff" -> [same EXCEPT !.reply = "turnoff"]

Apply(c) ==
    /\ phase[c] = "pending"
    /\ LET o == Outcome(request[c])
       IN /\ path2inum' = o.p2i
          /\ cache' = o.ch
          /\ blocks' = o.blk
          /\ resp' = [resp EXCEPT ![c] = o.reply]
    /\ phase' = [phase EXCEPT ![c] = "applied"]
    /\ UNCHANGED <<nextIno, request>>

\* A local read fills the content cache (GlobalCache, outside this code).
Fill(b) ==
    /\ b \notin blocks
    /\ blocks' = blocks \cup {b}
    /\ UNCHANGED <<path2inum, cache, nextIno, request, phase, resp>>

AbsNext ==
    \/ \E c \in Conns, r \in PeerRequests : Submit(c, r)
    \/ \E c \in Conns : Apply(c)
    \/ \E b \in Blocks : Fill(b)

AbsSpec == AbsInit /\ [][AbsNext]_absVars
=============================================================================
