---------------------------- MODULE CacheServer ----------------------------
(***************************************************************************)
(* CacheServer of src/async_fuse/src/memfs/dist/server.rs.                 *)
(*                                                                         *)
(*  - the acceptor thread (CacheServer::new): binds, then accepts; a       *)
(*    connection from the bind IP is the owner's shutdown connection (the *)
(*    loopback peer of spec 4.F) and is served on the acceptor thread, any *)
(*    other is handed to a detached smol task running dispatch;           *)
(*  - the owner's Drop: connect to itself, send TurnOff, join the thread;  *)
(*  - one task per peer connection: read one request, run its handler,     *)
(*    write one reply.  A task is suspended only where the handler awaits *)
(*    a guard of path2inum or meta.cache (async RwLocks) and while the    *)
(*    blocking reply write is in progress, so each await is one step and  *)
(*    the code between two awaits one atomic step.  held[c] is the set of *)
(*    guards alive in the task, dropped where Rust drops them.            *)
(***************************************************************************)
EXTENDS MetaGraph, FiniteSets, TLC

CONSTANTS
    Conns, PeerRequests, InitVal, CurInum,
    LocalConn,      \* the owner's loopback connection (peer IP = bind IP)
    AcceptMayFail,  \* whether listener.accept() may return an Err
    LoopbackMayFail, \* whether a read or write on the loopback connection may fail
    OwnerMayDrop,   \* whether the owner drops the server in the behaviours
    Silent,         \* peers that connect and never send their request
    Workers,        \* threads of the executor the tasks are spawned on
    WriterPriority  \* a waiting writer blocks new readers (async-lock)

ASSUME Workers \in Nat \ {0}

VARIABLES
    path2inum, cache, blocks, nextIno, request,
    pc,         \* pc[c]: where the task of connection c is
    held,       \* held[c]: guards alive, subset of {"pr","pw","cr","cw"}
    inum,       \* inum[c]: the inode number read from path2inum
    resp,       \* resp[c]: reply built at the handler's decisive step
    backlog,    \* the listener's accept queue
    acceptor,   \* "binding" | "running" | "stopped" | "bindfailed" | "crashed"
    owner       \* "live" | "joining" | "dropped" | "aborted"

vars == <<path2inum, cache, blocks, nextIno, request, pc, held, inum, resp,
          backlog, acceptor, owner>>
metaVars == <<path2inum, cache, blocks>>

\* Guard modes: path2inum read / write, meta.cache read / write.
Modes == {"pr", "pw", "cr", "cw"}
LockOf(m) == IF m \in {"pr", "pw"} THEN "paths" ELSE "cache"
WriteMode(l) == IF l = "paths" THEN "pw" ELSE "cw"

\* The guard each await point asks for.
AwaitAt == [ud_paths |-> "pw", ud_cache |-> "cw", rd_paths |-> "pr",
            rd_cache |-> "cw", ld_paths |-> "pr", ld_cache |-> "cr",
            ga_paths |-> "pr", ga_cache |-> "cr", pa_paths |-> "pr",
            pa_cache |-> "cw"]
Awaiting(c, m) == pc[c] \in DOMAIN AwaitAt /\ AwaitAt[pc[c]] = m

\* An RwLock grants a write guard when no guard of that lock is alive and a
\* read guard when no write guard is; with writer priority a read is also
\* refused while another task waits for the write guard.
CanAcquire(c, m) ==
    IF m = WriteMode(LockOf(m))
    THEN \A d \in Conns : \A h \in held[d] : LockOf(h) # LockOf(m)
    ELSE /\ \A d \in Conns : WriteMode(LockOf(m)) \notin held[d]
         /\ WriterPriority =>
              \A d \in Conns \ {c} : ~Awaiting(d, WriteMode(LockOf(m)))

NoGuards == \A d \in Conns : held[d] = {}

FirstStep == [UpdateDir |-> "ud_paths", RemoveDirEntry |-> "rd_paths",
              LoadDir |-> "ld_paths", GetFileAttr |-> "ga_paths",
              PushFileAttr |-> "pa_paths", Remove |-> "rm",
              TurnOff |-> "op", Invalidate |-> "op", CheckAvailable |-> "op",
              Read |-> "op", GetInodeNum |-> "op"]

Goto(c, l) == pc' = [pc EXCEPT ![c] = l]
Hold(c, s) == held' = [held EXCEPT ![c] = s]
Answer(c, v) == resp' = [resp EXCEPT ![c] = v]
\* A handler panics: the task unwinds, dropping every guard, and no reply
\* is written (dispatch's Err arm, line 116, panics the same way).
Die(c) == Goto(c, "aborted") /\ Hold(c, {})

Init ==
    /\ path2inum = [p \in Paths |-> IF p = Root THEN RootIno ELSE None]
    /\ cache = [i \in Inos |-> IF i = RootIno THEN RootNode(InitVal) ELSE None]
    /\ blocks = {}
    /\ nextIno = RootIno + 1
    /\ request = [c \in Conns |-> None]
    /\ pc = [c \in Conns |-> "idle"]
    /\ held = [c \in Conns |-> {}]
    /\ inum = [c \in Conns |-> None]
    /\ resp = [c \in Conns |-> None]
    /\ backlog = <<>>
    /\ acceptor = "binding"
    /\ owner = "live"

-----------------------------------------------------------------------------
(* Acceptor thread and owner.                                             *)

\* TcpListener::bind in the spawned thread; a failure panics that thread
\* only: CacheServer::new has already returned.
Bind ==
    /\ acceptor = "binding"
    /\ acceptor' \in {"running", "bindfailed"}
    /\ UNCHANGED <<path2inum, cache, blocks, nextIno, request, pc, held, inum,
                   resp, backlog, owner>>

\* A peer connects and sends one request; the new child of an UpdateDir
\* carries the next inode number of the cluster.
PeerConnect(c, r) ==
    /\ pc[c] = "idle"
    /\ acceptor = "running"
    /\ r.op = "UpdateDir" => nextIno <= MaxIno
    /\ request' = [request EXCEPT ![c] =
                     IF r.op = "UpdateDir" THEN [r EXCEPT !.ino = nextIno] ELSE r]
    /\ nextIno' = IF r.op = "UpdateDir" THEN nextIno + 1 ELSE nextIno
    /\ backlog' = Append(backlog, c)
    /\ Goto(c, "queued")
    /\ UNCHANGED <<path2inum, cache, blocks, held, inum, resp, acceptor, owner>>

\* accept() returns a peer whose IP is not the bind IP: spawn a detached
\* task for it.
AcceptRemote ==
    /\ acceptor = "running"
    /\ backlog # <<>>
    /\ Head(backlog) # LocalConn
    /\ backlog' = Tail(backlog)
    /\ Goto(Head(backlog), "read")
    /\ UNCHANGED <<path2inum, cache, blocks, nextIno, request, held, inum, resp,
                   acceptor, owner>>

\* Variant of AcceptLocal without the loopback test: the owner's TurnOff
\* goes to a dispatch task, which answers it and returns Ok(false).
AcceptLocalAsRemote ==
    /\ acceptor = "running"
    /\ backlog # <<>>
    /\ Head(backlog) = LocalConn
    /\ backlog' = Tail(backlog)
    /\ UNCHANGED <<path2inum, cache, blocks, nextIno, request, pc, held, inum,
                   resp, acceptor, owner>>

\* accept() returns the owner's loopback connection: read its one request
\* on the acceptor thread.  The owner's Drop sent TurnOff, which is
\* answered, and the thread returns.  A failed read_message (the owner's
\* write of TurnOff failed and its socket was closed) or a failed turnoff
\* reply panics the thread, which drops the listener.
AcceptLocal ==
    /\ acceptor = "running"
    /\ backlog # <<>>
    /\ Head(backlog) = LocalConn
    /\ backlog' = Tail(backlog)
    /\ \/ owner = "joining" /\ acceptor' = "stopped"
       \/ LoopbackMayFail /\ acceptor' = "crashed"
    /\ UNCHANGED <<path2inum, cache, blocks, nextIno, request, pc, held, inum,
                   resp, owner>>

\* listener.accept() returns an Err: the acceptor thread panics.
AcceptError ==
    /\ AcceptMayFail
    /\ acceptor = "running"
    /\ acceptor' = "crashed"
    /\ UNCHANGED <<path2inum, cache, blocks, nextIno, request, pc, held, inum,
                   resp, backlog, owner>>

\* Drop: connect to the own address and send TurnOff.  Connecting fails,
\* and Drop panics, when no listener is bound; a failed write of TurnOff
\* panics Drop after the connection was queued.
Drop ==
    /\ OwnerMayDrop
    /\ owner = "live"
    /\ \/ /\ acceptor = "running"
          /\ backlog' = Append(backlog, LocalConn)
          /\ owner' = "joining"
       \/ /\ acceptor = "running" /\ LoopbackMayFail
          /\ backlog' = Append(backlog, LocalConn)
          /\ owner' = "aborted"
       \/ /\ acceptor # "running"
          /\ owner' = "aborted"
          /\ UNCHANGED backlog
    /\ UNCHANGED <<path2inum, cache, blocks, nextIno, request, pc, held, inum,
                   resp, acceptor>>

\* Drop: join the acceptor thread, which returns once it served TurnOff; a
\* thread that panicked makes join() an Err, and Drop panics.
Join ==
    /\ owner = "joining"
    /\ acceptor \in {"stopped", "crashed"}
    /\ owner' = IF acceptor = "stopped" THEN "dropped" ELSE "aborted"
    /\ UNCHANGED <<path2inum, cache, blocks, nextIno, request, pc, held, inum,
                   resp, backlog, acceptor>>

\* A local read fills the content cache (GlobalCache, not in this code).
Fill(b) ==
    /\ b \notin blocks
    /\ blocks' = blocks \cup {b}
    /\ UNCHANGED <<path2inum, cache, nextIno, request, pc, held, inum, resp,
                   backlog, acceptor, owner>>

-----------------------------------------------------------------------------
(* One dispatch task.                                                     *)

\* The task's socket is a std::net::TcpStream: read_message and
\* write_message block the executor thread they run on.  A task blocked in
\* the read of a silent peer keeps its thread; the others run on the rest.
Stalled == {d \in Conns : pc[d] = "stalled"}
FreeWorker == Cardinality(Stalled) < Workers

\* tcp::read_message on a peer that never sends: the thread waits forever.
Stall(c) ==
    /\ pc[c] = "read"
    /\ c \in Silent
    /\ Goto(c, "stalled")
    /\ UNCHANGED <<path2inum, cache, blocks, nextIno, request, held, inum, resp,
                   backlog, acceptor, owner>>

\* tcp::read_message; a peer that went away makes the task panic.
ReadRequest(c) ==
    /\ pc[c] = "read"
    /\ c \notin Silent
    /\ \/ Goto(c, FirstStep[request[c].op])
       \/ Goto(c, "aborted")
    /\ UNCHANGED <<path2inum, cache, blocks, nextIno, request, held, inum, resp,
                   backlog, acceptor, owner>>

Unchanged == UNCHANGED <<nextIno, request, backlog, acceptor, owner>>

\* The first await of the path-based handlers: take the path2inum guard of
\* mode m and look the path up; a missing path is answered with `missing`
\* (the paths guard stays alive through the reply), a found one carried
\* on to step `next`.
LookupPath(c, m, next, missing) ==
    /\ CanAcquire(c, m)
    /\ Hold(c, {m})
    /\ LET i == path2inum[request[c].path]
       IN \/ /\ i = None
             /\ Goto(c, "reply") /\ Answer(c, missing) /\ UNCHANGED inum
          \/ /\ i # None
             /\ Goto(c, next) /\ UNCHANGED resp
             /\ inum' = [inum EXCEPT ![c] = i]
    /\ UNCHANGED metaVars /\ Unchanged

\* update_dir: path2inum.write().await, then path2inum.get(parent_path).
UpdateDirLockPaths(c) == pc[c] = "ud_paths" /\ LookupPath(c, "pw", "ud_cache", Ack)

\* update_dir: cache.write().await and the insertions; the cache guard is
\* dropped at the end of the block, the paths guard only after the reply.
UpdateDirLockCache(c) ==
    LET i == inum[c]
        e == UpdateDirEffect(path2inum, cache, i, request[c])
    IN /\ pc[c] = "ud_cache"
       /\ CanAcquire(c, "cw")
       /\ \/ /\ cache[i] = None
             /\ Goto(c, "reply") /\ Answer(c, Ack) /\ UNCHANGED <<held, metaVars>>
          \/ /\ cache[i] # None /\ cache[i].kind # Dir
             /\ Die(c) /\ Answer(c, Panic) /\ UNCHANGED metaVars
          \/ /\ IsDir(cache, i)
             /\ path2inum' = e.p2i /\ cache' = e.ch /\ UNCHANGED blocks
             /\ Goto(c, "reply") /\ Answer(c, Ack) /\ UNCHANGED held
       /\ UNCHANGED inum /\ Unchanged

\* remove_dir_entry: path2inum.read().await, then get(parent_path).
RemoveDirEntryLockPaths(c) == pc[c] = "rd_paths" /\ LookupPath(c, "pr", "rd_cache", Ack)

\* remove_dir_entry: a temporary cache write guard, dropped at the end of
\* the if-let, removes the entry; the paths guard lives on.
RemoveDirEntryLockCache(c) ==
    LET i == inum[c]
    IN /\ pc[c] = "rd_cache"
       /\ CanAcquire(c, "cw")
       /\ \/ /\ cache[i] = None
             /\ Goto(c, "reply") /\ Answer(c, Ack) /\ UNCHANGED <<held, metaVars>>
          \/ /\ cache[i] # None /\ cache[i].kind # Dir
             /\ Die(c) /\ Answer(c, Panic) /\ UNCHANGED metaVars
          \/ /\ IsDir(cache, i)
             /\ cache' = RemoveDirEntryEffect(cache, i, request[c])
             /\ UNCHANGED <<path2inum, blocks, held>>
             /\ Goto(c, "reply") /\ Answer(c, Ack)
       /\ UNCHANGED inum /\ Unchanged

\* load_dir: path2inum.read().await and get(path).
LoadDirLockPaths(c) == pc[c] = "ld_paths" /\ LookupPath(c, "pr", "ld_cache", NoneReply)

\* load_dir: the cache read guard is a temporary of the match scrutinee and
\* lives through the match arm that writes the reply.
LoadDirLockCache(c) ==
    LET i == inum[c]
    IN /\ pc[c] = "ld_cache"
       /\ CanAcquire(c, "cr")
       /\ Answer(c, LoadDirReply(cache, i))
       /\ \/ cache[i] # None /\ cache[i].kind # Dir /\ Die(c)
          \/ ~(cache[i] # None /\ cache[i].kind # Dir)
             /\ Hold(c, {"pr", "cr"}) /\ Goto(c, "reply")
       /\ UNCHANGED <<metaVars, inum>> /\ Unchanged

\* get_attr: path2inum.read().await and get(path).
GetAttrLockPaths(c) == pc[c] = "ga_paths" /\ LookupPath(c, "pr", "ga_cache", NoneReply)

\* get_attr: `let cache` lives to the end of the if-let block: through the
\* reply when the node is found, dropped before get_attr_none otherwise.
GetAttrLockCache(c) ==
    LET i == inum[c]
    IN /\ pc[c] = "ga_cache"
       /\ CanAcquire(c, "cr")
       /\ Hold(c, IF cache[i] = None THEN {"pr"} ELSE {"pr", "cr"})
       /\ Goto(c, "reply") /\ Answer(c, GetAttrReply(cache, i))
       /\ UNCHANGED <<metaVars, inum>> /\ Unchanged

\* Variant of PushAttrLockPaths whose paths guard is a temporary dropped
\* right after the lookup (`let inum = *meta.path2inum.read().await.get(..)`).
PushAttrLockPathsShortGuard(c) ==
    /\ pc[c] = "pa_paths"
    /\ CanAcquire(c, "pr")
    /\ UNCHANGED held
    /\ LET i == path2inum[request[c].path]
       IN \/ /\ i = None
             /\ Goto(c, "reply") /\ Answer(c, Ack) /\ UNCHANGED inum
          \/ /\ i # None
             /\ Goto(c, "pa_cache") /\ UNCHANGED resp
             /\ inum' = [inum EXCEPT ![c] = i]
    /\ UNCHANGED metaVars /\ Unchanged

\* push_attr: path2inum.read().await and get(path).
PushAttrLockPaths(c) == pc[c] = "pa_paths" /\ LookupPath(c, "pr", "pa_cache", Ack)

\* push_attr: a temporary cache write guard over the attribute update.
PushAttrLockCache(c) ==
    LET i == inum[c]
    IN /\ pc[c] = "pa_cache"
       /\ CanAcquire(c, "cw")
       /\ cache' = IF cache[i] = None THEN cache ELSE PushAttrEffect(cache, i, request[c])
       /\ Goto(c, "reply") /\ Answer(c, Ack)
       /\ UNCHANGED <<path2inum, blocks, held, inum>> /\ Unchanged

\* remove: remove_node_local(...).await, which takes the metadata locks
\* itself; modelled as one step when no guard of a dispatch task is alive.
RemoveNode(c) ==
    LET e == RemoveNodeLocalEffect(path2inum, cache, request[c])
    IN /\ pc[c] = "rm"
       /\ NoGuards
       /\ path2inum' = e.p2i /\ cache' = e.ch /\ UNCHANGED blocks
       /\ Goto(c, "reply") /\ Answer(c, Ack)
       /\ UNCHANGED <<held, inum>> /\ Unchanged

\* The handlers without an await: the content-cache calls, get_inode_num
\* and a TurnOff that arrived over a remote connection (Ok(false), the
\* acceptor is not told).
SyncOp(c, op) == pc[c] = "op" /\ request[c].op = op

TurnOffRemote(c) ==
    /\ SyncOp(c, "TurnOff") /\ Answer(c, "turnoff") /\ Goto(c, "reply")
    /\ UNCHANGED <<metaVars, held, inum>> /\ Unchanged

Invalidate(c) ==
    /\ SyncOp(c, "Invalidate") /\ Answer(c, Ack) /\ Goto(c, "reply")
    /\ blocks' = blocks \ {request[c].block}
    /\ UNCHANGED <<path2inum, cache, held, inum>> /\ Unchanged

CheckAvailable(c) ==
    /\ SyncOp(c, "CheckAvailable") /\ Goto(c, "reply")
    /\ Answer(c, CheckAvailableReply(blocks, request[c].block))
    /\ UNCHANGED <<metaVars, held, inum>> /\ Unchanged

ReadBlock(c) ==
    /\ SyncOp(c, "Read") /\ Goto(c, "reply")
    /\ Answer(c, ReadReply(blocks, request[c].block))
    /\ UNCHANGED <<metaVars, held, inum>> /\ Unchanged

GetInodeNum(c) ==
    /\ SyncOp(c, "GetInodeNum") /\ Answer(c, CurInum) /\ Goto(c, "reply")
    /\ UNCHANGED <<metaVars, held, inum>> /\ Unchanged

\* Variant of Reply whose guards outlive a failed write (the task is gone
\* but the guards are never released).
ReplyLeakOnError(c) ==
    /\ pc[c] = "reply"
    /\ \/ Goto(c, "done") /\ Hold(c, {})
       \/ Goto(c, "aborted") /\ UNCHANGED held
    /\ UNCHANGED <<metaVars, inum, resp>> /\ Unchanged

\* tcp::write_message of the reply, then the handler returns and its
\* guards are dropped.  A failed write is an Err, and the task panics.
Reply(c) ==
    /\ pc[c] = "reply"
    /\ pc' \in {[pc EXCEPT ![c] = "done"], [pc EXCEPT ![c] = "aborted"]}
    /\ Hold(c, {})
    /\ UNCHANGED <<metaVars, inum, resp>> /\ Unchanged

Task(c) ==
  /\ FreeWorker
  /\ \/ ReadRequest(c) \/ Stall(c)
     \/ UpdateDirLockPaths(c) \/ UpdateDirLockCache(c)
     \/ RemoveDirEntryLockPaths(c) \/ RemoveDirEntryLockCache(c)
     \/ LoadDirLockPaths(c) \/ LoadDirLockCache(c)
     \/ GetAttrLockPaths(c) \/ GetAttrLockCache(c)
     \/ PushAttrLockPaths(c) \/ PushAttrLockCache(c)
     \/ RemoveNode(c)
     \/ TurnOffRemote(c) \/ Invalidate(c) \/ CheckAvailable(c)
     \/ ReadBlock(c) \/ GetInodeNum(c)
     \/ Reply(c)

\* Nothing is left to happen: every task is over, and the acceptor is gone
\* or blocked in accept() with nothing to accept and no owner to stop it.
Finished ==
    /\ \A c \in Conns : pc[c] \in {"idle", "queued", "done", "aborted", "stalled"}
    /\ acceptor = "running" => backlog = <<>>
    /\ owner \in {"dropped", "aborted"} \/ ~OwnerMayDrop
    /\ UNCHANGED vars

Next ==
    \/ Bind \/ AcceptRemote \/ AcceptLocal \/ AcceptError \/ Drop \/ Join
    \/ \E c \in Conns, r \in PeerRequests : PeerConnect(c, r)
    \/ \E b \in Blocks : Fill(b)
    \/ \E c \in Conns : Task(c)
    \/ Finished

\* The executor keeps polling a task whose guard is available, the acceptor
\* thread keeps accepting, and a started Drop keeps going.  Peers, local
\* reads and the owner's decision to drop are not obliged to happen.
Fairness ==
    /\ WF_vars(Bind) /\ WF_vars(AcceptRemote) /\ WF_vars(AcceptLocal)
    /\ WF_vars(Join)
    /\ \A c \in Conns : WF_vars(Task(c))

Spec == Init /\ [][Next]_vars /\ Fairness

-----------------------------------------------------------------------------
(* Properties.                                                            *)

TypeOK ==
    /\ path2inum \in [Paths -> Inos \cup {None}]
    /\ cache \in [Inos -> Node \cup {None}]
    /\ blocks \subseteq Blocks
    /\ nextIno \in RootIno + 1 .. MaxIno + 1
    /\ request \in [Conns -> Request \cup {None}]
    /\ pc \in [Conns -> {"idle", "queued", "read", "op", "rm", "reply", "done",
                         "aborted", "stalled"} \cup DOMAIN AwaitAt]
    /\ held \in [Conns -> SUBSET Modes]
    /\ inum \in [Conns -> Inos \cup {None}]
    /\ backlog \in Seq(Conns \cup {LocalConn})
    /\ acceptor \in {"binding", "running", "stopped", "bindfailed", "crashed"}
    /\ owner \in {"live", "joining", "dropped", "aborted"}

\* S3MetaData invariants (1) and (2): a path in path2inum names a cached
\* node whose full path is that path, every cached node is stored under its
\* own attr.ino, and every directory entry names a cached node of the
\* entry's kind whose path is the parent's path and the entry's name.
\* Checked under all interleavings of update_dir, remove_dir_entry,
\* push_attr and remove_node_local.
MetaConsistent ==
    /\ \A p \in Paths : path2inum[p] # None =>
          /\ cache[path2inum[p]] # None
          /\ cache[path2inum[p]].path = p
    /\ \A i \in Inos : cache[i] # None =>
          /\ cache[i].attr.ino = i
          /\ \A n \in Names : LET e == cache[i].entries[n] IN
               e # None => /\ cache[e.ino] # None
                           /\ cache[e.ino].kind = e.kind
                           /\ cache[e.ino].path = Append(cache[i].path, n)

\* A peer that lists a directory it reached by path (LoadDir) and then
\* asks for a listed child by path (GetFileAttr, PushFileAttr, or the
\* parent_path of UpdateDir) finds that child: every entry of a directory
\* that path2inum resolves is itself resolved, under the entry's inode
\* number, at the parent's path and the entry's name.  update_dir,
\* remove_dir_entry and remove_node_local must keep the two maps in step
\* under every interleaving.
ListedEntryResolves ==
    \A i \in Inos : cache[i] # None /\ path2inum[cache[i].path] = i =>
        \A n \in Names : cache[i].entries[n] # None =>
            path2inum[Append(cache[i].path, n)] = cache[i].entries[n].ino

\* Linearizability: with its guards and awaits, every handler has the
\* effect and the reply of running alone at one instant (MetaStore), its
\* decisive step.  A handler that looked a path up and acts on the inode
\* number later must still find it current.
PhaseOf == [c \in Conns |-> IF pc[c] = "idle" THEN "idle"
                            ELSE IF resp[c] = None THEN "pending" ELSE "applied"]
Abs == INSTANCE MetaStore WITH phase <- PhaseOf
ImplementsMetaStore == Abs!AbsSpec

\* Every request a task has read is eventually finished: answered or
\* abandoned by a panic, never stuck waiting for a guard (no lock cycle,
\* no writer starved by readers, no reader starved by a waiting writer, no
\* guard left behind by a task that failed).  A silent peer sends nothing
\* to finish.
TaskCompletes ==
    \A c \in Conns \ Silent : pc[c] = "read" ~> pc[c] \in {"done", "aborted"}

\* The in-band shutdown works (spec 8, scenario 6): once Drop has sent
\* TurnOff on the loopback connection, the acceptor thread unblocks from
\* accept() and ends, and join() returns, whatever peer connections are
\* queued ahead of it or are being served.  Drop then returns, or panics
\* when the thread panicked (a failed loopback read or reply); it never
\* hangs.
DropJoins == owner = "joining" ~> owner \in {"dropped", "aborted"}

\* Spec 5, "tasks may suspend only at transport reads/writes and at
\* metadata-store lock acquisition": a peer that connects and sends its
\* request is served, answered or failed, whatever the other peers do, as
\* long as the owner keeps the server.  Spec 4.F and 7 say the same of the
\* acceptor: a transport failure on a non-loopback connection "aborts
\* that connection's task; the acceptor is unaffected".
PeerServed ==
    \A c \in Conns \ Silent :
        pc[c] \in {"queued", "read"} ~> (pc[c] \in {"done", "aborted"} \/ owner # "live")

\* Spec 4.E / 9: "No handle may be held across a peer-reply write."
NoGuardAcrossReply == \A c \in Conns : pc[c] = "reply" => held[c] = {}

\* Spec 8, scenario 7: once RemoveDirEntry(parent, child) has removed the
\* entry, the child can no longer be resolved by path: a path that resolves
\* is listed, under its inode, in its parent's directory.
ResolvedPathListed ==
    \A p \in Paths \ {Root} : path2inum[p] # None =>
        LET pi == path2inum[Front(p)]
        IN  /\ pi # None /\ cache[pi] # None
            /\ cache[pi].entries[Last(p)] # None
            /\ cache[pi].entries[Last(p)].ino = path2inum[p]

\* Name n is listed in the directory that path p resolves to.
Listed(p, n) ==
    /\ path2inum[p] # None
    /\ cache[path2inum[p]] # None
    /\ cache[path2inum[p]].entries[n] # None

\* Spec 5 (cancellation): handlers are "idempotent-safe or additive-only at
\* the metadata level", and UpdateDir creates or attaches a child.  No
\* update_dir step takes a name out of the directory a path resolves to,
\* even when the child it attaches already exists (a replayed or a
\* concurrent UpdateDir).
UpdateDirAdditive ==
    [][\A c \in Conns : UpdateDirLockCache(c) =>
          \A p \in Paths, n \in Names : Listed(p, n) => Listed(p, n)']_vars

\* Spec 7, the owner's and the acceptor thread's lifetimes agree: a bind
\* failure is fatal to the owner ("construction errors are fatal"), and
\* once the owner's Drop has finished or failed the acceptor thread is not
\* running and never starts to ("Drop-safe"), so no listener serves peers
\* for a server that is gone.
OwnerTracksAcceptor ==
    /\ acceptor = "bindfailed" => owner = "aborted"
    /\ owner \in {"dropped", "aborted"} => acceptor \in {"stopped", "bindfailed", "crashed"}
=============================================================================
