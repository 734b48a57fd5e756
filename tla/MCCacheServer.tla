--------------------------- MODULE MCCacheServer ---------------------------
(* CacheServer with one child name, paths of depth two, three peer       *)
(* connections and every kind of peer request over those paths.           *)
EXTENDS CacheServer

CONSTANTS a, v1, v2, b1

\* The inode number a peer's pushed attributes carry: one this node never
\* allocated.
PeerIno == MaxIno + 5

\* A request of the given kind on a path.
On(op, p) == [Req(op) EXCEPT !.path = p]

\* The metadata requests: the ones that take the path2inum / cache guards.
MetaRequests ==
    {[On("UpdateDir", p) EXCEPT !.name = a, !.kind = k, !.val = v1] :
        p \in {<<>>, <<a>>}, k \in {Dir, File}}
    \cup {[On("RemoveDirEntry", p) EXCEPT !.name = a] : p \in {<<>>, <<a>>}}
    \cup {[On("PushFileAttr", p) EXCEPT !.val = v2, !.ino = PeerIno] : p \in {<<a>>, <<a, a>>}}
    \cup {On("GetFileAttr", p) : p \in {<<a>>, <<a, a>>}}
    \cup {On("LoadDir", p) : p \in {<<>>, <<a>>}}
    \cup {[Req("Remove") EXCEPT !.parent = i, !.name = a] : i \in {1, 2}}

\* The UpdateDir requests alone.
UpdateDirRequests == {r \in MetaRequests : r.op = "UpdateDir"}

\* The requests served without a metadata guard.
PlainRequests ==
    {[Req(op) EXCEPT !.block = b1] : op \in {"Invalidate", "CheckAvailable", "Read"}}
    \cup {Req("TurnOff"), Req("GetInodeNum")}

AllRequests == MetaRequests \cup PlainRequests

\* Requests that take each lock in each mode (UpdateDir the write guards,
\* LoadDir and GetFileAttr the read guards), and the plain TurnOff and Read.
LifecycleRequests ==
    {r \in MetaRequests : r.path = <<>> /\ r.op \in {"UpdateDir", "LoadDir"}
                         /\ (r.op = "UpdateDir" => r.kind = Dir)}
    \cup {On("GetFileAttr", <<a>>)}
    \cup {r \in PlainRequests : r.op \in {"TurnOff", "Read"}}
=============================================================================
