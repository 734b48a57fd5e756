----------------------------- MODULE MetaGraph -----------------------------
(***************************************************************************)
(* The metadata graph that the peer sync server (src/async_fuse/src/memfs/ *)
(* dist/server.rs) mutates: S3MetaData's two maps                          *)
(*                                                                         *)
(*    path2inum : full path -> inode number                                *)
(*    cache     : inode number -> node (path, kind, attr, dir entries)     *)
(*                                                                         *)
(* and the content cache (GlobalCache) as the set of cached blocks.        *)
(* This module holds the data level only: the shape of the state, the      *)
(* requests a peer can send, and, for every handler, the effect its       *)
(* critical section has on the maps and the reply it builds.  The order   *)
(* of lock acquisitions and awaits is modelled in CacheServer; the atomic *)
(* promise in MetaStore.                                                   *)
(*                                                                         *)
(* A path is a sequence of names: the root is <<>> and the full path of a  *)
(* child is its parent's path with the child name appended, which is what *)
(* S3Node::new_child_node_of_parent builds from the parent node's path.    *)
(***************************************************************************)
EXTENDS Naturals, Sequences, SequencesExt

CONSTANTS
    Names,      \* child names (model values)
    MaxDepth,   \* longest path the model builds
    Dir, File,  \* node kinds (SerialFileAttr.kind / S3NodeData variant)
    Vals,       \* attribute contents other than the inode number
    MaxIno,     \* inode numbers are 1..MaxIno; 1 is the root (FUSE_ROOT_ID)
    Blocks,     \* content-cache keys (file_name, index)
    None        \* absence: Option::None, a missing map key

Kinds == {Dir, File}
Inos == 1..MaxIno
RootIno == 1
Paths == BoundedSeq(Names, MaxDepth)
Root == <<>>

\* SerialFileAttr / FileAttr, reduced to the inode number and the rest.
Attr == [ino : Inos, val : Vals]
\* DirEntry::new(child_ino, child_name, child_type); the name is the key.
DirEntry == [ino : Inos, kind : Kinds]
EmptyDir == [n \in Names |-> None]
Node == [path : Paths, kind : Kinds, attr : Attr,
         entries : [Names -> DirEntry \cup {None}]]

RootNode(v) == [path |-> Root, kind |-> Dir,
                attr |-> [ino |-> RootIno, val |-> v], entries |-> EmptyDir]

(***************************************************************************)
(* Peer requests (DistRequest) with one record shape for all variants;    *)
(* fields a variant does not carry are None.  `path` is the path argument  *)
(* of LoadDir, GetFileAttr and PushFileAttr and the parent_path of         *)
(* UpdateDir and RemoveDirEntry; `parent` is the parent inode of Remove.   *)
(***************************************************************************)
Ops == {"TurnOff", "Invalidate", "CheckAvailable", "Read", "LoadDir",
        "UpdateDir", "RemoveDirEntry", "GetFileAttr", "PushFileAttr",
        "Remove", "GetInodeNum"}
Request == [op : Ops, path : Paths \cup {None}, name : Names \cup {None},
            kind : Kinds \cup {None}, val : Vals \cup {None},
            ino : Nat \cup {None}, parent : Inos \cup {None},
            block : Blocks \cup {None}]
Req(op) == [op |-> op, path |-> None, name |-> None, kind |-> None,
            val |-> None, ino |-> None, parent |-> None, block |-> None]

\* Replies.  "panic" stands for a handler that panics after it has taken
\* its locks: get_dir_data / get_dir_data_mut on a node that is not a
\* directory.  The task dies, no reply is written, the guards are dropped.
Ack == "ack"
NoneReply == "none"   \* load_dir_none / get_attr_none
Panic == "panic"

IsDir(ch, i) == ch[i] # None /\ ch[i].kind = Dir

\* Variant of UpdateDirEffect without `cache.insert(child_ino, child_node)`:
\* the child is linked into its parent and path2inum but never cached.
UpdateDirEffectNoCacheInsert(p2i, ch, pinum, r) ==
    LET cpath == Append(ch[pinum].path, r.name)
    IN  [p2i |-> [p2i EXCEPT ![cpath] = r.ino],
         ch  |-> [ch EXCEPT ![pinum].entries[r.name] = [ino |-> r.ino, kind |-> r.kind]]]

\* Variant of UpdateDirEffect without `path2inum.insert(child_path, ..)`:
\* the child is listed and cached but cannot be looked up by path.
UpdateDirEffectNoPathInsert(p2i, ch, pinum, r) ==
    LET child == [path |-> Append(ch[pinum].path, r.name), kind |-> r.kind,
                  attr |-> [ino |-> r.ino, val |-> r.val], entries |-> EmptyDir]
    IN  [p2i |-> p2i,
         ch  |-> [ch EXCEPT ![pinum].entries[r.name] = [ino |-> r.ino, kind |-> r.kind],
                            ![r.ino] = child]]

(***************************************************************************)
(* update_dir, lines 267-285, once path2inum.get(parent_path) returned     *)
(* pinum: if the parent node is cached, build the child node, insert its   *)
(* DirEntry into the parent's directory, then insert (child path -> ino)   *)
(* and (ino -> child node).  The child's inode number comes from the      *)
(* peer's child_attr.                                                      *)
(***************************************************************************)
UpdateDirEffect(p2i, ch, pinum, r) ==
    LET child == [path |-> Append(ch[pinum].path, r.name), kind |-> r.kind,
                  attr |-> [ino |-> r.ino, val |-> r.val], entries |-> EmptyDir]
    IN  [p2i |-> [p2i EXCEPT ![child.path] = r.ino],
         ch  |-> [ch EXCEPT ![pinum].entries[r.name] = [ino |-> r.ino, kind |-> r.kind],
                            ![r.ino] = child]]

\* remove_dir_entry, line 300: drop the named entry from the parent's
\* directory map.  path2inum and the child node are left alone.
RemoveDirEntryEffect(ch, pinum, r) ==
    [ch EXCEPT ![pinum].entries[r.name] = None]

\* Variant of PushAttrEffect without `new_attr.ino = old_attr.ino`: the
\* peer's attribute, inode number included, replaces the local one.
PushAttrEffectPeerIno(ch, inum, r) ==
    [ch EXCEPT ![inum].attr = [ino |-> r.ino, val |-> r.val]]

\* push_attr, lines 349-353: replace the attributes with the peer's, keeping
\* the old inode number (new_attr.ino = old_attr.ino).  r.ino is the inode
\* number of the peer's node, which need not be this node's.
PushAttrEffect(ch, inum, r) ==
    [ch EXCEPT ![inum].attr = [ino |-> ch[inum].attr.ino, val |-> r.val]]

(***************************************************************************)
(* S3MetaData::remove_node_local(parent, child_name, child_type), which    *)
(* remove (lines 377-383) calls; that code is not part of this repository *)
(* and is modelled from the spec: detach the named child from its parent  *)
(* and destroy it (its path mapping and its node).  A missing parent or   *)
(* child makes it a no-op; its Result is discarded by the caller.          *)
(***************************************************************************)
RemoveNodeLocalEffect(p2i, ch, r) ==
    IF ch[r.parent] = None \/ ch[r.parent].entries[r.name] = None
    THEN [p2i |-> p2i, ch |-> ch]
    ELSE LET ci == ch[r.parent].entries[r.name].ino
             cp == IF ch[ci] = None THEN None ELSE ch[ci].path
         IN  [p2i |-> IF cp = None THEN p2i ELSE [p2i EXCEPT ![cp] = None],
              ch  |-> [ch EXCEPT ![r.parent].entries[r.name] = None,
                                 ![ci] = None]]

\* The replies of the read-only handlers once both lookups have been done.
\* load_dir lines 245-252: the node's dir data (panics for a non-directory).
LoadDirReply(ch, inum) ==
    IF ch[inum] = None THEN NoneReply
    ELSE IF ch[inum].kind # Dir THEN Panic
    ELSE ch[inum].entries

\* get_attr lines 313-335: the node's attributes or get_attr_none.
GetAttrReply(ch, inum) ==
    IF ch[inum] = None THEN NoneReply ELSE ch[inum].attr

\* GlobalCache, interior-synchronised; check_available answers whether the
\* block is cached (lines 220-228), read the cached bytes or nothing (233).
CheckAvailableReply(blk, b) == b \in blk
ReadReply(blk, b) == IF b \in blk THEN "data" ELSE "empty"
=============================================================================
