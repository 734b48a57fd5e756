# TLA+ models of the datenlord peer sync server and FUSE request decoder

This directory holds TLA+ models of two parts of the repository:

- the distributed-cache server in `src/async_fuse/src/memfs/dist/server.rs`;
- the FUSE request decoder in `src/fuse_ll/src/fuse/ll_request.rs`.

TLC checks the models. `PROJECT.json` lists the components, the runs, the mutants and the source lines each definition models. It also lists the findings and the hazards of the code.

## 1. The system

### 1.1 Components

**A. Argument cursor** (`ArgumentIterator`, in `argument.rs`)
- Not in this repository's sources.
- A forward-only cursor over the request buffer, with `fetch`, `fetch_str` and `fetch_all` (spec 4.A).

**B. ABI layout**
- Fixed kernel structs and the opcode table.
- Pure layout with no state.

**C. Request decoder** (`Request::try_from`, `Operation::parse`, ll_request.rs 252-386)
- Checks the header, checks `data_len >= header.len`, then parses the opcode's arguments with the cursor.
- It is a pure function of the byte buffer.

**D. Peer wire codec** (`tcp`, `request`, `response`)
- Not in this repository's sources.
- Length-prefixed frames.

**E. Metadata store** (`S3MetaData`)
- Consumed by the server, not part of this repository's sources.
- Two async `RwLock`s:
  - `path2inum`, full path → inode number;
  - `cache`, inode number → node (path, kind, attributes, directory entries).
- Also `remove_node_local`, `rename_local` and `cur_inum`.

**F. Peer sync server** (`CacheServer`, server.rs)
- An acceptor OS thread binds and loops on `accept()`:
  - A connection from the bind IP is the owner's shutdown connection (the loopback peer of spec 4.F and the glossary). It is served on the acceptor thread; a `TurnOff` makes the thread return, anything else, or a failed read or reply, panics it.
  - Any other connection goes to a detached smol task running `dispatch`.
- A `dispatch` task reads one request, runs one handler and writes one reply.
  - The metadata handlers await the `path2inum` guard and then the `cache` guard.
  - The content-cache handlers (`invalidate`, `check_available`, `read`) call the interior-synchronised `GlobalCache`.
- `Drop` connects to the server's own address, sends `TurnOff` and joins the thread.

**G. Error model**
- Kernel decode errors are returned (`RequestError`).
- Errors of a peer task panic that task.
- Every `RequestError` is a result of `TryFrom`.
- The peer-side failures are panic actions of `CacheServer`: a task's read or reply-write error, `dispatch`'s `Err` arm, `get_dir_data` on a file, `accept()` errors, the bind error, the loopback read and turnoff-reply errors (`AcceptLocal`), and Drop's connect, TurnOff-write and join errors (`Drop`, `Join`).
- Left out: a loopback request that decodes to something other than `TurnOff` (only the owner connects from the bind IP, and it sends `TurnOff`; a broken loopback read has the same effect, a panic of the acceptor), the `ip.parse()` panic of `new()` before any state exists, and the `Display` impl, which only formats.

### 1.2 How they interact

- Peers interact only through the two maps.
- Each handler is a sequence of steps, with a lock await or the reply write between two steps. A task can be suspended only at an await. Between two awaits, other tasks may run their own steps.
- Guards live as Rust scopes make them live:
  - `let` guards live to the end of the function, through the reply write.
  - Temporaries in an `if let` or `match` scrutinee live to the end of that statement.
- `get_dir_data(_mut)` panics when the node is not a directory. The task unwinds and drops its guards.

### 1.3 Hard behaviours and the properties they need

- **Interleavings** of handlers of different peers at every guard await. They need:
  - the store invariants of spec 3 (`MetaConsistent`);
  - a listed child found again by path: LoadDir, then GetFileAttr of a name it listed (`ListedEntryResolves`);
  - linearizability of every handler (`ImplementsMetaStore`).
- **An inode number looked up and used after another await.** It must still be current (`ImplementsMetaStore`).
- **Lock cycles** on the two RwLocks, readers blocked behind a waiting writer, and a panic while guards are held (`TaskCompletes`).
- **Guards alive across the blocking reply write** (`NoGuardAcrossReply`, spec 4.E).
- **The in-band shutdown** through connections queued at the listener, with loopback reads and writes that may fail (`DropJoins`).
- **Sequences of peer calls the spec constrains:**
  - RemoveDirEntry, then path lookup (`ResolvedPathListed`, spec 8.7);
  - a bind failure, then the owner, and a Drop before the spawned thread has bound (`OwnerTracksAcceptor`, spec 7);
  - an UpdateDir of a child that already exists, replayed or concurrent (`UpdateDirAdditive`).
- **One connection's failure stopping other peers' service** (`PeerServed`):
  - an `accept()` error ends the acceptor loop (run `accept_error`);
  - a peer that connects and never sends pins an executor thread in the blocking `std::net` read of `dispatch` (run `silent_peer`).
- **Decoder**: arguments must never be read past `header.len`, nor decoded from a `header.len` shorter than the header (`OkWithinHeaderLen`); every cut of a packet must be refused with the right error (`TruncatedPacketRefused`).

## 2. The modules

| module | models | state and actions |
|---|---|---|
| `MetaGraph` | data level of server.rs | Constants and sets for paths, nodes and requests. Each handler's critical-section effect and reply is an operator: `UpdateDirEffect`, `RemoveDirEntryEffect`, `PushAttrEffect`, `RemoveNodeLocalEffect`, `LoadDirReply`, `GetAttrReply`, ... |
| `MetaStore` | the abstract promise | Each request takes effect atomically at one step (`Apply`), with the reply of that instant. Requests of different connections are applied in any order. |
| `CacheServer` | server.rs in full | Variables: `path2inum`, `cache`, `blocks`, and per connection `request`, `pc`, `held` (live guards), `inum` and `resp`. Also the accept `backlog`, `acceptor` and `owner`. There is one action per await step of every handler (`UpdateDirLockPaths`, `UpdateDirLockCache`, ...), plus `ReadRequest`, `Reply`, `Bind`, `AcceptRemote`, `AcceptLocal` (the owner's TurnOff answered, or, when the constant `LoopbackMayFail` allows it, a panic on a failed loopback read or reply), `AcceptError` (enabled by the constant `AcceptMayFail`), `Drop` (whose TurnOff write may fail under `LoopbackMayFail`) and `Join`. The constant `Silent` names peers that connect and never send: their task's blocking read holds an executor thread for good (`Stall`), and every task step needs one of the `Workers` threads free (`FreeWorker`). `Abs == INSTANCE MetaStore WITH phase <- PhaseOf` is the refinement mapping. |
| `Decoder` | ll_request.rs `try_from`, `parse`, `enum Operation` | Pure operators:<br>- `TryFrom`, which follows the code check by check;<br>- `HeaderLen` / `HeaderOpcode`, the header fields read in the host byte order (`Num`, `Digits`);<br>- `Variant`, the field names of each enum variant, and `CallFor`, the cursor call each field's type asks for;<br>- `Parse` / `ParseFields`, the `?` chain of cursor calls, returning the variant's named fields;<br>- the cursor `Fetch`, `FetchStr` and `FetchAll`, modelled from spec 4.A.<br>Constants: header size, u32 width, host endianness, argument struct size per variant.<br>Variables: `buf`, the packet, and `result`. The single step `Decode` runs `try_from`. |
| `MCDecoder` | model values | Every size shrunk to one unit, for the exhaustive runs. |
| `DecoderVectors` | the unit tests of ll_request.rs | `Decoder` instantiated with the real layout (40-byte header, `fuse_init_in` 16, `fuse_mknod_in` 8, `fuse_setattr_in` 88 bytes). The test packets `INIT_REQUEST`, `MKNOD_REQUEST` (both byte orders) and the setattr packet, and the accessors `Unique`, `NodeId`, `Uid`, `Gid`, `Pid`. Variables: `pkt`, the test packet, and `buf`, any prefix of it. |
| `MCCacheServer` | model values | The requests peers may send: `MetaRequests`, `PlainRequests`, and `LifecycleRequests` (a few of each, for the liveness run). |

How the code maps onto the model:

- **Handler steps.** An action's guard is the await it models, with `CanAcquire` for the RwLock. Its branches are the code's `if let` / `match` arms.
- **`resp[c]`.** It is set at the step where the handler decides its reply. That is the linearization point.
- **`Reply`.**
  - It writes the reply and drops every guard.
  - A failed write is an `Err` that panics the task, so the task is `aborted`.
- **`remove`.** It calls `remove_node_local`, which takes the metadata locks itself. It is modelled as one step that runs when no guard is alive.
- **The RwLock (`CanAcquire`).**
  - A write guard is granted when no guard of that lock is alive.
  - A read guard is granted when no write guard of that lock is alive.
  - With `WriterPriority`, a read guard is also refused while another task waits for the write guard, as `async-lock`'s `RwLock` does. The lock type comes with `S3MetaData`, outside the repository's sources.
- **Peers.** Peers connect while the acceptor runs (`PeerConnect`), one request per connection. A new child of `UpdateDir` gets the next cluster inode number, bounded by `MaxIno`.

## 3. Runs

**Exhaustive decoder runs** (module `MCDecoder`; MCDecoder.cfg, MCDecodeHeaderLen.cfg).

- Buffers are sequences of abstract units of length up to 7:
  - the header is 2 units: `header.len` and `opcode`;
  - a fixed argument struct is 1 unit;
  - body units are NUL or non-NUL.
- The opcodes {1, 3, 6, 8, 12, 16, 21, 26} cover every argument shape of `parse`:
  - none;
  - `str`;
  - `arg`;
  - `str str`;
  - `arg str`;
  - `arg str str`;
  - `arg all`;
  - `arg str all`.
- Opcode 7 is unknown.
- Every length field 0..7 is enumerated, so the model reaches `header.len` below, equal to and above the buffer length.

| run | checks | result |
|---|---|---|
| decode | TypeOK | passes, 9,090 states |
| decode_header_len | OkWithinHeaderLen | violated |

`TypeOK` says every result is a well-formed `Ok` or `RequestError` of a known variant, whose fields start after the header.

**Test-packet runs** (module `DecoderVectors`).

- The packets are the byte arrays of the unit tests, in the byte order of the host the run is built for.
- The model hands `try_from` every prefix of every packet: 0 to 56 bytes of INIT and MKNOD, 0 to 168 of setattr. The tests try two of these cuts.
- The header fields `unique` and `nodeid` are u64, beyond TLC's integers. The accessors therefore return a field's base-256 digits, most significant first; small fields are compared as numbers.

| run | cfg | checks | result |
|---|---|---|---|
| decode_vectors | MCDecoderVectors.cfg (little-endian) | TestPacketsDecode, TruncatedPacketRefused | passes, 566 states |
| decode_vectors_be | MCDecoderVectorsBE.cfg (big-endian) | TestPacketsDecode | violated |

- `TestPacketsDecode`: each whole packet decodes to the header values and fields the tests `init` and `mknod` assert. For `setattr`, whose asserts are commented out, it checks what `unwrap()` and `debug_attr` demand: `Ok`, and a `SetAttr` operation with its whole argument struct (`SetAttrAsserts`, `DebugAttr`).
- The setattr packet has a single copy, as in the test, on both byte orders: the test is not gated on `target_endian`.
- `TruncatedPacketRefused`: every cut packet gets `ShortReadHeader(n)` inside the header and `ShortRead(n, header.len)` after it, never `InsufficientData` or a decoded request.

**Server runs.** All server runs use the names `{a}`, paths of depth ≤ 2, two attribute values and `MaxIno = 4`.

| run | cfg | conns | checks | result |
|---|---|---|---|---|
| meta_safety | MCMetaSafety.cfg | 3 | TypeOK, MetaConsistent, ListedEntryResolves, ImplementsMetaStore | passes, about 1.4M states, 75 s |
| lifecycle | MCLifecycle.cfg | 3 (`LifecycleRequests`), owner may drop, loopback I/O and accept() may fail, c3 silent, 2 executor threads | TaskCompletes, DropJoins | passes, about 0.8M states, 2 min 15 s |
| reply_guard | MCReplyGuard.cfg | 2 | NoGuardAcrossReply | violated |
| removed_entry | MCRemovedEntry.cfg | 2 | ResolvedPathListed | violated |
| owner_lifecycle | MCOwnerLifecycle.cfg | 1, owner may drop | OwnerTracksAcceptor | violated |
| accept_error | MCAcceptError.cfg | 3, plain requests, accept() may fail | PeerServed | violated |
| silent_peer | MCSilentPeer.cfg | 3, plain requests, c2 silent, 1 executor thread | PeerServed | violated |
| update_dir_replace | MCUpdateDirReplace.cfg | 3, UpdateDir requests only | UpdateDirAdditive | violated |

**Why the bounds are enough.**

- Three connections let a lookup, a conflicting mutation and a replacing `UpdateDir` interleave. That is the shortest race that makes a stale inode number matter.
- Depth 2 gives a directory under the root with a child of its own.
- The requests target the root, `/a` and `/a/a` with both kinds. This reaches:
  - `UpdateDir` under a file, which panics;
  - replacing an existing child;
  - `Remove` of a directory that still has entries.
- `Workers` bounds the executor's threads. With `W` threads, `W` silent peers stop every other task, so one thread and one silent peer show the case (`silent_peer`), and two threads with one silent peer show the other tasks still finishing (`lifecycle`). In the runs with `Silent = {}` the bound never binds.
- The liveness run has two peers that send requests and a silent third. Its requests are one of each guard pattern: `UpdateDir` (both write guards), `LoadDir` and `GetFileAttr` (both read guards), `TurnOff` and `Read`. With every metadata request it takes over 15 minutes.
- Each violation run switches on one cause only, so its trace shows that cause.

**Fairness.**

- There is weak fairness on every task step and on `Bind`, `AcceptRemote`, `AcceptLocal` and `Join`. The smol executor polls a task whose awaited guard is free, and the acceptor thread loops on `accept()`.
- Peers, local reads (`Fill`), the owner's decision to drop and `accept()` errors are not obliged to happen.
- The fairness of a task step holds only while an executor thread is free (`FreeWorker`): a thread blocked in a silent peer's read runs nothing else.
- There is no fairness between tasks that wait for the same guard. Each connection carries one request, so every waiter is served in the runs once the holders finish. Starvation by an endless stream of reconnecting peers depends on the `RwLock`'s own fairness, which is outside the repository, and is not checked.

**Deadlock.**

- `silent_peer` turns deadlock checking off. With its one executor thread blocked in a silent peer's read, no task step is enabled, and the server really stays in that state.
- The other runs check deadlock, with the `Finished` state as the only allowed stop (the acceptor in `accept()` with nothing to accept, or gone).

**Mutants.** Each property of a passing run breaks under a plausible bug:

| property | mutant |
|---|---|
| TypeOK | `PushAttrEffectPeerIno`: push_attr forgets `new_attr.ino = old_attr.ino` |
| MetaConsistent | `UpdateDirEffectNoCacheInsert`: update_dir forgets `cache.insert` of the child |
| ListedEntryResolves | `UpdateDirEffectNoPathInsert`: update_dir forgets `path2inum.insert` of the child |
| ImplementsMetaStore | `PushAttrLockPathsShortGuard`: the path2inum guard is a temporary dropped after the lookup |
| TaskCompletes | `ReplyLeakOnError`: guards survive a failed reply |
| DropJoins | `AcceptLocalAsRemote`: the loopback test is missing |
| Decoder TypeOK | `ParseFromHeader`: the argument cursor starts one unit early |
| TestPacketsDecode | `ArgsOfNameFirst`: parse fetches the name before the struct |
| TruncatedPacketRefused | `TryFromRemainingLen`: `ShortRead` measures the shadowing cursor instead of `data_len` |

## 4. Findings

1. **The reply write happens under the metadata guards.**
   - `load_dir`, `update_dir`, `remove_dir_entry`, `get_attr` and `push_attr` hold the `path2inum` guard during `tcp::write_message`.
   - `load_dir` and `get_attr` also hold the cache read guard.
   - Spec 4.E and 9 forbid this.
2. **`remove_dir_entry` leaves `path2inum` and the child node in place.** The removed child still resolves by path, against spec 8.7.
3. **A bind failure panics only the acceptor thread.** `new()` has already returned, so the failure is not fatal to the owner, against spec 7.

4. **The decoder reads past `header.len`.** `Operation::parse` runs over a cursor of the whole buffer, not of `b[0..header.len]`. A packet longer than its `header.len` yields fields past it, against spec 4.C.
5. **The decoder accepts a `header.len` shorter than the header.** `header.len` is never compared with the header size, so a GETATTR with `header.len = 0` decodes, against spec 8.
6. **The big-endian test packets carry a wrong `unique`.** `INIT_REQUEST` and `MKNOD_REQUEST` for big-endian targets (ll_request.rs 436, 457) encode `de ad be ef ba ad d0 0d`. The tests assert `0xdead_beef_baad_f00d`, so `init` and `mknod` fail on a big-endian host. The little-endian copies are right.
7. **An `accept()` error kills the acceptor** (server.rs 122; run `accept_error`). The thread panics and drops the listener, so a queued peer, and every later one, is never served. Spec 4.F says a transport failure on a non-loopback connection leaves the acceptor unaffected, and spec 7 that per-connection errors terminate only that connection.
8. **UpdateDir replaces an existing child** (server.rs 284; run `update_dir_replace`). A replayed or concurrent UpdateDir of an existing directory path installs a node with an empty directory and rebinds the path, so the names under it vanish. Spec 5 (cancellation) says handlers are idempotent-safe or additive-only at the metadata level.
9. **A silent peer pins an executor thread** (server.rs 141; run `silent_peer`). Spec 5 says tasks suspend at transport reads and writes. `dispatch` runs in a smol task but reads with `tcp::read_message` on a `std::net::TcpStream`, which blocks the thread. A peer that connects and never sends keeps that thread; with one executor thread, another peer's request, already read, is never handled.

Two more ways to break the checked properties are listed as hazards in `PROJECT.json`; the runs do not print their traces, because TLC stops at the first violation:

- Drop can race the bind (server.rs 39): `new()` returns before the thread binds, a Drop in that window panics on the refused connect, and the thread binds afterwards with no owner. It violates `OwnerTracksAcceptor`, whose run prints the bind failure (finding 3).
- The setattr test is not gated on `target_endian` (ll_request.rs 617), but its packet is a little-endian capture: on a big-endian host `try_from` returns `UnknownOperation` and `unwrap()` panics. It violates `TestPacketsDecode`, whose big-endian run prints finding 6. On a little-endian Linux host the packet decodes, but it is 168 bytes, while Linux's header and 88-byte `fuse_setattr_in` end at byte 128: the packet has the size of the macOS layout, and `try_from` ignores the last 40 bytes.

A peer from another process on the server's own host would be taken for the owner: the shutdown connection is recognised by source IP. The spec defines the loopback peer that way (4.F, glossary), so this is by design and is not checked.

## 5. Not modelled yet, and the plan

1. **Decoder extensions.**
   - The Write data bound (spec 9, open question). `data` is the whole tail, whatever `write_in.size` says.
   - The cursor's alignment requirement.
   - Real struct sizes beyond the three variants the tests exercise.
   - The `Display` impls, which only format.
2. **Rename.** The handler only awaits `rename_local` and replies. `rename_local` is outside this repository's sources, and the spec gives its effect only as "per rename semantics", so a model of it would be invented. It would also need two child names, which the three-connection safety run cannot afford.
3. **Peer inode collisions** in `UpdateDir`, where two peers choose the same inode number. The numbers come from the cluster's allocation, outside this file, so the model hands out fresh ones. A child path that already exists is covered by `UpdateDirAdditive`.
4. **`cur_inum` itself.** The counter lives in `S3MetaData`, outside this repository's sources. The spec types it u32 (`cur_inode_number() → u32`), and `get_inode_num` writes it with `write_u32`, so the handler truncates nothing. The model answers a constant.

5. **A peer that stops reading its reply.** `write_message` blocks the thread too, and `load_dir` and `get_attr` write with guards alive. A large reply to such a peer would pin a thread and the guards together. Whether a write blocks depends on the reply's size against the socket buffers, which the model does not have. Finding 1 (`NoGuardAcrossReply`) and finding 9 cover the two halves.

The peer wire codec and the ABI layout hold no state and are not in this repository's sources, so they are not modelled.
