---------------------------- MODULE DecoderVectors ----------------------------
(***************************************************************************)
(* The decoder over the real byte layout (Linux, ABI 7.8: a 40-byte       *)
(* fuse_in_header with u32 len/opcode/uid/gid/pid and u64 unique/nodeid) *)
(* and the packets of the unit tests of ll_request.rs.  A packet reaches *)
(* try_from whole or cut short at any byte: the tests try two of these   *)
(* cuts, the model tries all of them.                                     *)
(***************************************************************************)
EXTENDS Naturals, Sequences, SequencesExt

CONSTANT HostEndian   \* target_endian the tests are built for

VARIABLES
    pkt,     \* the test packet the kernel meant to send
    buf,     \* the bytes try_from is handed: a prefix of pkt
    result   \* <<>> until decoded, then the Outcome of try_from

\* size_of the argument structs the test variants fetch (abi.rs, Linux).
AbiArgSize(op) ==
    CASE op = "Init" -> 16    \* fuse_init_in: major, minor, max_readahead, flags
      [] op = "MkNod" -> 8    \* fuse_mknod_in: mode, rdev
      [] op = "SetAttr" -> 88 \* fuse_setattr_in
      [] OTHER -> 8

D == INSTANCE Decoder WITH HeaderSize <- 40, FieldWidth <- 4,
                           ArgSize <- AbiArgSize, MaxLen <- 168, Codes <- {}

\* Request::unique, nodeid, uid, gid, pid: the other fuse_in_header fields,
\* as their digits (a u64 exceeds TLC's integers).
Unique(b) == D!Digits(SubSeq(b, 9, 16))
NodeId(b) == D!Digits(SubSeq(b, 17, 24))
Uid(b) == D!Digits(SubSeq(b, 25, 28))
Gid(b) == D!Digits(SubSeq(b, 29, 32))
Pid(b) == D!Digits(SubSeq(b, 33, 36))

\* The header both test packets share after len and opcode.
TestHeaderTail ==
    IF HostEndian = "little"
    THEN <<\h0d, \hf0, \had, \hba, \hef, \hbe, \had, \hde,
           \h88, \h77, \h66, \h55, \h44, \h33, \h22, \h11,
           \h0d, \hd0, \h01, \hc0, \hfe, \hca, \h01, \hc0,
           \h5e, \hba, \hde, \hc0, 0, 0, 0, 0>>
    ELSE <<\hde, \had, \hbe, \hef, \hba, \had, \hd0, \h0d,
           \h11, \h22, \h33, \h44, \h55, \h66, \h77, \h88,
           \hc0, \h01, \hd0, \h0d, \hc0, \h01, \hca, \hfe,
           \hc0, \hde, \hba, \h5e, 0, 0, 0, 0>>

\* A u32 as the host lays it out.
U32(n) ==
    LET le == <<n % 256, (n \div 256) % 256, (n \div 65536) % 256, n \div 16777216>>
    IN  IF HostEndian = "little" THEN le ELSE Reverse(le)

\* INIT_REQUEST: len 56, opcode 26, fuse_init_in{7, 8, 4096, 0}.
INIT_REQUEST ==
    U32(56) \o U32(26) \o TestHeaderTail \o U32(7) \o U32(8) \o U32(4096) \o U32(0)

\* MKNOD_REQUEST: len 56, opcode 8, fuse_mknod_in{0o644, 0}, "foo.txt\0".
MKNOD_REQUEST ==
    U32(56) \o U32(8) \o TestHeaderTail \o U32(420) \o U32(0)
    \o <<\h66, \h6f, \h6f, \h2e, \h74, \h78, \h74, 0>>

\* The live packet of the setattr test, captured on a little-endian host.
SETATTR_REQUEST ==
    <<168, 0, 0, 0, 4, 0, 0, 0, 3, 0, 0, 0, 0, 0, 0, 0, 9, 0, 0, 0, 0, 0, 0, 0, 246, 1,
      0, 0, 20, 0, 0, 0, 200, 92, 0, 0, 168, 225, 255, 21, 0, 0, 0, 16, 160, 225, 255,
      21, 2, 130, 0, 0, 0, 0, 0, 0, 1, 0, 0, 0, 0, 0, 0, 0, 58, 8, 0, 0, 0, 0, 0, 0, 246,
      1, 0, 0, 20, 0, 0, 0, 164, 129, 0, 0, 0, 0, 0, 0, 0, 0, 0, 0, 5, 0, 72, 0, 4, 2, 8,
      0, 10, 34, 8, 0, 8, 32, 40, 0, 5, 0, 8, 0, 13, 40, 8, 0, 108, 111, 103, 46, 116,
      120, 116, 0, 150, 179, 82, 2, 1, 0, 0, 0, 40, 126, 2, 0, 0, 0, 0, 0, 0, 16, 3, 0,
      128, 79, 218, 131, 255, 255, 255, 255, 0, 0, 0, 0, 188, 116, 5, 0, 0, 0, 0, 0, 126,
      150, 20, 0>>

\* The tests decode their packets on any host; SETATTR_REQUEST has one copy.
TestPackets == {INIT_REQUEST, MKNOD_REQUEST, SETATTR_REQUEST}

Init ==
    /\ pkt \in TestPackets
    /\ \E n \in 0..Len(pkt) : buf = SubSeq(pkt, 1, n)
    /\ result = <<>>

Decode == D!Decode /\ UNCHANGED pkt

Spec == Init /\ [][Decode]_<<pkt, buf, result>>
-----------------------------------------------------------------------------
\* The bytes of the named field of a decoded request.
Field(r, name) ==
    LET s == CHOOSE f \in Range(r.fields) : f[1] = name
    IN  SubSeq(buf, s[2][1], s[2][1] + s[2][2] - 1)

\* The field values the init and mknod tests assert on a whole packet.
HeaderAsserts(p) ==
    [unique |-> <<\hde, \had, \hbe, \hef, \hba, \had, \hf0, \h0d>>,
     nodeid |-> <<\h11, \h22, \h33, \h44, \h55, \h66, \h77, \h88>>,
     uid |-> <<\hc0, \h01, \hd0, \h0d>>, gid |-> <<\hc0, \h01, \hca, \hfe>>,
     pid |-> <<\hc0, \hde, \hba, \h5e>>]
    @@ (IF p = INIT_REQUEST
        THEN [op |-> "Init", x |-> 56, major |-> 7, minor |-> 8, readahead |-> 4096]
        ELSE [op |-> "MkNod", x |-> 56, mode |-> 420,
              name |-> <<\h66, \h6f, \h6f, \h2e, \h74, \h78, \h74>>])

\* tests::setattr asserts nothing but what unwrap and debug_attr demand:
\* try_from returns Ok, and the operation is SetAttr with its whole
\* fuse_setattr_in (debug_attr panics on any other operation).
SetAttrAsserts == [op |-> "SetAttr", arg |-> AbiArgSize("SetAttr")]

Expected(p) == IF p = SETATTR_REQUEST THEN SetAttrAsserts ELSE HeaderAsserts(p)

\* The k-th u32 of an argument struct (none if the slice is shorter).
Word(a, k) == IF Len(a) >= 4 * k THEN D!Num(SubSeq(a, 4 * k - 3, 4 * k)) ELSE -1

\* debug_attr: the header fields and the SetAttr argument it reads.
DebugAttr(r) == [op |-> r.op, arg |-> Len(Field(r, "arg"))]

Decoded(r) ==
    IF r.op = "SetAttr" THEN DebugAttr(r)
    ELSE [unique |-> Unique(buf), nodeid |-> NodeId(buf),
          uid |-> Uid(buf), gid |-> Gid(buf), pid |-> Pid(buf), op |-> r.op, x |-> r.x]
         @@ (IF r.op = "Init"
             THEN LET a == Field(r, "arg")
                  IN  [major |-> Word(a, 1), minor |-> Word(a, 2), readahead |-> Word(a, 3)]
             ELSE [mode |-> Word(Field(r, "arg"), 1), name |-> Field(r, "name")])

\* Tests init, mknod and setattr: each whole test packet decodes, and the
\* header accessors and the variant's fields give back the values the
\* tests assert, on either byte order.
TestPacketsDecode ==
    result # <<>> /\ buf = pkt =>
        /\ result.kind = "Ok"
        /\ Decoded(result) = Expected(pkt)

\* Tests short_read_header and short_read, at every cut: a packet cut
\* short is refused by try_from with ShortReadHeader(n) inside the header
\* and ShortRead(n, header.len) after it, never decoded nor reported as a
\* missing argument.
TruncatedPacketRefused ==
    result # <<>> /\ Len(buf) < Len(pkt) =>
        result = IF Len(buf) < 40 THEN D!Err("ShortReadHeader", Len(buf), 0)
                 ELSE D!Err("ShortRead", Len(buf), Len(pkt))
=============================================================================
