------------------------------ MODULE Decoder ------------------------------
(***************************************************************************)
(* The FUSE request decoder of src/fuse_ll/src/fuse/ll_request.rs:         *)
(* Request::try_from over one packet and Operation::parse over the         *)
(* argument cursor that follows the header.                                *)
(*                                                                         *)
(* A buffer is a sequence of bytes.  The header is HeaderSize bytes and   *)
(* starts with header.len and header.opcode, two u32 of FieldWidth bytes *)
(* each in the host's byte order.  Argument struct sizes are ArgSize(op). *)
(* A field the decoder emits is a slice of the buffer, written            *)
(* <<first byte, length>>.  The exhaustive runs shrink every size to one  *)
(* unit (FieldWidth = ArgSize = 1); the test-packet runs use real bytes.  *)
(***************************************************************************)
EXTENDS Naturals, Sequences, SequencesExt, TLC

CONSTANTS
    HeaderSize,  \* size_of::<fuse_in_header>()
    FieldWidth,  \* size of a u32 header field
    HostEndian,  \* "little" | "big": target_endian
    ArgSize(_),  \* size_of the fuse_*_in struct a variant fetches
    MaxLen,      \* longest buffer the model enumerates
    Codes        \* opcode values the enumerated headers carry

VARIABLES
    buf,         \* the packet read from /dev/fuse
    result       \* <<>> until decoded, then the Outcome of try_from

NUL == 0

\* An integer field read from the buffer in the host's byte order: its
\* base-256 digits, most significant first, and its value.
Digits(bytes) == IF HostEndian = "little" THEN Reverse(bytes) ELSE bytes
Num(bytes) == FoldLeft(LAMBDA acc, x : 256 * acc + x, 0, Digits(bytes))

\* header.len and header.opcode: the first two fields of fuse_in_header.
HeaderLen(b) == Num(SubSeq(b, 1, FieldWidth))
HeaderOpcode(b) == Num(SubSeq(b, FieldWidth + 1, 2 * FieldWidth))

(***************************************************************************)
(* fuse_opcode::try_from (abi.rs): the Linux opcode numbers; any other    *)
(* value is an InvalidOpcodeError.                                         *)
(***************************************************************************)
OpcodeName ==
    (1 :> "Lookup") @@ (2 :> "Forget") @@ (3 :> "GetAttr") @@ (4 :> "SetAttr")
    @@ (5 :> "ReadLink") @@ (6 :> "SymLink") @@ (8 :> "MkNod") @@ (9 :> "MkDir")
    @@ (10 :> "Unlink") @@ (11 :> "RmDir") @@ (12 :> "Rename") @@ (13 :> "Link")
    @@ (14 :> "Open") @@ (15 :> "Read") @@ (16 :> "Write") @@ (17 :> "StatFs")
    @@ (18 :> "Release") @@ (20 :> "FSync") @@ (21 :> "SetXAttr")
    @@ (22 :> "GetXAttr") @@ (23 :> "ListXAttr") @@ (24 :> "RemoveXAttr")
    @@ (25 :> "Flush") @@ (26 :> "Init") @@ (27 :> "OpenDir") @@ (28 :> "ReadDir")
    @@ (29 :> "ReleaseDir") @@ (30 :> "FSyncDir") @@ (31 :> "GetLk")
    @@ (32 :> "SetLk") @@ (33 :> "SetLkW") @@ (34 :> "Access") @@ (35 :> "Create")
    @@ (36 :> "Interrupt") @@ (37 :> "BMap") @@ (38 :> "Destroy")

\* enum Operation: the fields of each variant, in declaration order.
Variant(op) ==
    CASE op \in {"GetAttr", "ReadLink", "StatFs", "Destroy"} -> <<>>
      [] op \in {"Lookup", "Unlink", "RmDir", "RemoveXAttr"} -> <<"name">>
      [] op = "SymLink" -> <<"name", "link">>
      [] op \in {"MkNod", "MkDir", "Link", "GetXAttr", "Create"} -> <<"arg", "name">>
      [] op = "Rename" -> <<"arg", "name", "newname">>
      [] op = "Write" -> <<"arg", "data">>
      [] op = "SetXAttr" -> <<"arg", "name", "value">>
      [] OTHER -> <<"arg">>

(***************************************************************************)
(* Operation::parse fills the fields in that order, each with the cursor  *)
(* call its type asks for: data.fetch() for a &fuse_*_in ("arg"),         *)
(* data.fetch_str() for an &OsStr ("str"), data.fetch_all() for a &[u8]   *)
(* ("all").                                                                *)
(***************************************************************************)
CallFor(field) ==
    CASE field = "arg" -> "arg"
      [] field \in {"name", "link", "newname"} -> "str"
      [] field \in {"data", "value"} -> "all"

\* Variant of ArgsOf that fetches the name before the struct.
ArgsOfNameFirst(op) ==
    IF op \in {"MkNod", "MkDir", "Link", "GetXAttr", "Create"} THEN <<"str", "arg">>
    ELSE [i \in DOMAIN Variant(op) |-> CallFor(Variant(op)[i])]

ArgsOf(op) == [i \in DOMAIN Variant(op) |-> CallFor(Variant(op)[i])]

(***************************************************************************)
(* ArgumentIterator (argument.rs): a cursor at unit `pos` of buffer b.    *)
(* fetch takes sz units, fetch_str the units up to the next NUL and the   *)
(* NUL itself, fetch_all the rest; fetch and fetch_str fail without       *)
(* advancing when the data is not there.                                   *)
(***************************************************************************)
Got(first, len, next) == [ok |-> TRUE, slice |-> <<first, len>>, pos |-> next]
NotThere == [ok |-> FALSE, slice |-> <<0, 0>>, pos |-> 0]

Fetch(b, pos, sz) ==
    IF Len(b) - pos + 1 >= sz THEN Got(pos, sz, pos + sz) ELSE NotThere

FetchStr(b, pos) ==
    LET n == SelectInSubSeq(b, pos, Len(b), LAMBDA u : u = NUL)
    IN  IF n = 0 THEN NotThere ELSE Got(pos, n - pos, n + 1)

FetchAll(b, pos) == Got(pos, Len(b) - pos + 1, Len(b) + 1)

CursorStep(b, pos, op, k) ==
    CASE k = "arg" -> Fetch(b, pos, ArgSize(op))
      [] k = "str" -> FetchStr(b, pos)
      [] k = "all" -> FetchAll(b, pos)

\* The `?` chain of one variant: the first call that fails makes parse None.
RECURSIVE ParseFields(_, _, _, _)
ParseFields(b, pos, op, kinds) ==
    IF kinds = <<>> THEN [ok |-> TRUE, fields |-> <<>>]
    ELSE LET r == CursorStep(b, pos, op, Head(kinds))
             rest == ParseFields(b, r.pos, op, Tail(kinds))
         IN  IF ~r.ok \/ ~rest.ok THEN [ok |-> FALSE, fields |-> <<>>]
             ELSE [ok |-> TRUE, fields |-> <<r.slice>> \o rest.fields]

\* The parsed slices as the variant's named fields.
Named(op, p) ==
    [ok |-> p.ok,
     fields |-> IF p.ok THEN [i \in DOMAIN Variant(op) |-> <<Variant(op)[i], p.fields[i]>>]
                ELSE <<>>]

\* Variant of Parse whose cursor starts one byte early, on the header.
ParseFromHeader(op, b, pos) == Named(op, ParseFields(b, pos - 1, op, ArgsOf(op)))

Parse(op, b, pos) == Named(op, ParseFields(b, pos, op, ArgsOf(op)))

\* Result of try_from: Ok with the header length, the variant and its
\* fields, or a RequestError with its two numbers (0 where it has fewer).
Outcome(kind, x, y, op, fields) ==
    [kind |-> kind, x |-> x, y |-> y, op |-> op, fields |-> fields]
Err(kind, x, y) == Outcome(kind, x, y, "none", <<>>)

\* Variant of TryFrom that measures the shadowed cursor, data.len(), the
\* bytes left after the header, where the code keeps data_len.
TryFromRemainingLen(b) ==
    IF Len(b) < HeaderSize THEN Err("ShortReadHeader", Len(b), 0)
    ELSE IF HeaderOpcode(b) \notin DOMAIN OpcodeName
         THEN Err("UnknownOperation", HeaderOpcode(b), 0)
    ELSE IF Len(b) - HeaderSize < HeaderLen(b)
         THEN Err("ShortRead", Len(b) - HeaderSize, HeaderLen(b))
    ELSE LET op == OpcodeName[HeaderOpcode(b)]
             p == Parse(op, b, HeaderSize + 1)
         IN  IF p.ok THEN Outcome("Ok", HeaderLen(b), 0, op, p.fields)
             ELSE Err("InsufficientData", 0, 0)

(***************************************************************************)
(* Request::try_from: fetch the header (ShortReadHeader with the unread   *)
(* length), decode the opcode (UnknownOperation), compare the buffer      *)
(* length with header.len (ShortRead), then parse the arguments from the  *)
(* cursor, which still spans the whole buffer (InsufficientData).          *)
(***************************************************************************)
TryFrom(b) ==
    IF Len(b) < HeaderSize THEN Err("ShortReadHeader", Len(b), 0)
    ELSE LET hlen == HeaderLen(b)
             code == HeaderOpcode(b)
         IN  IF code \notin DOMAIN OpcodeName THEN Err("UnknownOperation", code, 0)
             ELSE IF Len(b) < hlen THEN Err("ShortRead", Len(b), hlen)
             ELSE LET p == Parse(OpcodeName[code], b, HeaderSize + 1)
                  IN  IF p.ok THEN Outcome("Ok", hlen, 0, OpcodeName[code], p.fields)
                      ELSE Err("InsufficientData", 0, 0)
-----------------------------------------------------------------------------
(* The decoder as a step: a packet arrives and try_from runs over it.     *)

\* Packets: shorter than a header, or a header (any length field, one of
\* Codes as opcode) followed by a body of NUL and non-NUL units.
Buffers ==
    {<<>>} \cup {<<l>> : l \in 0..MaxLen}
    \cup {<<l, c>> \o body : l \in 0..MaxLen, c \in Codes,
                             body \in BoundedSeq({NUL, 1}, MaxLen - HeaderSize)}

Init == buf \in Buffers /\ result = <<>>

Decode == result = <<>> /\ result' = TryFrom(buf) /\ UNCHANGED buf

Spec == Init /\ [][Decode]_<<buf, result>>

-----------------------------------------------------------------------------
Slices(r) == {r.fields[i][2] : i \in DOMAIN r.fields}

\* A field is a slice of the body: it starts after the header.
Slice == (HeaderSize + 1 .. MaxLen + 1) \X (0 .. MaxLen)

TypeOK ==
    /\ buf \in Buffers
    /\ \/ result = <<>>
       \/ /\ result.kind \in {"Ok", "ShortReadHeader", "UnknownOperation",
                              "ShortRead", "InsufficientData"}
          /\ result.op \in Range(OpcodeName) \cup {"none"}
          /\ result.fields \in Seq({"arg", "name", "link", "newname", "data", "value"} \X Slice)

\* Spec 4.C / 8: a request decodes only from the bytes its header.len
\* claims: header.len covers at least the header, and every field of the
\* decoded variant lies inside b[1..header.len].
OkWithinHeaderLen ==
    result # <<>> /\ result.kind = "Ok" =>
        /\ result.x >= HeaderSize
        /\ \A s \in Slices(result) : s[1] + s[2] - 1 <= result.x
=============================================================================
