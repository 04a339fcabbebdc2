-------------------------------- MODULE Codec --------------------------------
(***************************************************************************)
(* me::net::BufferWriter and BufferReader: primitive values as bytes, the  *)
(* least significant first, and a reader that refuses to run past the end. *)
(* A layout is a sequence of <<field, kind>>; a record is written or read  *)
(* field by field in the order of its layout.                              *)
(***************************************************************************)
EXTENDS Framing, SequencesExt, TLC

CONSTANTS
    U32Bytes,   \* 4 in the code
    U64Bytes    \* 8 in the code

ASSUME WidthAssumption == U32Bytes \in Nat \ {0} /\ U64Bytes \in Nat \ {0}

Width(kind) ==
    CASE kind \in {"U8", "Bool"} -> 1
      [] kind = "U32" -> U32Bytes
      [] kind \in {"U64", "I64"} -> U64Bytes

(* The number of unsigned values of a kind.                                *)
Span(kind) == ByteModulus ^ Width(kind)

(* An unsigned value as bytes, and back.                                   *)
LittleEndian(u, width) ==
    [i \in 1 .. width |-> (u \div ByteModulus ^ (i - 1)) % ByteModulus]
Unsigned(bytes) ==
    FoldLeft(LAMBDA u, i : u + bytes[i] * ByteModulus ^ (i - 1), 0,
             [i \in 1 .. Len(bytes) |-> i])

(* WriteU8, WriteU32, WriteU64 and WriteI64, which casts to unsigned.      *)
WriteValue(kind, v) ==
    CASE kind = "Bool" -> LittleEndian(IF v THEN 1 ELSE 0, 1)
      [] kind = "I64" -> LittleEndian(v % Span(kind), Width(kind))
      [] OTHER -> LittleEndian(v, Width(kind))

ReadValue(kind, bytes) ==
    LET u == Unsigned(bytes)
    IN  CASE kind = "Bool" -> u # 0
          [] kind = "I64" -> IF 2 * u >= Span(kind) THEN u - Span(kind) ELSE u
          [] OTHER -> u

WriteFields(layout, fields) ==
    FlattenSeq([i \in DOMAIN layout |->
                   WriteValue(layout[i][2], fields[layout[i][1]])])

-----------------------------------------------------------------------------
(* BufferReader: data_ and pos_, with what was read so far and whether a   *)
(* read failed; after a failed read the caller reads no further.           *)
Reader(data) == [data |-> data, pos |-> 0, ok |-> TRUE, fields |-> << >>]

HasBytes(r, n) == r.pos + n <= Len(r.data)

ReadField(r, f) ==
    LET n == Width(f[2])
    IN  IF ~r.ok \/ ~HasBytes(r, n) THEN [r EXCEPT !.ok = FALSE]
        ELSE [r EXCEPT !.pos = @ + n,
                       !.fields = (f[1] :> ReadValue(f[2],
                                     SubSeq(r.data, r.pos + 1, r.pos + n))) @@ @]

ReadFields(r, layout) == FoldLeft(ReadField, r, layout)
=============================================================================
