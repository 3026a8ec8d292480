----------------------------- MODULE WireFormat -----------------------------
(***************************************************************************)
(* The protobuf wire format as the generated Duration code uses it: wire   *)
(* records, varint sizes, and the integer conversions between the int32 /  *)
(* int64 fields and the unsigned 64-bit varint value on the wire.  These   *)
(* helpers live in WireFormatLite / TcParser, outside src/, and are        *)
(* modelled from the spec (section 6) and marked spec_modelled.            *)
(*                                                                         *)
(* The widths are parameters so that TLC can check a scaled-down wire      *)
(* format: a varint byte carries VarintBits payload bits (7 in the real    *)
(* format), int32 has Width32 bits (32) and the varint value and int64 have *)
(* Width64 bits (64).  A byte on the wire is not modelled bit by bit: a    *)
(* field occurrence is a record and its encoded length is computed.        *)
(***************************************************************************)
EXTENDS Integers, Sequences

CONSTANTS VarintBits, Width32, Width64

ASSUME WidthAssumption ==
  /\ VarintBits \in Nat \ {0}
  /\ Width32 \in Nat \ {0, 1}
  /\ Width64 \in Nat
  /\ Width32 < Width64

(* The generated code writes the tags of fields 1 and 2 as a single byte   *)
(* ("SizePlusOne", the one-byte fast-table tags 8 and 16): the largest     *)
(* of them fits one varint byte.                                           *)
ASSUME OneByteTagAssumption == 2 * 8 < 2^VarintBits

\* Wire types of section 6.
VARINT == 0
FIXED64 == 1
LENGTH_DELIMITED == 2
FIXED32 == 5
WireType == {VARINT, FIXED64, LENGTH_DELIMITED, FIXED32}

\* Half the range of int32 and of int64: 2^31 and 2^63 in the real format.
Half32 == 2^(Width32 - 1)
Half64 == 2^(Width64 - 1)

(* The provers know nothing of ^: the one fact about these powers of two  *)
(* the proofs use is that they are positive integers.                     *)
ASSUME PowerAssumption == Half32 \in Nat \ {0} /\ Half64 \in Nat \ {0}

Int32 == -Half32 .. Half32 - 1
Int64 == -Half64 .. Half64 - 1
UInt64 == 0 .. 2 * Half64 - 1

(* One field occurrence on the wire: its field number, its wire type and   *)
(* its payload (the varint value for VARINT, the byte count for           *)
(* LENGTH_DELIMITED, the fixed-width value otherwise).                     *)
WireRecord == [num : Nat \ {0}, wt : WireType, val : UInt64]

\* static_cast<uint64_t>(int64_t v): two's complement reinterpretation.
ToUnsigned64(v) == v % (2 * Half64)

\* static_cast<int64_t>(uint64_t u).
Int64FromWire(u) == IF u >= Half64 THEN u - 2 * Half64 ELSE u

\* Mutation: the int32 parser keeps the low bits unsigned (no sign).
Int32FromWireUnsigned(u) == u % (2 * Half32)

(* The int32 parser reads the varint as uint64 and keeps its low 32 bits   *)
(* (SingularVarintNoZag1<uint32_t>), then reinterprets them as int32.      *)
Int32FromWire(u) ==
  LET low == u % (2 * Half32)
  IN  IF low >= Half32 THEN low - 2 * Half32 ELSE low

\* The longest varint: ceil(Width64 / VarintBits) bytes (10 for 64 bits).
MaxVarintLen == (Width64 + VarintBits - 1) \div VarintBits

(* VarintSize64: the number of bytes of the varint of u, the least k such  *)
(* that u fits in k groups of VarintBits bits.                             *)
VarintSize(u) ==
  CHOOSE k \in 1 .. MaxVarintLen :
    /\ u < 2^(VarintBits * k)
    /\ k = 1 \/ u >= 2^(VarintBits * (k - 1))

\* WireFormatLite::Int64Size: the varint of the value cast to uint64.
Int64Size(v) == VarintSize(ToUnsigned64(v))

(* WireFormatLite::Int32Size (VarintSize32SignExtended): a negative int32  *)
(* is sign-extended to 64 bits and so always takes the longest varint.     *)
Int32Size(v) == IF v < 0 THEN MaxVarintLen ELSE VarintSize(v)

\* The tag varint: field_number << 3 | wire_type.
TagSize(rec) == VarintSize(rec.num * 8 + rec.wt)

PayloadSize(rec) ==
  CASE rec.wt = VARINT           -> VarintSize(rec.val)
    [] rec.wt = FIXED64          -> 8
    [] rec.wt = FIXED32          -> 4
    [] rec.wt = LENGTH_DELIMITED -> VarintSize(rec.val) + rec.val

RecordSize(rec) == TagSize(rec) + PayloadSize(rec)

\* The number of bytes of a sequence of records written back to back.
WireSize(s) ==
  LET size[i \in 0 .. Len(s)] ==
        IF i = 0 THEN 0 ELSE size[i - 1] + RecordSize(s[i])
  IN  size[Len(s)]

=============================================================================
