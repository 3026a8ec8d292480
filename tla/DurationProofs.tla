--------------------------- MODULE DurationProofs ---------------------------
(***************************************************************************)
(* Proofs about the Duration message (Duration.tla) for every value of the *)
(* constants: the type invariant, and the coherence of has bits and field  *)
(* values that Clear(), _InternalSerialize, ByteSizeLong and MergeImpl     *)
(* rely on.  Each operation of the class is first shown to preserve the    *)
(* property on one message (a lemma per helper), then the invariants are   *)
(* proved inductive over Next.                                             *)
(***************************************************************************)
EXTENDS Duration, SequenceTheorems, TLAPS

-----------------------------------------------------------------------------
(* The wire conversions.                                                   *)

(* static_cast<int64_t> of a 64-bit varint value is an int64.             *)
LEMMA Int64FromWireType ==
  ASSUME NEW u \in UInt64
  PROVE  Int64FromWire(u) \in Int64
BY PowerAssumption DEF Int64FromWire, Int64, UInt64

(* The int32 parse (low Width32 bits, reinterpreted) yields an int32 for   *)
(* every varint value, however large.                                      *)
LEMMA Int32FromWireType ==
  ASSUME NEW u \in UInt64
  PROVE  Int32FromWire(u) \in Int32
BY PowerAssumption DEF Int32FromWire, Int32, UInt64

-----------------------------------------------------------------------------
(* Updating one field of a message state with a value of the field's type *)
(* gives a message state.  The helpers update several fields at once; a   *)
(* multi-field EXCEPT is the nesting of these single updates.              *)

LEMMA ExceptSeconds ==
  ASSUME NEW r \in MsgState, NEW x \in Int64
  PROVE  [r EXCEPT !.seconds = x] \in MsgState
BY DEF MsgState

LEMMA ExceptNanos ==
  ASSUME NEW r \in MsgState, NEW x \in Int32
  PROVE  [r EXCEPT !.nanos = x] \in MsgState
BY DEF MsgState

LEMMA ExceptHasbits ==
  ASSUME NEW r \in MsgState, NEW x \in SUBSET HasBitsMask
  PROVE  [r EXCEPT !.hasbits = x] \in MsgState
BY DEF MsgState

LEMMA ExceptUnknown ==
  ASSUME NEW r \in MsgState, NEW x \in Seq(WireRecord)
  PROVE  [r EXCEPT !.unknown = x] \in MsgState
BY DEF MsgState

\* The type of the parse call in progress, as TypeOK states it.
ParserState == [busy : BOOLEAN, target : Msg, rest : Seq(WireRecord)]

LEMMA ExceptRest ==
  ASSUME NEW p \in ParserState, NEW x \in Seq(WireRecord)
  PROVE  [p EXCEPT !.rest = x] \in ParserState
BY DEF ParserState

\* 0 is a value of both fields.
LEMMA ZeroInRange == 0 \in Int64 /\ 0 \in Int32
BY PowerAssumption DEF Int64, Int32

-----------------------------------------------------------------------------
(* Each helper maps a message state to a message state.                    *)

(* Clear() leaves a well-formed message.                                   *)
LEMMA ClearFieldsType ==
  ASSUME NEW r \in MsgState
  PROVE  ClearFields(r) \in MsgState
<1>1. [r EXCEPT !.seconds = 0] \in MsgState
  BY ZeroInRange, ExceptSeconds
<1>2. [r EXCEPT !.seconds = 0, !.nanos = 0] \in MsgState
  BY <1>1, ZeroInRange, ExceptNanos
<1>3. (IF r.hasbits \cap HasBitsMask # {}
         THEN [r EXCEPT !.seconds = 0, !.nanos = 0] ELSE r) \in MsgState
  BY <1>2
<1>4. \A q \in MsgState : [q EXCEPT !.hasbits = {}, !.unknown = << >>] \in MsgState
  <2>1. {} \in SUBSET HasBitsMask /\ << >> \in Seq(WireRecord)
    OBVIOUS
  <2>2. QED
    BY <2>1, ExceptHasbits, ExceptUnknown, Zenon
<1>5. QED
  BY <1>3, <1>4, Zenon DEF ClearFields

(* MergeImpl of two well-formed messages is well-formed.                   *)
LEMMA MergeImplType ==
  ASSUME NEW to \in MsgState, NEW from \in MsgState
  PROVE  MergeImpl(to, from) \in MsgState
<1> DEFINE s1 == [to EXCEPT !.seconds = IF Emits(from, SecondsBit, "seconds")
                                          THEN from.seconds ELSE @]
           s2 == [s1 EXCEPT !.nanos = IF Emits(from, NanosBit, "nanos")
                                        THEN from.nanos ELSE @]
           s3 == [s2 EXCEPT !.hasbits = @ \cup from.hasbits]
<1>1. s1 \in MsgState
  BY ExceptSeconds DEF MsgState
<1>2. s2 \in MsgState
  BY <1>1, ExceptNanos DEF MsgState
<1>3. s3 \in MsgState
  BY <1>2, ExceptHasbits DEF MsgState
<1>4. s3.unknown \o from.unknown \in Seq(WireRecord)
  <2>1. s3.unknown = to.unknown
    OBVIOUS
  <2>2. QED
    BY <2>1 DEF MsgState
<1>5. [s3 EXCEPT !.unknown = @ \o from.unknown] \in MsgState
  BY <1>3, <1>4, ExceptUnknown, Zenon
<1>6. QED
  BY <1>5, Zenon DEF MergeImpl

(* InternalSwap's exchange yields a well-formed message.                   *)
LEMMA SwapFieldsType ==
  ASSUME NEW r \in MsgState, NEW other \in MsgState
  PROVE  SwapFields(r, other) \in MsgState
<1>1. [r EXCEPT !.seconds = other.seconds] \in MsgState
  BY ExceptSeconds DEF MsgState
<1>2. [r EXCEPT !.seconds = other.seconds, !.nanos = other.nanos] \in MsgState
  BY <1>1, ExceptNanos DEF MsgState
<1>3. [r EXCEPT !.seconds = other.seconds, !.nanos = other.nanos,
                !.hasbits = other.hasbits] \in MsgState
  BY <1>2, ExceptHasbits DEF MsgState
<1>4. QED
  BY <1>3, ExceptUnknown DEF SwapFields, MsgState

(* Setting a has bit keeps the has bits within the mask.                  *)
LEMMA SetBitType ==
  ASSUME NEW r \in MsgState, NEW bit \in HasBitsMask
  PROVE  [r EXCEPT !.hasbits = @ \cup {bit}] \in MsgState
<1>1. r.hasbits \cup {bit} \in SUBSET HasBitsMask
  BY DEF MsgState
<1>2. QED
  BY <1>1, ExceptHasbits, Zenon

(* Clearing a has bit keeps the has bits within the mask.                 *)
LEMMA ClearBitType ==
  ASSUME NEW r \in MsgState, NEW bit
  PROVE  [r EXCEPT !.hasbits = @ \ {bit}] \in MsgState
<1>1. r.hasbits \ {bit} \in SUBSET HasBitsMask
  BY DEF MsgState
<1>2. QED
  BY <1>1, ExceptHasbits, Zenon

(* One iteration of the parse loop keeps a message well-formed.           *)
LEMMA ParseFieldType ==
  ASSUME NEW r \in MsgState, NEW rec \in WireRecord
  PROVE  ParseField(r, rec) \in MsgState
<1>1. CASE rec.num = 1 /\ rec.wt = VARINT
  <2>1. [r EXCEPT !.seconds = Int64FromWire(rec.val)] \in MsgState
    BY Int64FromWireType, ExceptSeconds DEF WireRecord
  <2>2. [r EXCEPT !.seconds = Int64FromWire(rec.val)].hasbits = r.hasbits
    OBVIOUS
  <2>3. SecondsBit \in HasBitsMask
    BY DEF HasBitsMask
  <2>4. [r EXCEPT !.seconds = Int64FromWire(rec.val),
                  !.hasbits = @ \cup {SecondsBit}] \in MsgState
    BY <2>1, <2>2, <2>3, SetBitType, Zenon
  <2>5. QED
    BY <1>1, <2>4 DEF ParseField
<1>2. CASE rec.num = 2 /\ rec.wt = VARINT
  <2>1. [r EXCEPT !.nanos = Int32FromWire(rec.val)] \in MsgState
    BY Int32FromWireType, ExceptNanos DEF WireRecord
  <2>2. [r EXCEPT !.nanos = Int32FromWire(rec.val)].hasbits = r.hasbits
    OBVIOUS
  <2>3. NanosBit \in HasBitsMask
    BY DEF HasBitsMask
  <2>4. [r EXCEPT !.nanos = Int32FromWire(rec.val),
                  !.hasbits = @ \cup {NanosBit}] \in MsgState
    BY <2>1, <2>2, <2>3, SetBitType, Zenon
  <2>5. QED
    BY <1>2, <2>4 DEF ParseField
<1>3. CASE ~(rec.num = 1 /\ rec.wt = VARINT) /\ ~(rec.num = 2 /\ rec.wt = VARINT)
  <2>1. Append(r.unknown, rec) \in Seq(WireRecord)
    BY DEF MsgState
  <2>2. [r EXCEPT !.unknown = Append(@, rec)] \in MsgState
    BY <2>1, ExceptUnknown, Zenon
  <2>3. QED
    BY <1>3, <2>2 DEF ParseField
<1>4. QED
  BY <1>1, <1>2, <1>3

-----------------------------------------------------------------------------
(* The type invariant.                                                     *)

(* A step of any operation keeps the state well-typed.                   *)
LEMMA TypeOKStep == TypeOK /\ [Next]_vars => TypeOK'
<1> USE DurationAssumption, PowerAssumption
<1> SUFFICES ASSUME TypeOK, [Next]_vars PROVE TypeOK'
  OBVIOUS
<1>1. ASSUME NEW m \in Msg, NEW r \in MsgState, Update(m, r)
      PROVE  TypeOK'
  BY <1>1 DEF Update, TypeOK
<1>2. ASSUME NEW m \in Msg, NEW v \in SecondsVals, SetSeconds(m, v)
      PROVE  TypeOK'
  <2>1. [msg[m] EXCEPT !.seconds = v, !.hasbits = @ \cup {SecondsBit}]
          \in MsgState
    BY DEF TypeOK, MsgState, HasBitsMask, SecondsBit
  <2>2. QED
    BY <1>1, <1>2, <2>1 DEF SetSeconds
<1>3. ASSUME NEW m \in Msg, NEW v \in NanosVals, SetNanos(m, v)
      PROVE  TypeOK'
  <2>1. [msg[m] EXCEPT !.nanos = v, !.hasbits = @ \cup {NanosBit}]
          \in MsgState
    BY DEF TypeOK, MsgState, HasBitsMask, NanosBit
  <2>2. QED
    BY <1>1, <1>3, <2>1 DEF SetNanos
<1>4. ASSUME NEW m \in Msg, ClearSeconds(m) PROVE TypeOK'
  <2>0. msg[m] \in MsgState /\ [msg[m] EXCEPT !.seconds = 0] \in MsgState
    BY ZeroInRange, ExceptSeconds DEF TypeOK
  <2>1. [msg[m] EXCEPT !.seconds = 0, !.hasbits = @ \ {SecondsBit}]
          \in MsgState
    BY <2>0, ClearBitType, Zenon
  <2>2. QED
    BY <1>1, <1>4, <2>1 DEF ClearSeconds
<1>5. ASSUME NEW m \in Msg, ClearNanos(m) PROVE TypeOK'
  <2>0. msg[m] \in MsgState /\ [msg[m] EXCEPT !.nanos = 0] \in MsgState
    BY ZeroInRange, ExceptNanos DEF TypeOK
  <2>1. [msg[m] EXCEPT !.nanos = 0, !.hasbits = @ \ {NanosBit}]
          \in MsgState
    BY <2>0, ClearBitType, Zenon
  <2>2. QED
    BY <1>1, <1>5, <2>1 DEF ClearNanos
<1>6. ASSUME NEW m \in Msg, Clear(m) PROVE TypeOK'
  BY <1>1, <1>6, ClearFieldsType DEF Clear, TypeOK
<1>7. ASSUME NEW to \in Msg, NEW from \in Msg, MergeFrom(to, from)
      PROVE  TypeOK'
  BY <1>1, <1>7, MergeImplType DEF MergeFrom, TypeOK
<1>8. ASSUME NEW to \in Msg, NEW from \in Msg, CopyFrom(to, from)
      PROVE  TypeOK'
  BY <1>1, <1>8, MergeImplType, ClearFieldsType DEF CopyFrom, TypeOK
<1>9. ASSUME NEW a \in Msg, NEW b \in Msg, InternalSwap(a, b)
      PROVE  TypeOK'
  BY <1>9, SwapFieldsType DEF InternalSwap, TypeOK
<1>10. ASSUME NEW m \in Msg, NEW in \in ParseInputs, ParseFromString(m, in)
       PROVE  TypeOK'
  BY <1>10, ClearFieldsType DEF ParseFromString, TypeOK
<1>11. ASSUME NEW m \in Msg, NEW in \in ParseInputs, MergeFromString(m, in)
       PROVE  TypeOK'
  BY <1>11 DEF MergeFromString, TypeOK
<1>12. CASE ParseStep
  <2>1. Head(parser.rest) \in WireRecord /\ Tail(parser.rest) \in Seq(WireRecord)
    BY <1>12 DEF ParseStep, TypeOK
  <2>2. ParseField(msg[parser.target], Head(parser.rest)) \in MsgState
    BY <2>1, ParseFieldType DEF TypeOK
  <2>3. QED
    BY <1>12, <2>1, <2>2 DEF ParseStep, TypeOK
<1>13. CASE ParseDone
  BY <1>13 DEF ParseDone, TypeOK
<1>14. CASE ParseFail
  <2>1. [parser EXCEPT !.busy = FALSE] \in ParserState
    BY DEF TypeOK, ParserState
  <2>2. << >> \in Seq(WireRecord)
    OBVIOUS
  <2>3. parser' \in ParserState
    BY <1>14, <2>1, <2>2, ExceptRest, Zenon DEF ParseFail
  <2>4. QED
    BY <1>14, <2>3 DEF ParseFail, TypeOK, ParserState
<1>15. CASE UNCHANGED vars
  BY <1>15 DEF vars, TypeOK
<1>16. QED
  BY <1>2, <1>3, <1>4, <1>5, <1>6, <1>7, <1>8, <1>9, <1>10, <1>11,
     <1>12, <1>13, <1>14, <1>15 DEF Next

(* Every reachable state is well-typed: each instance holds an int64, an   *)
(* int32, has bits within the mask and a sequence of wire records, and the *)
(* parse in progress reads wire records into an instance.                  *)
THEOREM TypeCorrect == Spec => []TypeOK
<1> USE DurationAssumption, PowerAssumption
<1>1. Init => TypeOK
  BY DEF Init, TypeOK, NewMsg, MsgState, Int64, Int32
<1>2. TypeOK /\ [Next]_vars => TypeOK'
  BY TypeOKStep
<1>3. QED
  BY <1>1, <1>2, PTL DEF Spec

-----------------------------------------------------------------------------
(* Has bits cover values.  Covers(r) is HasBitCoversValue for one message; *)
(* each helper of the class preserves it.                                  *)
Covers(r) ==
  /\ r.seconds # 0 => SecondsBit \in r.hasbits
  /\ r.nanos # 0 => NanosBit \in r.hasbits

(* Clear() leaves both values 0: when no has bit is set the memset is     *)
(* skipped, and then the values were 0 already because the bits covered   *)
(* them.                                                                   *)
LEMMA ClearFieldsCovers ==
  ASSUME NEW r \in MsgState, Covers(r)
  PROVE  ClearFields(r).seconds = 0 /\ ClearFields(r).nanos = 0
         /\ Covers(ClearFields(r))
<1>1. CASE r.hasbits \cap HasBitsMask # {}
  BY <1>1 DEF ClearFields, Covers
<1>2. CASE r.hasbits \cap HasBitsMask = {}
  <2>1. r.hasbits = {}
    BY <1>2 DEF MsgState
  <2>2. r.seconds = 0 /\ r.nanos = 0
    BY <2>1 DEF Covers
  <2>3. QED
    BY <1>2, <2>2 DEF ClearFields, Covers
<1>3. QED
  BY <1>1, <1>2

(* MergeImpl copies a value only with its bit and ORs the bits.            *)
LEMMA MergeImplCovers ==
  ASSUME NEW to, NEW from, Covers(to), Covers(from)
  PROVE  Covers(MergeImpl(to, from))
BY DEF MergeImpl, Emits, Covers

(* InternalSwap moves the values together with their bits.                *)
LEMMA SwapFieldsCovers ==
  ASSUME NEW r, NEW other, Covers(other)
  PROVE  Covers(SwapFields(r, other))
BY DEF SwapFields, Covers

(* The parse table sets the bit of every field it stores.                 *)
LEMMA ParseFieldCovers ==
  ASSUME NEW r \in MsgState, NEW rec, Covers(r)
  PROVE  Covers(ParseField(r, rec))
<1>1. CASE rec.num = 1 /\ rec.wt = VARINT
  <2> DEFINE q == [r EXCEPT !.seconds = Int64FromWire(rec.val), !.hasbits = @ \cup {SecondsBit}]
  <2>1. ParseField(r, rec) = q
    BY <1>1 DEF ParseField
  <2>2. q.nanos = r.nanos /\ q.hasbits = r.hasbits \cup {SecondsBit}
    BY DEF MsgState
  <2>3. QED
    BY <2>1, <2>2 DEF Covers, SecondsBit, NanosBit
<1>2. CASE rec.num = 2 /\ rec.wt = VARINT
  <2> DEFINE q == [r EXCEPT !.nanos = Int32FromWire(rec.val), !.hasbits = @ \cup {NanosBit}]
  <2>1. ParseField(r, rec) = q
    BY <1>2 DEF ParseField
  <2>2. q.seconds = r.seconds /\ q.hasbits = r.hasbits \cup {NanosBit}
    BY DEF MsgState
  <2>3. QED
    BY <2>1, <2>2 DEF Covers, SecondsBit, NanosBit
<1>3. CASE ~(rec.num = 1 /\ rec.wt = VARINT) /\ ~(rec.num = 2 /\ rec.wt = VARINT)
  BY <1>3 DEF ParseField, Covers
<1>4. QED
  BY <1>1, <1>2, <1>3

(* A step of any operation keeps every non-zero value under its has bit.  *)
LEMMA CoversStep ==
  TypeOK /\ HasBitCoversValue /\ [Next]_vars => HasBitCoversValue'
<1> SUFFICES ASSUME TypeOK, HasBitCoversValue, [Next]_vars
             PROVE  HasBitCoversValue'
  OBVIOUS
<1>0. \A m \in Msg : Covers(msg[m])
  BY DEF HasBitCoversValue, Covers
<1>1. ASSUME NEW m \in Msg, NEW r, Covers(r), Update(m, r)
      PROVE  HasBitCoversValue'
  BY <1>0, <1>1 DEF Update, TypeOK, HasBitCoversValue, Covers
<1>2. ASSUME NEW m \in Msg, NEW v, SetSeconds(m, v) PROVE HasBitCoversValue'
  BY <1>0, <1>1, <1>2 DEF SetSeconds, Covers, SecondsBit, NanosBit, TypeOK, MsgState
<1>3. ASSUME NEW m \in Msg, NEW v, SetNanos(m, v) PROVE HasBitCoversValue'
  BY <1>0, <1>1, <1>3 DEF SetNanos, Covers, SecondsBit, NanosBit, TypeOK, MsgState
<1>4. ASSUME NEW m \in Msg, ClearSeconds(m) PROVE HasBitCoversValue'
  <2> DEFINE q == [msg[m] EXCEPT !.seconds = 0, !.hasbits = @ \ {SecondsBit}]
  <2>1. q.seconds = 0 /\ q.nanos = msg[m].nanos /\ q.hasbits = msg[m].hasbits \ {SecondsBit}
    BY DEF TypeOK, MsgState
  <2>2. Covers(q)
    BY <1>0, <2>1 DEF Covers, SecondsBit, NanosBit
  <2>3. QED
    BY <1>1, <1>4, <2>2 DEF ClearSeconds
<1>5. ASSUME NEW m \in Msg, ClearNanos(m) PROVE HasBitCoversValue'
  <2> DEFINE q == [msg[m] EXCEPT !.nanos = 0, !.hasbits = @ \ {NanosBit}]
  <2>1. q.nanos = 0 /\ q.seconds = msg[m].seconds /\ q.hasbits = msg[m].hasbits \ {NanosBit}
    BY DEF TypeOK, MsgState
  <2>2. Covers(q)
    BY <1>0, <2>1 DEF Covers, SecondsBit, NanosBit
  <2>3. QED
    BY <1>1, <1>5, <2>2 DEF ClearNanos
<1>6. ASSUME NEW m \in Msg, Clear(m) PROVE HasBitCoversValue'
  BY <1>0, <1>1, <1>6, ClearFieldsCovers DEF Clear, TypeOK
<1>7. ASSUME NEW to \in Msg, NEW from \in Msg, MergeFrom(to, from)
      PROVE  HasBitCoversValue'
  BY <1>0, <1>1, <1>7, MergeImplCovers DEF MergeFrom
<1>8. ASSUME NEW to \in Msg, NEW from \in Msg, CopyFrom(to, from)
      PROVE  HasBitCoversValue'
  BY <1>0, <1>1, <1>8, MergeImplCovers, ClearFieldsCovers DEF CopyFrom, TypeOK
<1>9. ASSUME NEW a \in Msg, NEW b \in Msg, InternalSwap(a, b)
      PROVE  HasBitCoversValue'
  BY <1>0, <1>9, SwapFieldsCovers DEF InternalSwap, TypeOK, HasBitCoversValue, Covers
<1>10. ASSUME NEW m \in Msg, NEW in \in ParseInputs, ParseFromString(m, in)
       PROVE  HasBitCoversValue'
  BY <1>0, <1>10, ClearFieldsCovers DEF ParseFromString, TypeOK, HasBitCoversValue, Covers
<1>11. ASSUME NEW m \in Msg, NEW in \in ParseInputs, MergeFromString(m, in)
       PROVE  HasBitCoversValue'
  BY <1>11 DEF MergeFromString, HasBitCoversValue
<1>12. CASE ParseStep
  BY <1>0, <1>12, ParseFieldCovers DEF ParseStep, TypeOK, HasBitCoversValue, Covers
<1>13. CASE ParseDone \/ ParseFail
  BY <1>13 DEF ParseDone, ParseFail, HasBitCoversValue
<1>14. CASE UNCHANGED vars
  BY <1>14 DEF vars, HasBitCoversValue
<1>15. QED
  BY <1>2, <1>3, <1>4, <1>5, <1>6, <1>7, <1>8, <1>9, <1>10, <1>11,
     <1>12, <1>13, <1>14 DEF Next

(* HasBitCoversValue holds in every reachable state, for every set of     *)
(* instances and inputs: no sequence of setters, clears, merges, copies,  *)
(* swaps and (possibly failing) parses leaves a non-zero seconds_ or      *)
(* nanos_ behind a clear has bit, where Clear() would not zero it and     *)
(* _InternalSerialize would not write it.                                 *)
THEOREM HasBitsCoverValues == Spec => []HasBitCoversValue
<1>1. Init => HasBitCoversValue
  BY DEF Init, NewMsg, HasBitCoversValue
<1>2. QED
  BY <1>1, CoversStep, TypeCorrect, PTL DEF Spec

-----------------------------------------------------------------------------
(* MergeImpl is associative on messages whose middle operand has covering  *)
(* has bits: seconds and nanos come from the last operand that emits them, *)
(* the has bits are a union and the unknown fields a concatenation.        *)
LEMMA MergeImplAssociative ==
  ASSUME NEW a \in MsgState, NEW b \in MsgState, NEW c \in MsgState, Covers(b)
  PROVE  MergeImpl(MergeImpl(a, b), c) = MergeImpl(a, MergeImpl(b, c))
<1> DEFINE ab == MergeImpl(a, b)
           bc == MergeImpl(b, c)
           l == MergeImpl(ab, c)
           r == MergeImpl(a, bc)
<1>1. ab \in MsgState /\ bc \in MsgState /\ l \in MsgState /\ r \in MsgState
  BY MergeImplType
<1>2. /\ ab.seconds = IF Emits(b, SecondsBit, "seconds") THEN b.seconds ELSE a.seconds
      /\ ab.nanos = IF Emits(b, NanosBit, "nanos") THEN b.nanos ELSE a.nanos
      /\ ab.hasbits = a.hasbits \cup b.hasbits
      /\ ab.unknown = a.unknown \o b.unknown
      /\ bc.seconds = IF Emits(c, SecondsBit, "seconds") THEN c.seconds ELSE b.seconds
      /\ bc.nanos = IF Emits(c, NanosBit, "nanos") THEN c.nanos ELSE b.nanos
      /\ bc.hasbits = b.hasbits \cup c.hasbits
      /\ bc.unknown = b.unknown \o c.unknown
  BY DEF MergeImpl, MsgState
<1>3. /\ l.seconds = IF Emits(c, SecondsBit, "seconds") THEN c.seconds ELSE ab.seconds
      /\ l.nanos = IF Emits(c, NanosBit, "nanos") THEN c.nanos ELSE ab.nanos
      /\ l.hasbits = ab.hasbits \cup c.hasbits
      /\ l.unknown = ab.unknown \o c.unknown
      /\ r.seconds = IF Emits(bc, SecondsBit, "seconds") THEN bc.seconds ELSE a.seconds
      /\ r.nanos = IF Emits(bc, NanosBit, "nanos") THEN bc.nanos ELSE a.nanos
      /\ r.hasbits = a.hasbits \cup bc.hasbits
      /\ r.unknown = a.unknown \o bc.unknown
  BY <1>1 DEF MergeImpl, MsgState
<1>4. l.seconds = r.seconds /\ l.nanos = r.nanos
  BY <1>2, <1>3 DEF Emits, Covers
<1>5. l.hasbits = r.hasbits
  BY <1>2, <1>3
<1>6. l.unknown = r.unknown
  <2>1. a.unknown \in Seq(WireRecord) /\ b.unknown \in Seq(WireRecord)
        /\ c.unknown \in Seq(WireRecord)
    BY DEF MsgState
  <2>2. ASSUME NEW x \in Seq(WireRecord), NEW y \in Seq(WireRecord),
               NEW z \in Seq(WireRecord)
        PROVE  (x \o y) \o z = x \o (y \o z)
    BY ConcatAssociative
  <2>3. (a.unknown \o b.unknown) \o c.unknown = a.unknown \o (b.unknown \o c.unknown)
    BY <2>1, <2>2
  <2>4. QED
    BY <1>2, <1>3, <2>3
<1>7. l = [seconds |-> l.seconds, nanos |-> l.nanos, hasbits |-> l.hasbits,
           unknown |-> l.unknown]
  BY <1>1 DEF MsgState
<1>8. r = [seconds |-> r.seconds, nanos |-> r.nanos, hasbits |-> r.hasbits,
           unknown |-> r.unknown]
  BY <1>1 DEF MsgState
<1>9. QED
  BY <1>4, <1>5, <1>6, <1>7, <1>8

(* Merge associativity (spec section 8) in every reachable state, for      *)
(* every instance set and input: merging b then c into a equals merging   *)
(* (c into b) into a, has bits and unknown fields included.  It rests on  *)
(* HasBitsCoverValues: MergeImpl skips a value whose bit is clear.        *)
THEOREM MergeAssociativity == Spec => []MergeAssociative
<1>1. TypeOK /\ HasBitCoversValue => MergeAssociative
  <2> SUFFICES ASSUME TypeOK, HasBitCoversValue,
                      NEW a \in Msg, NEW b \in Msg, NEW c \in Msg
               PROVE  MergeImpl(MergeImpl(msg[a], msg[b]), msg[c])
                        = MergeImpl(msg[a], MergeImpl(msg[b], msg[c]))
    BY DEF MergeAssociative
  <2>1. msg[a] \in MsgState /\ msg[b] \in MsgState /\ msg[c] \in MsgState
    BY DEF TypeOK
  <2>2. Covers(msg[b])
    BY DEF HasBitCoversValue, Covers
  <2>3. QED
    BY <2>1, <2>2, MergeImplAssociative
<1>2. QED
  BY <1>1, TypeCorrect, HasBitsCoverValues, PTL

=============================================================================
