------------------------------ MODULE Duration ------------------------------
(***************************************************************************)
(* The generated message class google.protobuf.Duration                    *)
(* (src/google/protobuf/duration.pb.cc): two proto3 scalar fields,         *)
(*    int64 seconds = 1;   int32 nanos = 2;                                *)
(* each with a has bit, and an unknown-field store.  Msg is a set of       *)
(* message instances; every public operation of the class that changes an *)
(* instance is an action on one or two of them, and the parse loop takes   *)
(* one step per field.  _cached_size_ is left out: ByteSizeLong writes it  *)
(* and only an enclosing message's serializer reads it, never an operation *)
(* of this class, so ByteSizeLong is a pure function here.                 *)
(***************************************************************************)
EXTENDS WireFormat

CONSTANTS
  Msg,          \* the message instances
  SecondsVals,  \* values passed to set_seconds
  NanosVals,    \* values passed to set_nanos
  ParseInputs,  \* byte strings handed to the parser, as record sequences
  MaxUnknown    \* bound on the length of an unknown-field store

ASSUME DurationAssumption ==
  /\ Msg # {}
  /\ SecondsVals \subseteq Int64
  /\ NanosVals \subseteq Int32
  /\ ParseInputs \subseteq Seq(WireRecord)
  /\ MaxUnknown \in Nat

VARIABLES
  msg,     \* msg[m]: the _impl_ and _internal_metadata_ of instance m
  parser   \* the parse call in progress: its target and the unread records

vars == <<msg, parser>>

\* Bit positions in _has_bits_[0]; the mask 0x00000003u is HasBitsMask.
SecondsBit == 0
NanosBit == 1
HasBitsMask == {SecondsBit, NanosBit}

MsgState ==
  [seconds : Int64, nanos : Int32, hasbits : SUBSET HasBitsMask,
   unknown : Seq(WireRecord)]

(* The constructor: Impl_ zeroes the has bits and SharedCtor memsets       *)
(* seconds_ .. nanos_ to zero; there are no unknown fields.                *)
NewMsg == [seconds |-> 0, nanos |-> 0, hasbits |-> {}, unknown |-> <<>>]

\* Mutation: the memset guarded by the seconds bit alone (mask 0x1).
ClearFieldsSecondsMask(r) ==
  LET zeroed == IF SecondsBit \in r.hasbits
                  THEN [r EXCEPT !.seconds = 0, !.nanos = 0]
                  ELSE r
  IN  [zeroed EXCEPT !.hasbits = {}, !.unknown = <<>>]

(* Clear(): the values are zeroed only when some has bit is set (the      *)
(* memset is guarded by cached_has_bits & 0x3); the has bits and the       *)
(* unknown fields are cleared unconditionally.                             *)
ClearFields(r) ==
  LET zeroed == IF r.hasbits \cap HasBitsMask # {}
                  THEN [r EXCEPT !.seconds = 0, !.nanos = 0]
                  ELSE r
  IN  [zeroed EXCEPT !.hasbits = {}, !.unknown = <<>>]

\* A field is written only when its has bit is set and its value is not 0.
Emits(r, bit, field) == bit \in r.hasbits /\ r[field] # 0

\* Mutation: nanos written under the seconds has bit (mask 0x1 for 0x2).
InternalSerializeNanosWrongBit(r) ==
  (IF Emits(r, SecondsBit, "seconds")
     THEN << [num |-> 1, wt |-> VARINT, val |-> ToUnsigned64(r.seconds)] >>
     ELSE << >>)
  \o (IF Emits(r, SecondsBit, "nanos")
        THEN << [num |-> 2, wt |-> VARINT, val |-> ToUnsigned64(r.nanos)] >>
        ELSE << >>)
  \o r.unknown

(* _InternalSerialize: seconds, then nanos, each as a varint of the value  *)
(* cast to uint64 (nanos sign-extended first), then the unknown fields     *)
(* verbatim.                                                               *)
InternalSerialize(r) ==
  (IF Emits(r, SecondsBit, "seconds")
     THEN << [num |-> 1, wt |-> VARINT, val |-> ToUnsigned64(r.seconds)] >>
     ELSE << >>)
  \o (IF Emits(r, NanosBit, "nanos")
        THEN << [num |-> 2, wt |-> VARINT, val |-> ToUnsigned64(r.nanos)] >>
        ELSE << >>)
  \o r.unknown

(* ByteSizeLong: the size of the known fields, one tag byte plus the       *)
(* varint of each emitted field, plus the size of the unknown fields       *)
(* (MaybeComputeUnknownFieldsSize).                                        *)
\* Mutation: nanos counted whenever its bit is set, even when it is 0.
KnownFieldsSizeNanosZero(r) ==
  IF r.hasbits \cap HasBitsMask = {} THEN 0
  ELSE (IF Emits(r, SecondsBit, "seconds") THEN 1 + Int64Size(r.seconds)
                                           ELSE 0)
     + (IF NanosBit \in r.hasbits THEN 1 + Int32Size(r.nanos) ELSE 0)

KnownFieldsSize(r) ==
  IF r.hasbits \cap HasBitsMask = {} THEN 0
  ELSE (IF Emits(r, SecondsBit, "seconds") THEN 1 + Int64Size(r.seconds)
                                           ELSE 0)
     + (IF Emits(r, NanosBit, "nanos") THEN 1 + Int32Size(r.nanos) ELSE 0)

ByteSizeLong(r) == KnownFieldsSize(r) + WireSize(r.unknown)

\* Mutation: the has bits of from are not OR'd into to.
MergeImplNoHasBits(to, from) ==
  [to EXCEPT
     !.seconds = IF Emits(from, SecondsBit, "seconds") THEN from.seconds
                                                       ELSE @,
     !.nanos   = IF Emits(from, NanosBit, "nanos") THEN from.nanos ELSE @,
     !.unknown = @ \o from.unknown]

\* Mutation: from's unknown fields placed before to's.
MergeImplUnknownFirst(to, from) ==
  [to EXCEPT
     !.seconds = IF Emits(from, SecondsBit, "seconds") THEN from.seconds
                                                       ELSE @,
     !.nanos   = IF Emits(from, NanosBit, "nanos") THEN from.nanos ELSE @,
     !.hasbits = @ \cup from.hasbits,
     !.unknown = from.unknown \o @]

(* MergeImpl(to, from): a field of from overwrites to's only when its has  *)
(* bit is set and its value is not 0; from's has bits are OR'd into to's,  *)
(* whether or not the value was copied; from's unknown fields are          *)
(* appended to to's.                                                       *)
MergeImpl(to, from) ==
  [to EXCEPT
     !.seconds = IF Emits(from, SecondsBit, "seconds") THEN from.seconds
                                                       ELSE @,
     !.nanos   = IF Emits(from, NanosBit, "nanos") THEN from.nanos ELSE @,
     !.hasbits = @ \cup from.hasbits,
     !.unknown = @ \o from.unknown]

(* InternalSwap: exchanges the metadata, the has bits and the bytes        *)
(* seconds_ .. nanos_.                                                     *)
SwapFields(r, other) ==
  [r EXCEPT !.seconds = other.seconds, !.nanos = other.nanos,
            !.hasbits = other.hasbits, !.unknown = other.unknown]

(* The parse table _table_: the fast entries for tags 8 (seconds) and 16   *)
(* (nanos) are SingularVarintNoZag1, which store the value and set the     *)
(* has bit (last one wins); any other field number or wire type goes to    *)
(* GenericFallback, which keeps the record as an unknown field.            *)
Recognized(rec) == rec.num \in {1, 2} /\ rec.wt = VARINT

ParseField(r, rec) ==
  CASE rec.num = 1 /\ rec.wt = VARINT ->
         [r EXCEPT !.seconds = Int64FromWire(rec.val),
                   !.hasbits = @ \cup {SecondsBit}]
    [] rec.num = 2 /\ rec.wt = VARINT ->
         [r EXCEPT !.nanos = Int32FromWire(rec.val),
                   !.hasbits = @ \cup {NanosBit}]
    [] OTHER -> [r EXCEPT !.unknown = Append(@, rec)]

(* What the parse loop computes from r when it reads all of in; the model  *)
(* takes one step per record (ParseStep), this is for the properties.      *)
ParseInto(r, in) ==
  LET st[i \in 0 .. Len(in)] ==
        IF i = 0 THEN r ELSE ParseField(st[i - 1], in[i])
  IN  st[Len(in)]

(***************************************************************************)
(* Actions.  No call runs while a parse is in progress (one thread per     *)
(* message, section 5), so every other action requires ~parser.busy.       *)
(* WithinBound(r) is the model's bound on the unknown store.               *)
(***************************************************************************)
WithinBound(r) == Len(r.unknown) <= MaxUnknown

Idle == ~parser.busy

Update(m, r) ==
  /\ Idle
  /\ WithinBound(r)
  /\ msg' = [msg EXCEPT ![m] = r]
  /\ UNCHANGED parser

\* set_seconds / set_nanos (duration.pb.h): store the value, set the bit.
SetSeconds(m, v) ==
  Update(m, [msg[m] EXCEPT !.seconds = v, !.hasbits = @ \cup {SecondsBit}])

SetNanos(m, v) ==
  Update(m, [msg[m] EXCEPT !.nanos = v, !.hasbits = @ \cup {NanosBit}])

\* clear_seconds / clear_nanos (duration.pb.h): zero the value and the bit.
ClearSeconds(m) ==
  Update(m, [msg[m] EXCEPT !.seconds = 0, !.hasbits = @ \ {SecondsBit}])

ClearNanos(m) ==
  Update(m, [msg[m] EXCEPT !.nanos = 0, !.hasbits = @ \ {NanosBit}])

Clear(m) == Update(m, ClearFields(msg[m]))

(* MergeFrom: the DCHECK against self-merge is compiled out of release     *)
(* builds, so a message may be merged into itself.                         *)
MergeFrom(to, from) == Update(to, MergeImpl(msg[to], msg[from]))

\* CopyFrom returns early on self-copy, else Clear() then MergeFrom(from).
CopyFrom(to, from) ==
  /\ to # from
  /\ Update(to, MergeImpl(ClearFields(msg[to]), msg[from]))

InternalSwap(a, b) ==
  /\ Idle
  /\ a # b
  /\ msg' = [msg EXCEPT ![a] = SwapFields(msg[a], msg[b]),
                        ![b] = SwapFields(msg[b], msg[a])]
  /\ UNCHANGED parser

\* The parse of in into r stays within the bound on the unknown store.
ParseFits(r, in) == Len(r.unknown) + Len(SelectSeq(in, LAMBDA x : ~Recognized(x))) <= MaxUnknown

\* ParseFromString: Clear(), then the parse loop over in.
ParseFromString(m, in) ==
  /\ Idle
  /\ ParseFits(ClearFields(msg[m]), in)
  /\ msg' = [msg EXCEPT ![m] = ClearFields(@)]
  /\ parser' = [busy |-> TRUE, target |-> m, rest |-> in]

\* MergeFromString: the parse loop over the current contents.
MergeFromString(m, in) ==
  /\ Idle
  /\ ParseFits(msg[m], in)
  /\ parser' = [busy |-> TRUE, target |-> m, rest |-> in]
  /\ UNCHANGED msg

\* One iteration of the parse loop: the next record, by the parse table.
ParseStep ==
  /\ parser.busy /\ parser.rest # << >>
  /\ msg' = [msg EXCEPT ![parser.target] = ParseField(@, Head(parser.rest))]
  /\ parser' = [parser EXCEPT !.rest = Tail(@)]

\* The loop ends at the end of the input.
ParseDone ==
  /\ parser.busy /\ parser.rest = << >>
  /\ parser' = [parser EXCEPT !.busy = FALSE]
  /\ UNCHANGED msg

(* The input ends inside a field or holds a malformed varint: the parse    *)
(* fails and returns false, leaving the fields read so far in place.       *)
ParseFail ==
  /\ parser.busy /\ parser.rest # << >>
  /\ parser' = [parser EXCEPT !.busy = FALSE, !.rest = << >>]
  /\ UNCHANGED msg

Init ==
  /\ msg = [m \in Msg |-> NewMsg]
  /\ parser = [busy |-> FALSE, target |-> CHOOSE m \in Msg : TRUE, rest |-> << >>]

Next ==
  \/ \E m \in Msg, v \in SecondsVals : SetSeconds(m, v)
  \/ \E m \in Msg, v \in NanosVals : SetNanos(m, v)
  \/ \E m \in Msg : ClearSeconds(m) \/ ClearNanos(m) \/ Clear(m)
  \/ \E to, from \in Msg : MergeFrom(to, from) \/ CopyFrom(to, from)
  \/ \E a, b \in Msg : InternalSwap(a, b)
  \/ \E m \in Msg, in \in ParseInputs :
       ParseFromString(m, in) \/ MergeFromString(m, in)
  \/ ParseStep \/ ParseDone \/ ParseFail

Spec == Init /\ [][Next]_vars


-----------------------------------------------------------------------------
(***************************************************************************)
(* Properties.                                                             *)
(***************************************************************************)
TypeOK ==
  /\ msg \in [Msg -> MsgState]
  /\ parser \in [busy : BOOLEAN, target : Msg, rest : Seq(WireRecord)]

(* Every non-zero field value has its has bit set.  Clear() zeroes the     *)
(* values only when a has bit is set, and serialization, ByteSizeLong and *)
(* MergeImpl skip a field whose bit is clear: a non-zero value behind a    *)
(* clear bit would survive Clear() and vanish from the wire.  It has to    *)
(* hold across setters, merges (which OR the bits), swaps and parses.      *)
HasBitCoversValue ==
  \A m \in Msg :
    /\ msg[m].seconds # 0 => SecondsBit \in msg[m].hasbits
    /\ msg[m].nanos # 0 => NanosBit \in msg[m].hasbits

(* Merge associativity (spec section 8): merging b and then c into a      *)
(* gives the same message -- values, has bits and unknown fields -- as     *)
(* merging into a the result of merging c into b.  MergeImpl copies a      *)
(* value only when its bit is set and it is not 0, so this needs the has   *)
(* bits of every reachable message to cover its values: a non-zero value  *)
(* behind a clear bit is skipped by one order and copied by the other.    *)
MergeAssociative ==
  \A a, b, c \in Msg :
    MergeImpl(MergeImpl(msg[a], msg[b]), msg[c])
      = MergeImpl(msg[a], MergeImpl(msg[b], msg[c]))

\* What a user of the class observes: the getters and the unknown fields.
Observe(r) == [seconds |-> r.seconds, nanos |-> r.nanos, unknown |-> r.unknown]

(* Round trip (spec section 8): parsing what _InternalSerialize writes     *)
(* into a fresh message gives back the same seconds, nanos and unknown     *)
(* fields, for every message the operations can reach; this covers the    *)
(* sign extension of a negative nanos and the int32 truncation on parse.   *)
RoundTrip ==
  \A m \in Msg :
    Observe(ParseInto(NewMsg, InternalSerialize(msg[m]))) = Observe(msg[m])

(* The sizing pass agrees with the writing pass: ByteSizeLong equals the   *)
(* number of bytes _InternalSerialize writes.  A parent writes a           *)
(* submessage's length prefix from this size before its bytes, so a       *)
(* disagreement corrupts the enclosing message.                            *)
SizeMatchesSerialization ==
  \A m \in Msg : ByteSizeLong(msg[m]) = WireSize(InternalSerialize(msg[m]))

(* The class implements the value-level specification DurationValue: the  *)
(* observed values evolve as that specification says every operation      *)
(* (setters, Clear, MergeFrom, CopyFrom, Swap, parsing, a failed parse)    *)
(* changes them.                                                           *)
(* While a parse runs, its target already shows, abstractly, the value the *)
(* loop will produce from the records still unread.                        *)
Observed(m) ==
  IF parser.busy /\ parser.target = m
    THEN Observe(ParseInto(msg[m], parser.rest))
    ELSE Observe(msg[m])

Abstract == INSTANCE DurationValue WITH val <- [m \in Msg |-> Observed(m)]

RefinesDurationValue == Abstract!Spec

=============================================================================
