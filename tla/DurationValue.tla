---------------------------- MODULE DurationValue ----------------------------
(***************************************************************************)
(* What a Duration message promises, stated from spec sections 4.1-4.5 at *)
(* the level of the values a user observes: seconds and nanos (a field is *)
(* "set" when it is not 0, proto3 implicit presence) and the unknown-field *)
(* store.  There are no has bits and no cached size here; Duration.tla     *)
(* implements this specification.                                          *)
(***************************************************************************)
EXTENDS WireFormat

CONSTANTS Msg, SecondsVals, NanosVals, ParseInputs

VARIABLE val   \* val[m]: the observed contents of instance m

Value == [seconds : Int64, nanos : Int32, unknown : Seq(WireRecord)]

Empty == [seconds |-> 0, nanos |-> 0, unknown |-> << >>]

(* Merge (4.4): a field set in src replaces dst's; the unknown fields of   *)
(* src follow dst's.                                                       *)
MergeValue(dst, src) ==
  [seconds |-> IF src.seconds # 0 THEN src.seconds ELSE dst.seconds,
   nanos   |-> IF src.nanos # 0 THEN src.nanos ELSE dst.nanos,
   unknown |-> dst.unknown \o src.unknown]

(* Parse (4.2): for each known field the last varint occurrence wins; every *)
(* occurrence the schema does not know (another field number, or a known  *)
(* number with another wire type) is kept, in order, as an unknown field.  *)
Occurrences(in, n) == {i \in DOMAIN in : in[i].num = n /\ in[i].wt = VARINT}

LastOccurrence(S) == CHOOSE i \in S : \A j \in S : j <= i

Decoded(in, n, old, Conv(_)) ==
  IF Occurrences(in, n) = {} THEN old
  ELSE Conv(in[LastOccurrence(Occurrences(in, n))].val)

IsUnknown(rec) == ~(rec.num \in {1, 2} /\ rec.wt = VARINT)

ParseValue(v, in) ==
  [seconds |-> Decoded(in, 1, v.seconds, Int64FromWire),
   nanos   |-> Decoded(in, 2, v.nanos, Int32FromWire),
   unknown |-> v.unknown \o SelectSeq(in, IsUnknown)]

Set(m, field, x) ==
  val' = [val EXCEPT ![m][field] = x]

ClearValue(m) == val' = [val EXCEPT ![m] = Empty]

Merge(to, from) == val' = [val EXCEPT ![to] = MergeValue(@, val[from])]

Copy(to, from) ==
  /\ to # from
  /\ val' = [val EXCEPT ![to] = MergeValue(Empty, val[from])]

Swap(a, b) == val' = [val EXCEPT ![a] = val[b], ![b] = val[a]]

Parse(m, in) == val' = [val EXCEPT ![m] = ParseValue(Empty, in)]

MergeParse(m, in) == val' = [val EXCEPT ![m] = ParseValue(@, in)]

(* A parse that fails (7) stops part-way: its target keeps what the       *)
(* records read before the failure produced, so the parse of the records  *)
(* left unread (a non-empty tail of the input) would have taken it to the *)
(* value a complete parse gives.  The other instances are untouched.      *)
ParseFailed(m) ==
  /\ val'[m] \in Value
  /\ \E s \in ParseInputs : \E k \in 1 .. Len(s) :
       val[m] = ParseValue(val'[m], SubSeq(s, k, Len(s)))
  /\ val' = [val EXCEPT ![m] = val'[m]]

Init == val = [m \in Msg |-> Empty]

Next ==
  \/ \E m \in Msg, x \in SecondsVals \cup {0} : Set(m, "seconds", x)
  \/ \E m \in Msg, x \in NanosVals \cup {0} : Set(m, "nanos", x)
  \/ \E m \in Msg : ClearValue(m)
  \/ \E to, from \in Msg : Merge(to, from) \/ Copy(to, from)
  \/ \E a, b \in Msg : Swap(a, b)
  \/ \E m \in Msg, in \in ParseInputs : Parse(m, in) \/ MergeParse(m, in)
  \/ \E m \in Msg : ParseFailed(m)

Spec == Init /\ [][Next]_val

=============================================================================
