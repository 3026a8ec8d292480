----------------------- MODULE DurationRefinementProofs -----------------------
(***************************************************************************)
(* The refinement of DurationValue by Duration, proved step by step for    *)
(* every operation of the class that does not parse: the setters,         *)
(* clear_seconds / clear_nanos, Clear, MergeFrom (self-merge included),    *)
(* CopyFrom and InternalSwap.  Each is shown to change the observed values *)
(* exactly as its abstract counterpart does.  The parse actions map        *)
(* through ParseInto, a recursive function whose defining equation the     *)
(* provers cannot obtain, so their steps are checked by TLC only.          *)
(***************************************************************************)
EXTENDS DurationProofs

\* The class without its parser: every operation but the parse calls.
NextNoParse ==
  \/ \E m \in Msg, v \in SecondsVals : SetSeconds(m, v)
  \/ \E m \in Msg, v \in NanosVals : SetNanos(m, v)
  \/ \E m \in Msg : ClearSeconds(m) \/ ClearNanos(m) \/ Clear(m)
  \/ \E to, from \in Msg : MergeFrom(to, from) \/ CopyFrom(to, from)
  \/ \E a, b \in Msg : InternalSwap(a, b)

SpecNoParse == Init /\ [][NextNoParse]_vars

\* The abstract state under the refinement mapping.
absVal == [m \in Msg |-> Observed(m)]

\* The invariant the simulation needs: types, covering has bits, no parse.
RInv == TypeOK /\ HasBitCoversValue /\ ~parser.busy

-----------------------------------------------------------------------------
\* With no parse running, an instance shows the getters of its own state.
LEMMA ObservedIdle ==
  ASSUME ~parser.busy
  PROVE  absVal = [m \in Msg |-> Observe(msg[m])]
BY DEF absVal, Observed

LEMMA ObservedIdlePrimed ==
  ASSUME ~parser'.busy
  PROVE  absVal' = [m \in Msg |-> Observe(msg'[m])]
BY DEF absVal, Observed

(* A step that stores r into instance m, with no parse running, changes    *)
(* the abstract state at m only, to Observe(r).                            *)
LEMMA UpdateMaps ==
  ASSUME NEW m \in Msg, NEW r, RInv, Update(m, r)
  PROVE  absVal' = [absVal EXCEPT ![m] = Observe(r)]
<1>1. absVal = [n \in Msg |-> Observe(msg[n])]
  BY ObservedIdle DEF RInv
<1>2. absVal' = [n \in Msg |-> Observe(msg'[n])]
  BY ObservedIdlePrimed DEF RInv, Update
<1>3. msg' = [msg EXCEPT ![m] = r]
  BY DEF Update
<1>4. QED
  BY <1>1, <1>2, <1>3 DEF TypeOK, RInv

(* set_seconds(v) is the abstract Set of seconds to v: the has bit it also *)
(* sets is not observed.                                                   *)
LEMMA SetSecondsMaps ==
  ASSUME RInv, NEW m \in Msg, NEW v \in SecondsVals, SetSeconds(m, v)
  PROVE  Abstract!Set(m, "seconds", v)
<1> DEFINE q == [msg[m] EXCEPT !.seconds = v, !.hasbits = @ \cup {SecondsBit}]
<1>1. absVal' = [absVal EXCEPT ![m] = Observe(q)]
  BY UpdateMaps DEF SetSeconds
<1>2. absVal[m] = Observe(msg[m])
  BY ObservedIdle DEF RInv
<1>3. Observe(q) = [absVal[m] EXCEPT !.seconds = v]
  BY <1>2 DEF Observe, RInv, TypeOK, MsgState
<1>4. absVal' = [absVal EXCEPT ![m]["seconds"] = v]
  BY <1>1, <1>3
<1>5. QED
  BY <1>4 DEF absVal, Abstract!Set

(* set_nanos(v) is the abstract Set of nanos to v.                         *)
LEMMA SetNanosMaps ==
  ASSUME RInv, NEW m \in Msg, NEW v \in NanosVals, SetNanos(m, v)
  PROVE  Abstract!Set(m, "nanos", v)
<1> DEFINE q == [msg[m] EXCEPT !.nanos = v, !.hasbits = @ \cup {NanosBit}]
<1>1. absVal' = [absVal EXCEPT ![m] = Observe(q)]
  BY UpdateMaps DEF SetNanos
<1>2. absVal[m] = Observe(msg[m])
  BY ObservedIdle DEF RInv
<1>3. Observe(q) = [absVal[m] EXCEPT !.nanos = v]
  BY <1>2 DEF Observe, RInv, TypeOK, MsgState
<1>4. absVal' = [absVal EXCEPT ![m]["nanos"] = v]
  BY <1>1, <1>3
<1>5. QED
  BY <1>4 DEF absVal, Abstract!Set

(* clear_seconds() is the abstract Set of seconds to 0 (proto3: a field   *)
(* that is 0 is not set).                                                  *)
LEMMA ClearSecondsMaps ==
  ASSUME RInv, NEW m \in Msg, ClearSeconds(m)
  PROVE  Abstract!Set(m, "seconds", 0)
<1> DEFINE q == [msg[m] EXCEPT !.seconds = 0, !.hasbits = @ \ {SecondsBit}]
<1>1. absVal' = [absVal EXCEPT ![m] = Observe(q)]
  BY UpdateMaps DEF ClearSeconds
<1>2. absVal[m] = Observe(msg[m])
  BY ObservedIdle DEF RInv
<1>3. Observe(q) = [absVal[m] EXCEPT !.seconds = 0]
  BY <1>2 DEF Observe, RInv, TypeOK, MsgState
<1>4. absVal' = [absVal EXCEPT ![m]["seconds"] = 0]
  BY <1>1, <1>3
<1>5. QED
  BY <1>4 DEF absVal, Abstract!Set

(* clear_nanos() is the abstract Set of nanos to 0.                        *)
LEMMA ClearNanosMaps ==
  ASSUME RInv, NEW m \in Msg, ClearNanos(m)
  PROVE  Abstract!Set(m, "nanos", 0)
<1> DEFINE q == [msg[m] EXCEPT !.nanos = 0, !.hasbits = @ \ {NanosBit}]
<1>1. absVal' = [absVal EXCEPT ![m] = Observe(q)]
  BY UpdateMaps DEF ClearNanos
<1>2. absVal[m] = Observe(msg[m])
  BY ObservedIdle DEF RInv
<1>3. Observe(q) = [absVal[m] EXCEPT !.nanos = 0]
  BY <1>2 DEF Observe, RInv, TypeOK, MsgState
<1>4. absVal' = [absVal EXCEPT ![m]["nanos"] = 0]
  BY <1>1, <1>3
<1>5. QED
  BY <1>4 DEF absVal, Abstract!Set

(* Clear() empties the observed value.  This rests on the has bits        *)
(* covering the values: Clear() zeroes seconds_ and nanos_ only when a    *)
(* has bit is set, so a non-zero value behind clear bits would survive.   *)
LEMMA ClearMaps ==
  ASSUME RInv, NEW m \in Msg, Clear(m)
  PROVE  Abstract!ClearValue(m)
<1>1. absVal' = [absVal EXCEPT ![m] = Observe(ClearFields(msg[m]))]
  BY UpdateMaps DEF Clear
<1>2. msg[m] \in MsgState /\ Covers(msg[m])
  BY DEF RInv, TypeOK, HasBitCoversValue, Covers
<1>3. ClearFields(msg[m]).seconds = 0 /\ ClearFields(msg[m]).nanos = 0
  BY <1>2, ClearFieldsCovers
<1>4. ClearFields(msg[m]).unknown = << >>
  BY <1>2 DEF ClearFields, MsgState
<1>5. Observe(ClearFields(msg[m])) = Abstract!Empty
  BY <1>3, <1>4 DEF Observe, Abstract!Empty
<1>6. QED
  BY <1>1, <1>5 DEF absVal, Abstract!ClearValue

(* Under covering has bits, MergeImpl's test "has bit set and value not    *)
(* 0" is the abstract test "value not 0".                                  *)
LEMMA EmitsIsNonZero ==
  ASSUME NEW r, Covers(r)
  PROVE  /\ Emits(r, SecondsBit, "seconds") <=> r.seconds # 0
         /\ Emits(r, NanosBit, "nanos") <=> r.nanos # 0
BY DEF Emits, Covers

(* MergeImpl observes as MergeValue: a non-zero field of from replaces    *)
(* to's, and from's unknown fields follow to's.                            *)
LEMMA MergeImplObserved ==
  ASSUME NEW to \in MsgState, NEW from \in MsgState, Covers(from)
  PROVE  Observe(MergeImpl(to, from)) = Abstract!MergeValue(Observe(to), Observe(from))
<1>1. /\ MergeImpl(to, from).seconds =
           IF Emits(from, SecondsBit, "seconds") THEN from.seconds ELSE to.seconds
      /\ MergeImpl(to, from).nanos =
           IF Emits(from, NanosBit, "nanos") THEN from.nanos ELSE to.nanos
      /\ MergeImpl(to, from).unknown = to.unknown \o from.unknown
  BY DEF MergeImpl, MsgState
<1>2. QED
  BY <1>1, EmitsIsNonZero DEF Observe, Abstract!MergeValue

(* MergeFrom(from) is the abstract Merge, a self-merge included: both     *)
(* read the source before the write.                                       *)
LEMMA MergeFromMaps ==
  ASSUME RInv, NEW to \in Msg, NEW from \in Msg, MergeFrom(to, from)
  PROVE  Abstract!Merge(to, from)
<1>1. absVal' = [absVal EXCEPT ![to] = Observe(MergeImpl(msg[to], msg[from]))]
  BY UpdateMaps DEF MergeFrom
<1>2. msg[to] \in MsgState /\ msg[from] \in MsgState /\ Covers(msg[from])
  BY DEF RInv, TypeOK, HasBitCoversValue, Covers
<1>3. absVal[to] = Observe(msg[to]) /\ absVal[from] = Observe(msg[from])
  BY ObservedIdle DEF RInv
<1>4. Observe(MergeImpl(msg[to], msg[from]))
        = Abstract!MergeValue(absVal[to], absVal[from])
  BY <1>2, <1>3, MergeImplObserved
<1>5. absVal' = [absVal EXCEPT ![to] = Abstract!MergeValue(@, absVal[from])]
  BY <1>1, <1>4
<1>6. QED
  BY <1>5 DEF absVal, Abstract!Merge

(* CopyFrom(from) is the abstract Copy: Clear() then MergeFrom, that is    *)
(* the merge of from into the empty value.                                 *)
LEMMA CopyFromMaps ==
  ASSUME RInv, NEW to \in Msg, NEW from \in Msg, CopyFrom(to, from)
  PROVE  Abstract!Copy(to, from)
<1> DEFINE c == ClearFields(msg[to])
<1>1. absVal' = [absVal EXCEPT ![to] = Observe(MergeImpl(c, msg[from]))]
  BY UpdateMaps DEF CopyFrom
<1>2. msg[to] \in MsgState /\ Covers(msg[to])
      /\ msg[from] \in MsgState /\ Covers(msg[from])
  BY DEF RInv, TypeOK, HasBitCoversValue, Covers
<1>3. c \in MsgState
  BY <1>2, ClearFieldsType
<1>4. Observe(c) = Abstract!Empty
  <2>1. c.seconds = 0 /\ c.nanos = 0
    BY <1>2, ClearFieldsCovers
  <2>2. c.unknown = << >>
    BY <1>2 DEF ClearFields, MsgState
  <2>3. QED
    BY <2>1, <2>2 DEF Observe, Abstract!Empty
<1>5. absVal[from] = Observe(msg[from])
  BY ObservedIdle DEF RInv
<1>6. Observe(MergeImpl(c, msg[from])) = Abstract!MergeValue(Abstract!Empty, absVal[from])
  BY <1>2, <1>3, <1>4, <1>5, MergeImplObserved
<1>7. to # from
  BY DEF CopyFrom
<1>8. QED
  BY <1>1, <1>6, <1>7 DEF absVal, Abstract!Copy

(* InternalSwap is the abstract Swap: the fields, the has bits and the     *)
(* unknown fields of the two instances are exchanged together.            *)
LEMMA InternalSwapMaps ==
  ASSUME RInv, NEW a \in Msg, NEW b \in Msg, InternalSwap(a, b)
  PROVE  Abstract!Swap(a, b)
<1>1. msg[a] \in MsgState /\ msg[b] \in MsgState
  BY DEF RInv, TypeOK
<1>2. Observe(SwapFields(msg[a], msg[b])) = Observe(msg[b])
      /\ Observe(SwapFields(msg[b], msg[a])) = Observe(msg[a])
  BY <1>1 DEF SwapFields, Observe, MsgState
<1>3. absVal = [n \in Msg |-> Observe(msg[n])]
  BY ObservedIdle DEF RInv
<1>4. absVal' = [n \in Msg |-> Observe(msg'[n])]
  BY ObservedIdlePrimed DEF RInv, InternalSwap, Idle
<1>5. msg' = [msg EXCEPT ![a] = SwapFields(msg[a], msg[b]),
                         ![b] = SwapFields(msg[b], msg[a])]
      /\ a # b
  BY DEF InternalSwap
<1>6. absVal' = [absVal EXCEPT ![a] = absVal[b], ![b] = absVal[a]]
  BY <1>2, <1>3, <1>4, <1>5 DEF RInv, TypeOK
<1>7. QED
  BY <1>6 DEF absVal, Abstract!Swap

-----------------------------------------------------------------------------
(* Every operation of NextNoParse is an operation of the class.           *)
LEMMA NoParseIsNext == NextNoParse => Next
BY DEF NextNoParse, Next

(* RInv is inductive for the class without its parser: types and covering *)
(* has bits are kept by every step of Next, and no operation of           *)
(* NextNoParse starts a parse.                                             *)
LEMMA RInvStep == RInv /\ [NextNoParse]_vars => RInv'
<1> SUFFICES ASSUME RInv, [NextNoParse]_vars PROVE RInv'
  OBVIOUS
<1>1. [Next]_vars
  BY NoParseIsNext
<1>2. TypeOK' /\ HasBitCoversValue'
  BY <1>1, TypeOKStep, CoversStep DEF RInv
<1>3. UNCHANGED parser
  BY DEF NextNoParse, SetSeconds, SetNanos, ClearSeconds, ClearNanos, Clear,
         MergeFrom, CopyFrom, Update, InternalSwap, vars
<1>4. QED
  BY <1>2, <1>3 DEF RInv

(* Every step of the class without its parser is a step of DurationValue  *)
(* or leaves the observed values unchanged.                               *)
LEMMA RefinementStep == RInv /\ [NextNoParse]_vars => [Abstract!Next]_absVal
<1> SUFFICES ASSUME RInv, [NextNoParse]_vars PROVE [Abstract!Next]_absVal
  OBVIOUS
<1>1. ASSUME NEW m \in Msg, NEW v \in SecondsVals, SetSeconds(m, v)
      PROVE  Abstract!Next
  <2>1. v \in SecondsVals \cup {0}
    OBVIOUS
  <2>2. QED
    BY <1>1, <2>1, SetSecondsMaps DEF Abstract!Next
<1>2. ASSUME NEW m \in Msg, NEW v \in NanosVals, SetNanos(m, v)
      PROVE  Abstract!Next
  <2>1. v \in NanosVals \cup {0}
    OBVIOUS
  <2>2. QED
    BY <1>2, <2>1, SetNanosMaps DEF Abstract!Next
<1>3. ASSUME NEW m \in Msg, ClearSeconds(m) PROVE Abstract!Next
  <2>1. 0 \in SecondsVals \cup {0}
    OBVIOUS
  <2>2. QED
    BY <1>3, <2>1, ClearSecondsMaps DEF Abstract!Next
<1>4. ASSUME NEW m \in Msg, ClearNanos(m) PROVE Abstract!Next
  <2>1. 0 \in NanosVals \cup {0}
    OBVIOUS
  <2>2. QED
    BY <1>4, <2>1, ClearNanosMaps DEF Abstract!Next
<1>5. ASSUME NEW m \in Msg, Clear(m) PROVE Abstract!Next
  BY <1>5, ClearMaps DEF Abstract!Next
<1>6. ASSUME NEW to \in Msg, NEW from \in Msg, MergeFrom(to, from)
      PROVE  Abstract!Next
  BY <1>6, MergeFromMaps DEF Abstract!Next
<1>7. ASSUME NEW to \in Msg, NEW from \in Msg, CopyFrom(to, from)
      PROVE  Abstract!Next
  BY <1>7, CopyFromMaps DEF Abstract!Next
<1>8. ASSUME NEW a \in Msg, NEW b \in Msg, InternalSwap(a, b)
      PROVE  Abstract!Next
  BY <1>8, InternalSwapMaps DEF Abstract!Next
<1>9. CASE UNCHANGED vars
  BY <1>9 DEF vars, absVal, Observed
<1>10. QED
  BY <1>1, <1>2, <1>3, <1>4, <1>5, <1>6, <1>7, <1>8, <1>9 DEF NextNoParse

(* A new instance observes as the empty value.                             *)
LEMMA InitMaps == Init => Abstract!Init
<1> SUFFICES ASSUME Init PROVE absVal = [m \in Msg |-> Abstract!Empty]
  BY DEF absVal, Abstract!Init
<1>1. ~parser.busy
  BY DEF Init
<1>2. QED
  BY <1>1, ObservedIdle DEF Init, NewMsg, Observe, Abstract!Empty

LEMMA InitRInv == Init => RInv
<1> SUFFICES ASSUME Init PROVE RInv
  OBVIOUS
<1>1. NewMsg \in MsgState
  BY ZeroInRange DEF NewMsg, MsgState
<1>2. (CHOOSE m \in Msg : TRUE) \in Msg
  BY DurationAssumption
<1>3. TypeOK
  BY <1>1, <1>2 DEF Init, TypeOK
<1>4. QED
  BY <1>3 DEF Init, NewMsg, RInv, HasBitCoversValue

(* Refinement: with the parse calls left out, every behaviour of the      *)
(* class -- any sequence of set_seconds, set_nanos, clear_seconds,        *)
(* clear_nanos, Clear, MergeFrom (into itself too), CopyFrom and          *)
(* InternalSwap on any number of instances -- changes the observed        *)
(* seconds, nanos and unknown fields only as DurationValue says.  Has     *)
(* bits, the guarded memset of Clear() and the "bit and non-zero" test of *)
(* MergeImpl are invisible at the value level.                            *)
THEOREM NoParseRefinesDurationValue == SpecNoParse => RefinesDurationValue
<1>1. Init => RInv
  BY InitRInv
<1>2. Init => Abstract!Init
  BY InitMaps
<1>3. RInv /\ [NextNoParse]_vars => RInv'
  BY RInvStep
<1>4. RInv /\ [NextNoParse]_vars => [Abstract!Next]_absVal
  BY RefinementStep
<1>5. QED
  BY <1>1, <1>2, <1>3, <1>4, PTL DEF SpecNoParse, RefinesDurationValue,
                                     Abstract!Spec, absVal

=============================================================================
