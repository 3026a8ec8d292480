----------------------- MODULE DurationCachedSizeProofs -----------------------
(***************************************************************************)
(* Proofs about the life cycle of an instance: rebuilding an instance and  *)
(* the copy constructor, together with the class and ByteSizeLong, still  *)
(* implement DurationValue when the parse operations are left out.         *)
(***************************************************************************)
EXTENDS DurationCachedSize, DurationRefinementProofs

(* The class with its life cycle and sizing, without its parser.          *)
NextCachedNoParse ==
  \/ NextNoParse /\ UNCHANGED cachedSize
  \/ \E m \in Msg : ByteSize(m) \/ Recreate(m)
  \/ \E m, from \in Msg : CopyConstruct(m, from)

SpecCachedNoParse == InitCached /\ [][NextCachedNoParse]_cvars

(* A rebuilt instance observes as the empty value: SharedCtor zeroes the  *)
(* fields and the has bits, and there are no unknown fields.              *)
LEMMA RecreateMaps ==
  ASSUME RInv, NEW m \in Msg, Recreate(m)
  PROVE  Abstract!ClearValue(m)
<1>1. absVal = [n \in Msg |-> Observe(msg[n])]
  BY ObservedIdle DEF RInv
<1>2. absVal' = [n \in Msg |-> Observe(msg'[n])]
  BY ObservedIdlePrimed DEF RInv, Recreate, Idle
<1>3. msg' = [msg EXCEPT ![m] = NewMsg]
  BY DEF Recreate
<1>4. Observe(NewMsg) = Abstract!Empty
  BY DEF Observe, NewMsg, Abstract!Empty
<1>5. absVal' = [absVal EXCEPT ![m] = Abstract!Empty]
  BY <1>1, <1>2, <1>3, <1>4 DEF RInv, TypeOK
<1>6. QED
  BY <1>5 DEF absVal, Abstract!ClearValue

(* The copy constructor is the abstract Copy: Impl_ copied member by      *)
(* member and from's unknown fields merged into the empty metadata give   *)
(* the merge of from into the empty value.                                 *)
LEMMA CopyConstructMaps ==
  ASSUME RInv, NEW m \in Msg, NEW from \in Msg, CopyConstruct(m, from)
  PROVE  Abstract!Copy(m, from)
<1>1. absVal = [n \in Msg |-> Observe(msg[n])]
  BY ObservedIdle DEF RInv
<1>2. absVal' = [n \in Msg |-> Observe(msg'[n])]
  BY ObservedIdlePrimed DEF RInv, CopyConstruct, Idle
<1>3. msg' = [msg EXCEPT ![m] = msg[from]] /\ m # from
  BY DEF CopyConstruct
<1>4. msg[from] \in MsgState
  BY DEF RInv, TypeOK
<1>5. Observe(msg[from]) = Abstract!MergeValue(Abstract!Empty, Observe(msg[from]))
  BY <1>4 DEF Observe, Abstract!MergeValue, Abstract!Empty, MsgState
<1>6. absVal' = [absVal EXCEPT ![m] = Abstract!MergeValue(Abstract!Empty, absVal[from])]
  BY <1>1, <1>2, <1>3, <1>5 DEF RInv, TypeOK
<1>7. QED
  BY <1>3, <1>6 DEF absVal, Abstract!Copy

(* RInv is inductive for the life cycle too: a rebuilt instance is        *)
(* NewMsg and a copy is a reachable message.                              *)
LEMMA RInvCachedStep == RInv /\ [NextCachedNoParse]_cvars => RInv'
<1> SUFFICES ASSUME RInv, [NextCachedNoParse]_cvars PROVE RInv'
  OBVIOUS
<1>1. CASE NextNoParse /\ UNCHANGED cachedSize
  BY <1>1, RInvStep
<1>2. CASE UNCHANGED cvars
  BY <1>2, RInvStep DEF cvars, vars
<1>3. ASSUME NEW m \in Msg, ByteSize(m) PROVE RInv'
  BY <1>3 DEF ByteSize, RInv, TypeOK, HasBitCoversValue
<1>4. ASSUME NEW m \in Msg, Recreate(m) PROVE RInv'
  <2>1. NewMsg \in MsgState
    BY ZeroInRange DEF NewMsg, MsgState
  <2>2. QED
    BY <1>4, <2>1 DEF Recreate, Idle, RInv, TypeOK, HasBitCoversValue, NewMsg
<1>5. ASSUME NEW m \in Msg, NEW from \in Msg, CopyConstruct(m, from) PROVE RInv'
  BY <1>5 DEF CopyConstruct, Idle, RInv, TypeOK, HasBitCoversValue
<1>6. QED
  BY <1>1, <1>2, <1>3, <1>4, <1>5 DEF NextCachedNoParse

(* Every step of the life cycle maps to a step of DurationValue or leaves *)
(* the observed values unchanged.                                          *)
LEMMA CachedRefinementStep ==
  RInv /\ [NextCachedNoParse]_cvars => [Abstract!Next]_absVal
<1> SUFFICES ASSUME RInv, [NextCachedNoParse]_cvars PROVE [Abstract!Next]_absVal
  OBVIOUS
<1>1. CASE NextNoParse /\ UNCHANGED cachedSize
  BY <1>1, RefinementStep
<1>2. CASE UNCHANGED cvars
  BY <1>2 DEF cvars, absVal, Observed
<1>3. ASSUME NEW m \in Msg, ByteSize(m) PROVE [Abstract!Next]_absVal
  BY <1>3 DEF ByteSize, absVal, Observed
<1>4. ASSUME NEW m \in Msg, Recreate(m) PROVE [Abstract!Next]_absVal
  BY <1>4, RecreateMaps DEF Abstract!Next
<1>5. ASSUME NEW m \in Msg, NEW from \in Msg, CopyConstruct(m, from)
      PROVE  [Abstract!Next]_absVal
  BY <1>5, CopyConstructMaps DEF Abstract!Next
<1>6. QED
  BY <1>1, <1>2, <1>3, <1>4, <1>5 DEF NextCachedNoParse

(* Refinement for the life cycle: with the parse calls left out, every    *)
(* behaviour of the class together with ByteSizeLong, the destruction and *)
(* arena reconstruction of an instance and the copy constructor changes   *)
(* the observed values only as DurationValue says: a rebuilt instance is  *)
(* cleared and a copy-constructed one is a Copy, unknown fields included. *)
THEOREM CachedNoParseRefinesDurationValue == SpecCachedNoParse => RefinesDurationValue
<1>1. InitCached => RInv /\ Abstract!Init
  BY InitRInv, InitMaps DEF InitCached
<1>2. QED
  BY <1>1, RInvCachedStep, CachedRefinementStep, PTL
     DEF SpecCachedNoParse, RefinesDurationValue, Abstract!Spec, absVal

=============================================================================
