-------------------------- MODULE DurationCachedSize --------------------------
(***************************************************************************)
(* Duration with its _cached_size_ and the life cycle of an instance.      *)
(* ByteSizeLong stores the size it returns in _cached_size_ (the offset    *)
(* ClassData registers); the copy constructor copies Impl_ whole, cached   *)
(* size included, and the arena constructor resets it.  Every other        *)
(* operation of the class leaves _cached_size_ alone: InternalSwap         *)
(* exchanges the fields but not the cached sizes.  An enclosing message    *)
(* reads the size back in the writing pass of the same serialization call  *)
(* whose sizing pass stored it, so no operation can run in between; the    *)
(* stale sizes a swap or a copy leaves are overwritten before use.         *)
(***************************************************************************)
EXTENDS Duration

VARIABLES
  cachedSize  \* cachedSize[m]: _impl_._cached_size_ of instance m

cvars == <<msg, parser, cachedSize>>

(* The end of ByteSizeLong: MaybeComputeUnknownFieldsSize adds the size of *)
(* the unknown fields and stores the total in _cached_size_.               *)
StoreCachedSize(c, m) == [c EXCEPT ![m] = ByteSizeLong(msg[m])]

\* Impl_'s constructor and the constant initialiser set _cached_size_ to 0.
NewCachedSize == 0

InitCached ==
  /\ Init
  /\ cachedSize = [m \in Msg |-> NewCachedSize]

(* An operation of the class (Duration's Next): setters, Clear, merges,    *)
(* CopyFrom, InternalSwap and the parse loop leave _cached_size_ as it is. *)
ClassStep ==
  /\ Next
  /\ UNCHANGED cachedSize

\* ByteSizeLong called on m by a user: the size is computed and cached.
ByteSize(m) ==
  /\ Idle
  /\ cachedSize' = StoreCachedSize(cachedSize, m)
  /\ UNCHANGED <<msg, parser>>

(* The heap instance m is destroyed (SharedDtor deletes the unknown       *)
(* fields and destroys Impl_) and a new one is built in its place by the   *)
(* arena constructor: SharedCtor zeroes the fields and the has bits, and   *)
(* Impl_'s constructor sets _cached_size_ to 0.                            *)
Recreate(m) ==
  /\ Idle
  /\ msg' = [msg EXCEPT ![m] = NewMsg]
  /\ cachedSize' = [cachedSize EXCEPT ![m] = NewCachedSize]
  /\ UNCHANGED parser

\* Mutation: the copy constructor does not merge from's unknown fields.
CopyConstructNoMetadata(m, from) ==
  /\ Idle
  /\ m # from
  /\ msg' = [msg EXCEPT ![m] = [msg[from] EXCEPT !.unknown = << >>]]
  /\ cachedSize' = [cachedSize EXCEPT ![m] = cachedSize[from]]
  /\ UNCHANGED parser

(* m is destroyed and rebuilt by the copy constructor from another         *)
(* instance: Impl_ is copied member by member (has bits, seconds, nanos    *)
(* and _cached_size_), and from's unknown fields are merged into the new   *)
(* instance's empty metadata.                                              *)
CopyConstruct(m, from) ==
  /\ Idle
  /\ m # from
  /\ msg' = [msg EXCEPT ![m] = msg[from]]
  /\ cachedSize' = [cachedSize EXCEPT ![m] = cachedSize[from]]
  /\ UNCHANGED parser

NextCached ==
  \/ ClassStep
  \/ \E m \in Msg : ByteSize(m) \/ Recreate(m)
  \/ \E m, from \in Msg : CopyConstruct(m, from)

SpecCached == InitCached /\ [][NextCached]_cvars

=============================================================================
