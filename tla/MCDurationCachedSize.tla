------------------------- MODULE MCDurationCachedSize -------------------------
(***************************************************************************)
(* Model-checking instance of DurationCachedSize on the scaled wire format *)
(* of MCDuration.  The values are fewer, since the cached sizes multiply   *)
(* the states of the two instances and the refinement check multiplies    *)
(* the cost of every state.                                                *)
(***************************************************************************)
EXTENDS DurationCachedSize, MCDuration

\* -1 is the longest varint (3 bytes), 5 a one-byte one: sizes 4 and 2.
MCCachedSecondsVals == {-1}
MCCachedNanosVals == {5}

(* An unknown record, which is what a copy construction that dropped the  *)
(* metadata would lose, and a nanos truncated to int32 by the parser.     *)
MCLifecycleParseInputs == { << Rec(1, LENGTH_DELIMITED, 1) >>, << Rec(2, VARINT, 100) >> }

=============================================================================
