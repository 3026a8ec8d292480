----------------------------- MODULE MCDuration -----------------------------
(***************************************************************************)
(* Model-checking instance of Duration on a scaled wire format: varint     *)
(* bytes of 5 payload bits, int32 of 6 bits and int64 of 12 bits, so that  *)
(* varints take 1, 2 or 3 bytes and negative values take the longest one,  *)
(* as 10-byte varints do in the real format.                               *)
(***************************************************************************)
EXTENDS Duration, TLC

CONSTANTS m1, m2

MCMsg == {m1, m2}

\* 40 needs two varint bytes, -1 the longest varint (3 bytes).
MCSecondsVals == {40, -1}

\* -3 is sign-extended to 12 bits on the wire; 5 is a one-byte varint.
MCNanosVals == {-3, 5}

Rec(n, w, v) == [num |-> n, wt |-> w, val |-> v]

(* Inputs of the parser: a negative seconds; a nanos varint wider than     *)
(* int32 (a foreign writer), truncated to 6 bits; an explicit zero nanos;  *)
(* field 1 with the wrong wire type, kept as an unknown field; two         *)
(* occurrences of seconds, the last one zero.  A truncated input stops the *)
(* parse after its complete records, which are among these.                *)
MCParseInputs ==
  { << Rec(1, VARINT, 4095) >>,
    << Rec(2, VARINT, 100) >>,
    << Rec(2, VARINT, 0) >>,
    << Rec(1, LENGTH_DELIMITED, 1) >>,
    << Rec(1, VARINT, 40), Rec(1, VARINT, 0) >> }

(* Inputs for the unknown-field run: unknown records of three wire types, *)
(* one of them with a known field number, so that the order of merges    *)
(* and parses shows in the store.                                          *)
MCUnknownInputs ==
  { << Rec(3, LENGTH_DELIMITED, 1) >>,
    << Rec(1, LENGTH_DELIMITED, 0) >>,
    << Rec(4, FIXED32, 7), Rec(2, VARINT, 1) >> }

\* The instances are interchangeable.
MCSymmetry == Permutations(MCMsg)

=============================================================================
