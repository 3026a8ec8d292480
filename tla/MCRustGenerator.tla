-------------------------- MODULE MCRustGenerator --------------------------
(***************************************************************************)
(* A crate of two files a, b over external files c, d and a feature proto. *)
(* The request's public imports range over every acyclic graph whose edges *)
(* go forward in the order a, b, c, d (so no external file imports the     *)
(* crate), each file's imports listed in that order: chains through a      *)
(* crate file and diamonds both occur.                                     *)
(***************************************************************************)
EXTENDS RustGenerator, TLC

CONSTANTS a, b, c, d, feat, A1, B1, C1, D1, D2

Order == << a, b, c, d >>

MCFiles == {a, b, c, d, feat}
MCCrateFiles == << a, b >>

\* The files after position i of Order chosen by S, in order.
Forward(i, S) ==
  SelectSeq(SubSeq(Order, i + 1, 4), LAMBDA f : f \in S)

MCPublicDepGraphs ==
  { [f \in MCFiles |-> CASE f = a -> Forward(1, sa)
                         [] f = b -> Forward(2, sb)
                         [] f = c -> Forward(3, sc)
                         [] OTHER -> << >>] :
      sa \in SUBSET {b, c, d}, sb \in SUBSET {c, d}, sc \in SUBSET {d} }

MCDeps ==
  [f \in MCFiles |-> CASE f = a -> << b, c, feat >>
                       [] f = b -> << d, feat >>
                       [] f = c -> << d >>
                       [] OTHER -> << >>]
MCMessages ==
  [f \in MCFiles |-> CASE f = a -> << A1 >>
                       [] f = b -> << B1 >>
                       [] f = c -> << C1 >>
                       [] f = d -> << D1 >>
                       [] OTHER -> << >>]
MCEnums ==
  [f \in MCFiles |-> IF f = d THEN << D2 >> ELSE << >>]

=============================================================================
