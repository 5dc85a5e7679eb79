----------------------------- MODULE MCSearchBox -----------------------------
(***************************************************************************)
(* Instances of SearchBox for TLC: texts with and without spaces, a space, *)
(* a text that differs from another by an inner space only, the label      *)
(* itself; two filters, of which only the first lists all of them.         *)
(***************************************************************************)
EXTENDS SearchBoxProofs, TLC

Texts == {"", " ", "Search", "ab", "a b", " ab"}

WithoutLeading ==
  [t \in Texts |-> CASE t = " " -> "" [] t = " ab" -> "ab" [] OTHER -> t]

WithoutSpaces ==
  [t \in Texts |-> CASE t = " " -> "" [] t \in {"a b", " ab"} -> "ab" [] OTHER -> t]

TwoFilters == (0 :> {"ab", "a b", "Search"}) @@ (1 :> {"Search"})

Symmetry == Permutations(Timers)
=============================================================================
