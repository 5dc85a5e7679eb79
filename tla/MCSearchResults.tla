--------------------------- MODULE MCSearchResults ---------------------------
(***************************************************************************)
(* Instances of SearchResults for TLC: excerpts of docs/html/search/all_1.js, *)
(* all_2.js and pages_0.js, in their order and with their numbers, the names  *)
(* shortened. Doxygen encodes a name as convertToId does and appends a number. *)
(***************************************************************************)
EXTENDS SearchResultsProofs

b == 98
c == 99
d == 100
g == 103
l == 108
m == 109
r == 114
Digits(n) == IF n < 10 THEN <<48 + n>> ELSE <<48 + n \div 10, 48 + (n % 10)>>

DoxygenRow(name, results, number) ==
  [id |-> convertToId(Lower(name)) \o <<Underscore>> \o Digits(number),
   name |-> name,
   results |-> results]

\* b, ball_list_manager, ball_manager_init, BallListNode, broadcast_ball_state_all
\* and the page "Ball Game", which stands after the alphabet. The text "ball" hides
\* the row before the page.
DocumentB(results) ==
  << DoxygenRow(<<b>>, 1, 4),
     DoxygenRow(<<b, l, Underscore, l>>, 1, 5),
     DoxygenRow(<<b, l, Underscore, m>>, 2, 7),
     DoxygenRow(<<b - 32, l, l - 32>>, 3, 9),
     DoxygenRow(<<b, r>>, results, 11),
     DoxygenRow(<<b - 32, l, Space, g - 32>>, 1, 12) >>

\* cmd, CMD_DEL.
DocumentC ==
  << DoxygenRow(<<c>>, 1, 24),
     DoxygenRow(<<c - 32, Underscore, d - 32>>, 3, 26) >>

\* The page alone.
PageDocument == << DoxygenRow(<<b - 32, l, Space, g - 32>>, 1, 43) >>

\* broadcast_ball_state_all has two places, as in the repository, or only one.
Excerpts == {DocumentB(2), DocumentB(1), DocumentC, PageDocument}

\* "b", " BL_", "bl ", "bl g", "r", "c_d&" and "c$", which go on from a name into
\* the number of its id, and "c_24", which looks like an id.
Texts ==
  { <<b>>, <<Space, b - 32, l - 32, Underscore>>, <<b, l, Space>>, <<b, l, Space, g>>,
    <<r>>, <<c, Underscore, d, 38>>, <<c, 36>>, <<c, Underscore, 50, 52>> }

\* What the theorems assume of documents holds for these.
ASSUME DocumentAssumption == DoxygenIds
=============================================================================
