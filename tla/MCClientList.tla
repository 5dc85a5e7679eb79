----------------------------- MODULE MCClientList -----------------------------
(***************************************************************************)
(* Instances of ClientList for TLC.                                        *)
(***************************************************************************)
EXTENDS ClientListProofs, TLC

Symmetry == Permutations(Workers) \cup Permutations(Nodes) \cup Permutations(Sockets)

\* Past the first race the properties of the run claim nothing, and races only
\* grows: TLC checks the states in which a race has just happened, and does not
\* go on from them.
NoRaceYet == races = {}
===============================================================================
