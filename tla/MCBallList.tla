------------------------------ MODULE MCBallList ------------------------------
(***************************************************************************)
(* Instances of BallList for TLC.                                          *)
(***************************************************************************)
EXTENDS BallListProofs, TLC

Symmetry == Permutations(Nodes) \cup Permutations(Owners)
===============================================================================
