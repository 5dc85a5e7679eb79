----------------------------- MODULE MCBallMotion -----------------------------
(***************************************************************************)
(* Instances of BallMotion for TLC.                                        *)
(***************************************************************************)
EXTENDS BallMotion

SomeRadii == {-1, 0, 1, 3}
===============================================================================
