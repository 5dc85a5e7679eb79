------------------------------ MODULE MCSession ------------------------------
(***************************************************************************)
(* Instances of Session for TLC.                                           *)
(***************************************************************************)
EXTENDS SessionProofs, TLC

CONSTANTS c1, c2

\* The first client plays, the second only comes and goes.
OnePlayer == c1 :> 1 @@ c2 :> 0
=============================================================================
