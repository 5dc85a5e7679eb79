----------------------------- MODULE MCTaskQueue -----------------------------
(***************************************************************************)
(* Instances of TaskQueue for TLC.                                         *)
(***************************************************************************)
EXTENDS TaskQueueProofs, TLC

Symmetry == Permutations(Workers)

\* For properties that speak of the running server only: states after SIGINT
\* are checked but not explored further.
WhileRunning == keepRunning
==============================================================================
