----------------------------- MODULE MCBallStream -----------------------------
(***************************************************************************)
(* Instances of BallStream for TLC.                                        *)
(***************************************************************************)
EXTENDS BallStream

CONSTANTS Room,      \* what the connection of a reader holds
          SmallRoom  \* what the others' hold, which fill up for good

Rooms == [c \in Clients |-> IF c \in Readers THEN Room ELSE SmallRoom]
===============================================================================
