------------------------------- MODULE BallStore -------------------------------
(***************************************************************************)
(* What the server's ball list promises to the clients: the balls of all   *)
(* owners in the order of their creation, where an owner's new balls go to *)
(* the end and its newest or oldest ball may go away, the others keeping   *)
(* their order.  A new ball's id is the number of balls there are.         *)
(***************************************************************************)
EXTENDS Integers, Sequences

CONSTANT Owners

VARIABLE balls  \* the sequence of balls, records with an id and an owner

Init == balls = <<>>

Owned(o) == {i \in 1 .. Len(balls) : balls[i].owner = o}

Without(s, i) == [j \in 1 .. Len(s) - 1 |-> IF j < i THEN s[j] ELSE s[j + 1]]

Add(o) == balls' = Append(balls, [id |-> Len(balls), owner |-> o])

RemoveNewest(o) ==
  \E i \in Owned(o) :
    /\ \A j \in Owned(o) : j <= i
    /\ balls' = Without(balls, i)

RemoveOldest(o) ==
  \E i \in Owned(o) :
    /\ \A j \in Owned(o) : i <= j
    /\ balls' = Without(balls, i)

Next == \E o \in Owners : Add(o) \/ RemoveNewest(o) \/ RemoveOldest(o)

Spec == Init /\ [][Next]_balls
================================================================================
