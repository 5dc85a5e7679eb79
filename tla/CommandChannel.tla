---------------------------- MODULE CommandChannel ----------------------------
(***************************************************************************)
(* What the server's task queue promises to the threads around it: the     *)
(* commands that the main thread sends are handed to the worker threads    *)
(* one by one, in the order in which they were sent, each to one worker,   *)
(* and never more than Capacity of them are pending.  Commands are         *)
(* numbered in the order in which they are sent.                           *)
(*                                                                         *)
(* The promise is made while the server runs; once it has been stopped     *)
(* the channel says nothing more.                                          *)
(***************************************************************************)
EXTENDS Naturals

CONSTANTS Workers,  \* the threads that receive commands
          Capacity  \* the number of commands that may be pending

VARIABLES running,  \* FALSE once the server has been stopped
          sent,     \* the number of commands sent
          received, \* the number of commands received
          got       \* the last command each worker received, 0 for none

vars == <<running, sent, received, got>>

Init ==
  /\ running = TRUE
  /\ sent = 0
  /\ received = 0
  /\ got = [w \in Workers |-> 0]

Send ==
  /\ running
  /\ sent - received < Capacity
  /\ sent' = sent + 1
  /\ UNCHANGED <<running, received, got>>

Receive(w) ==
  /\ running
  /\ received < sent
  /\ received' = received + 1
  /\ got' = [got EXCEPT ![w] = received + 1]
  /\ UNCHANGED <<running, sent>>

Stop ==
  /\ running
  /\ running' = FALSE
  /\ UNCHANGED <<sent, received, got>>

Stopped ==
  /\ ~running
  /\ running' = FALSE

Next ==
  \/ Send
  \/ \E w \in Workers : Receive(w)
  \/ Stop
  \/ Stopped

Spec == Init /\ [][Next]_vars
===============================================================================
