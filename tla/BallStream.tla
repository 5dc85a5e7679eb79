------------------------------ MODULE BallStream ------------------------------
(***************************************************************************)
(* The balls on their way to the screens: a worker that has executed a     *)
(* command replies to its client and sends every client its own balls; the *)
(* cycle thread sends every client all balls, again and again; the         *)
(* receiver of a client takes whatever it reads at once for the new list   *)
(* (server/server.c, server/localballmanager.c, client/client.c,           *)
(* client/screenballmanager.c).  The renderer draws that list as it is.    *)
(*                                                                         *)
(* The sockets carry bytes, without bounds between the messages: a read    *)
(* may take several messages or end within one, and since the server's     *)
(* sockets do not block, a write to a full socket loses its end.  Nobody   *)
(* leaves here (Session has that), and balls do not move.                  *)
(***************************************************************************)
EXTENDS Integers, Sequences, SequencesExt

CONSTANTS Clients,         \* the clients that may connect
          Workers,         \* the worker threads
          Readers,         \* those whose receivers run; the others read nothing
          StartBallCount,  \* START_BALL_COUNT
          MaxBalls,        \* bound: the balls ever added
          Buffer,          \* the pieces each client's connection holds
          Nobody,          \* "no client"
          Reply,           \* a text that is no ball, "OK ..." or an error
          Garbage          \* a ball on the screen that was not read from a frame

ASSUME StreamAssumption ==
  /\ Readers \subseteq Clients
  /\ Nobody \notin Clients
  /\ StartBallCount \in Nat \ {0} /\ MaxBalls \in Nat
  /\ Buffer \in [Clients -> Nat]

VARIABLES
  clients,  \* the client list
  joining,  \* the client that main has accepted and given no balls yet
  balls,    \* the server's balls, oldest first
  made,     \* history: the balls ever added
  locked,   \* the cycle thread holds mutex_ball
  cycle,    \* the cycle thread's buffer and position in the client list
  job,      \* what each worker is at
  stream,   \* what each client has been sent and has not read
  shown     \* each client's list of balls

server == <<clients, joining, balls, made>>
vars == <<server, locked, cycle, job, stream, shown>>

Balls == [owner : Clients, num : 1 .. MaxBalls]
\* A ball is sent as nine numbers and a bar, which a read or a write may cut.
First(b) == <<b, 1>>
Second(b) == <<b, 2>>  \* up to the bar
Pieces == (Balls \X {1, 2}) \cup {Reply}
Rest == [at |-> "rest", client |-> Nobody, cursor |-> 0, own |-> << >>]

At(w, label) == job[w].at = label
Become(w, j) == job' = [job EXCEPT ![w] = j]

Init ==
  /\ clients = << >> /\ joining = Nobody
  /\ balls = << >> /\ made = 0
  /\ locked = FALSE
  /\ cycle = [cursor |-> 0, frame |-> << >>]
  /\ job = [w \in Workers |-> Rest]
  /\ stream = [c \in Clients |-> << >>]
  /\ shown = [c \in Clients |-> << >>]

\* serialize_ball_list_all
Serialize(s) == FlattenSeq([i \in 1 .. Len(s) |-> <<First(s[i]), Second(s[i])>>])

PutAll(c, pieces) ==  \* mutant
  stream' = [stream EXCEPT ![c] = @ \o pieces]

\* send on a socket that does not block: what fits; nobody sends the rest
Put(c, pieces) ==
  LET space == Buffer[c] - Len(stream[c])
      sent  == IF Len(pieces) <= space THEN Len(pieces) ELSE space
  IN  stream' = [stream EXCEPT ![c] = @ \o SubSeq(pieces, 1, sent)]

-----------------------------------------------------------------------------
\* What the bound keeps for the client that is joining.
Due == IF joining = Nobody THEN 0 ELSE StartBallCount

\* Main accepts a client and, under mutex_ball, gives it its first balls.
Connect(c) ==
  /\ joining = Nobody
  /\ c \notin ToSet(clients)
  /\ made + StartBallCount <= MaxBalls
  /\ clients' = Append(clients, c)
  /\ joining' = c
  /\ UNCHANGED <<balls, made, locked, cycle, job, stream, shown>>

NewBalls(c, n) == [i \in 1 .. n |-> [owner |-> c, num |-> made + i]]

FirstBalls ==
  /\ joining # Nobody
  /\ ~locked
  /\ balls' = balls \o NewBalls(joining, StartBallCount)
  /\ made' = made + StartBallCount
  /\ joining' = Nobody
  /\ UNCHANGED <<clients, locked, cycle, job, stream, shown>>

(***************************************************************************)
(* A worker executes a command of client c, under mutex_ball, and replies  *)
(* and broadcasts without it.                                              *)
(***************************************************************************)
Delete(c) ==
  LET mine == {i \in 1 .. Len(balls) : balls[i].owner = c}
  IN  IF mine = {} THEN balls
      ELSE RemoveAt(balls, CHOOSE i \in mine : \A j \in mine : j <= i)

ExecuteUnlocked(w, c) ==  \* mutant
  /\ At(w, "rest")
  /\ c \in ToSet(clients)
  /\ \/ /\ made + Due < MaxBalls
        /\ balls' = balls \o NewBalls(c, 1)
        /\ made' = made + 1
     \/ balls' = Delete(c) /\ UNCHANGED made
     \/ UNCHANGED <<balls, made>>
  /\ Become(w, [Rest EXCEPT !.at = "reply", !.client = c])
  /\ UNCHANGED <<clients, joining, locked, cycle, stream, shown>>

\* a, d, and w or s
Execute(w, c) ==
  /\ At(w, "rest")
  /\ c \in ToSet(clients)
  /\ ~locked
  /\ \/ /\ made + Due < MaxBalls
        /\ balls' = balls \o NewBalls(c, 1)
        /\ made' = made + 1
     \/ balls' = Delete(c) /\ UNCHANGED made
     \/ UNCHANGED <<balls, made>>
  /\ Become(w, [Rest EXCEPT !.at = "reply", !.client = c])
  /\ UNCHANGED <<clients, joining, locked, cycle, stream, shown>>

\* a command in a wrong format, or that does not exist
Reject(w, c) ==
  /\ At(w, "rest")
  /\ c \in ToSet(clients)
  /\ Put(c, <<Reply>>)
  /\ UNCHANGED <<server, locked, cycle, job, shown>>

ReplyTo(w) ==
  /\ At(w, "reply")
  /\ Put(job[w].client, <<Reply>>)
  /\ Become(w, [Rest EXCEPT !.at = "serialize", !.cursor = 1])
  /\ UNCHANGED <<server, locked, cycle, shown>>

\* curr = curr->next
NextClient(w) ==
  Become(w, IF job[w].cursor = Len(clients) THEN Rest
            ELSE [Rest EXCEPT !.at = "serialize", !.cursor = job[w].cursor + 1])

\* serialize_ball_list
BallsOf(c) ==
  FlattenSeq([i \in 1 .. Len(balls) |->
    IF balls[i].owner = c THEN <<balls[i]>> ELSE << >>])

\* the balls of the client at hand
SerializeOwn(w) ==
  LET own == BallsOf(clients[job[w].cursor])
  IN  /\ At(w, "serialize")
      /\ IF own = << >> THEN NextClient(w)
         ELSE Become(w, [job[w] EXCEPT !.at = "send", !.own = own])
      /\ UNCHANGED <<server, locked, cycle, stream, shown>>

SendOwn(w) ==
  /\ At(w, "send")
  /\ Put(clients[job[w].cursor], Serialize(job[w].own))
  /\ NextClient(w)
  /\ UNCHANGED <<server, locked, cycle, shown>>

(***************************************************************************)
(* The cycle thread: a frame of all balls to every client, under           *)
(* mutex_ball from before the balls are serialized until the last send.    *)
(***************************************************************************)
StartFrame ==
  /\ ~locked
  /\ clients # << >>
  /\ locked' = TRUE
  /\ cycle' = [cursor |-> 1, frame |-> balls]
  /\ UNCHANGED <<server, job, stream, shown>>

SendFrameBlocking ==  \* mutant
  /\ locked
  /\ Len(stream[clients[cycle.cursor]]) + 2 * Len(cycle.frame) <= Buffer[clients[cycle.cursor]]
  /\ Put(clients[cycle.cursor], Serialize(cycle.frame))
  /\ IF cycle.cursor = Len(clients)
       THEN locked' = FALSE /\ cycle' = [cursor |-> 0, frame |-> << >>]
       ELSE cycle' = [cycle EXCEPT !.cursor = @ + 1] /\ UNCHANGED locked
  /\ UNCHANGED <<server, job, shown>>

SendFrame ==
  /\ locked
  /\ Put(clients[cycle.cursor], Serialize(cycle.frame))
  /\ IF cycle.cursor = Len(clients)
       THEN locked' = FALSE /\ cycle' = [cursor |-> 0, frame |-> << >>]
       ELSE cycle' = [cycle EXCEPT !.cursor = @ + 1] /\ UNCHANGED locked
  /\ UNCHANGED <<server, job, shown>>

(***************************************************************************)
(* The receiver: delete_all_ball, then a ball for every token between       *)
(* bars.  When sscanf does not find nine numbers, the others are what the  *)
(* memory held; what is left of two balls makes numbers of neither. A cut  *)
(* falls within the numbers here, so that both parts are no ball (a cut    *)
(* just before the bar would leave a whole one and an empty token).        *)
(***************************************************************************)
EndsToken(piece) == piece # Reply /\ piece = Second(piece[1])

\* Where the last token before piece i ends, or 0.
EndBefore(chunk, i) == Max({0} \cup {j \in 1 .. i - 1 : EndsToken(chunk[j])})

Tokens(chunk) ==
  FlattenSeq([i \in 1 .. Len(chunk) |->
    IF EndsToken(chunk[i]) \/ i = Len(chunk)
      THEN <<SubSeq(chunk, EndBefore(chunk, i) + 1, i)>> ELSE << >>])

Scanned(token) ==
  IF Len(token) = 2 /\ token[1] # Reply /\ token = <<First(token[1][1]), Second(token[1][1])>>
    THEN token[1][1] ELSE Garbage

Parsed(chunk) ==
  LET tokens == Tokens(chunk) IN [i \in 1 .. Len(tokens) |-> Scanned(tokens[i])]

RecvWholeBalls(c) ==  \* mutant
  \E n \in 1 .. Len(stream[c]) :
    /\ stream' = [stream EXCEPT ![c] = SubSeq(@, n + 1, Len(@))]
    /\ shown' = IF EndsToken(stream[c][n])
                  THEN [shown EXCEPT ![c] = Parsed(SubSeq(stream[c], 1, n))]
                  ELSE shown
    /\ UNCHANGED <<server, locked, cycle, job>>

Recv(c) ==
  \E n \in 1 .. Len(stream[c]) :
    /\ stream' = [stream EXCEPT ![c] = SubSeq(@, n + 1, Len(@))]
    /\ shown' = [shown EXCEPT ![c] = Parsed(SubSeq(stream[c], 1, n))]
    /\ UNCHANGED <<server, locked, cycle, job>>

-----------------------------------------------------------------------------
CycleStep == StartFrame \/ SendFrame
Broadcasting(w) == ReplyTo(w) \/ SerializeOwn(w) \/ SendOwn(w)

Next ==
  \/ \E c \in Clients : Connect(c)
  \/ FirstBalls
  \/ \E w \in Workers, c \in Clients : Execute(w, c) \/ Reject(w, c)
  \/ \E w \in Workers : Broadcasting(w)
  \/ CycleStep
  \/ \E c \in Readers : Recv(c)

\* The threads of the server run on, and so do the receivers; commands need
\* not come.  Main gets mutex_ball while the cycle thread sleeps.
Fairness ==
  /\ SF_vars(FirstBalls)
  /\ WF_vars(CycleStep)
  /\ \A w \in Workers : WF_vars(Broadcasting(w))
  /\ \A c \in Readers : WF_vars(Recv(c))

Spec == Init /\ [][Next]_vars /\ Fairness

-----------------------------------------------------------------------------
(***************************************************************************)
(* Properties                                                              *)
(***************************************************************************)
TypeOK ==
  /\ clients \in Seq(Clients) /\ joining \in Clients \cup {Nobody}
  /\ balls \in Seq(Balls) /\ made \in 0 .. MaxBalls
  /\ locked \in BOOLEAN
  /\ cycle.frame \in Seq(Balls)
  /\ cycle.cursor \in IF locked THEN 1 .. Len(clients) ELSE {0}
  /\ \A w \in Workers :
       /\ job[w].own \in Seq(Balls)
       /\ At(w, "reply") => job[w].client \in ToSet(clients)
       /\ At(w, "serialize") \/ At(w, "send") => job[w].cursor \in 1 .. Len(clients)
  /\ \A c \in Clients : /\ stream[c] \in Seq(Pieces) /\ Len(stream[c]) <= Buffer[c]
                        /\ shown[c] \in Seq(Balls \cup {Garbage})

\* A frame of the cycle thread is the same for all clients and still true
\* when the last of them is sent it, whatever the workers execute meanwhile.
FrameIsCurrent == locked => cycle.frame = balls

\* The client's list has a ball that the server has no more.
Outdated(c) == \E i \in 1 .. Len(shown[c]) : shown[c][i] \notin ToSet(balls) \cup {Garbage}

\* Balls that were deleted disappear from every screen (MaxBalls bounds the
\* deletions), with a worker's older frames still to come, reads that end
\* anywhere and writes that are cut off, if the server keeps some ball.  If it
\* does not, they stay: a frame without balls is no byte, and nothing is read.
GoneBallsVanish == <>[](balls # << >>) => \A c \in Readers : Outdated(c) ~> ~Outdated(c)

\* A client that reads nothing holds up nobody: the cycle thread gives mutex_ball
\* back, main gets it, and every worker comes to its next command.
NobodyHeldUp ==
  /\ []<>(~locked)
  /\ []<>(joining = Nobody)
  /\ \A w \in Workers : []<>At(w, "rest")
===============================================================================
