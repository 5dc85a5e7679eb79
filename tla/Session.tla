------------------------------- MODULE Session -------------------------------
(***************************************************************************)
(* From a client's key press to the ball list and back: connections, the   *)
(* descriptors that name them, the edge-triggered epoll loop of main, the  *)
(* tasks, the worker threads and the balls of each owner.                  *)
(*                                                                         *)
(* The task queue is what CommandChannel promises, a bounded FIFO; the     *)
(* client list and the ball list are what ClientList and BallList keep     *)
(* under their mutexes. An owner id is a descriptor, and descriptors are   *)
(* used again: the model also keeps which client a task or a ball really   *)
(* comes from, which the server does not know, and who was given a         *)
(* descriptor too early (heirs).                                           *)
(***************************************************************************)
EXTENDS Integers, Sequences, FiniteSets, SequencesExt

CONSTANTS
  Clients, Nobody,
  MaxFd,       \* descriptors are 1 .. MaxFd: how many connections are open at once
  Workers,
  Capacity,    \* TASK_QUEUE_CAPACITY
  Lines,       \* the lines that users type besides x
  MaxCommands  \* per client, how many of them it sends before it leaves

ASSUME ClientsAssumption == Nobody \notin Clients
ASSUME SizeAssumption == MaxFd \in Nat \ {0} /\ Capacity \in Nat \ {0}
ASSUME CommandsAssumption == MaxCommands \in [Clients -> Nat]

Fds == 1 .. MaxFd
NoFd == 0
Listen == -1  \* the listening socket in a batch of events

\* A line typed: a or d, with a count or without, an exit or one with a count.
\* Other lines change nothing here.
Commands == {"a", "d", "x", "x:N"}
ASSUME LinesAssumption == Lines \subseteq Commands \ {"x"}
Exits == {"x", "x:N"}
Task == [fd : Fds, from : Clients, data : Seq(Commands)]
NoTask == [fd |-> NoFd]

\* A ball: the client it was created for, and whether this client was no longer
\* connected then.
Ball == [of : Clients, late : BOOLEAN]

VARIABLES
  phase,     \* per client: "away", "on", "parting" (x:N typed, which only the
             \* server takes for an exit), "leaving" (x typed), "waiting" (all
             \* sent, receiving until the server closes), "gone"
  sent,      \* per client: commands sent
  accepted,  \* the clients the server has accepted
  unread,    \* per client: the bytes in the server's receive buffer
  peer,      \* per descriptor: the client connected, or Nobody
  edges,     \* descriptors with an edge that epoll has not reported
  events,    \* what main still has to handle of the last epoll_wait
  greeting,  \* the connection whose first balls main is about to add
  pushing,   \* the task that main has received and not yet pushed
  queue,     \* the tasks pushed and not popped
  task,      \* per worker: the task it has popped
  purging,   \* per thread: the descriptor it has closed, whose balls it is about
             \* to delete
  balls,     \* per owner id: its balls, oldest first
  heirs,     \* clients given a descriptor that a task, an event or a removal
             \* under way still named
  swallowed  \* clients whose x came in one chunk with other bytes

clientVars == <<phase, sent, unread>>
mainVars == <<accepted, greeting, pushing, heirs, swallowed>>
vars == <<phase, sent, accepted, unread, peer, edges, events, greeting, pushing,
          queue, task, purging, balls, heirs, swallowed>>

Main == "main"
Threads == Workers \cup {Main}
ASSUME ThreadsAssumption == Main \notin Workers

Init ==
  /\ phase = [c \in Clients |-> "away"]
  /\ sent = [c \in Clients |-> 0]
  /\ accepted = {}
  /\ unread = [c \in Clients |-> << >>]
  /\ peer = [fd \in Fds |-> Nobody]
  /\ edges = {}
  /\ events = {}
  /\ greeting = NoTask
  /\ pushing = NoTask
  /\ queue = << >>
  /\ task = [w \in Workers |-> NoTask]
  /\ purging = [t \in Threads |-> NoFd]
  /\ balls = [fd \in Fds |-> << >>]
  /\ heirs = {}
  /\ swallowed = {}

FdsOf(c) == {fd \in Fds : peer[fd] = c}

\* The server has closed c's connection: c's recv returns 0.
Dropped(c) == c \in accepted /\ FdsOf(c) = {}

-----------------------------------------------------------------------------
(* Clients.                                                                 *)

Connect(c) ==
  /\ phase[c] = "away"
  /\ phase' = [phase EXCEPT ![c] = "on"]
  /\ UNCHANGED <<mainVars, sent, unread, peer, edges, events, queue, task,
                 purging, balls>>

\* Bytes reach the server, unless it has closed the connection.
Transmit(c, cmd) ==
  /\ unread' = IF Dropped(c) THEN unread
               ELSE [unread EXCEPT ![c] = Append(@, cmd)]
  /\ edges' = edges \cup FdsOf(c)

\* The loop of the sender.
Typing(c) == phase[c] \in {"on", "parting"}

\* The user types a line other than x, which it sends as it is.
SendCommand(c, cmd) ==
  /\ Typing(c)
  /\ sent[c] < MaxCommands[c]
  /\ sent' = [sent EXCEPT ![c] = @ + 1]
  /\ phase' = [phase EXCEPT ![c] = IF cmd = "x:N" THEN "parting" ELSE @]
  /\ Transmit(c, cmd)
  /\ UNCHANGED <<mainVars, peer, events, queue, task, purging, balls>>

\* The user types x: it is sent, and the sender ends by sending x once more.
TypeExit(c) ==
  /\ Typing(c)
  /\ phase' = [phase EXCEPT ![c] = "leaving"]
  /\ Transmit(c, "x")
  /\ UNCHANGED <<mainVars, sent, peer, events, queue, task, purging, balls>>

\* The last statement of the sender: after x, after SIGINT, or after the receiver
\* has seen the end of the connection.
SendLastExit(c) ==
  /\ Typing(c) \/ phase[c] = "leaving"
  /\ phase' = [phase EXCEPT ![c] = "waiting"]
  /\ Transmit(c, "x")
  /\ UNCHANGED <<mainVars, sent, peer, events, queue, task, purging, balls>>

\* The receiver has seen the end of the connection; main has joined the threads.
Finish(c) ==
  /\ phase[c] = "waiting"
  /\ Dropped(c)
  /\ phase' = [phase EXCEPT ![c] = "gone"]
  /\ UNCHANGED <<mainVars, sent, unread, peer, edges, events, queue, task,
                 purging, balls>>

\* The client is killed: the server sees the end of the connection.
Crash(c) ==
  /\ phase[c] \in {"on", "parting", "leaving", "waiting"}
  /\ phase' = [phase EXCEPT ![c] = "gone"]
  /\ edges' = edges \cup FdsOf(c)
  /\ UNCHANGED <<mainVars, sent, unread, peer, events, queue, task, purging,
                 balls>>

-----------------------------------------------------------------------------
(* Main.                                                                    *)

Readable(fd) ==
  /\ peer[fd] # Nobody
  /\ unread[peer[fd]] # << >> \/ phase[peer[fd]] = "gone"

Backlog == {c \in Clients : phase[c] # "away" /\ c \notin accepted}

MainFree == purging[Main] = NoFd /\ pushing = NoTask /\ greeting = NoTask

\* An edge is reported once, if there still is something to read.
EpollWait ==
  /\ MainFree
  /\ events = {}
  /\ events' = {fd \in edges : Readable(fd)}
                 \cup (IF Backlog # {} THEN {Listen} ELSE {})
  /\ events' # {}
  /\ edges' = {}
  /\ UNCHANGED <<clientVars, mainVars, peer, queue, task, purging, balls>>

FreeFds == {fd \in Fds : peer[fd] = Nobody}

\* Descriptor fd occurs in a variable of some thread or in the queue.
Named(fd) ==
  \/ fd \in events
  \/ greeting.fd = fd
  \/ pushing.fd = fd
  \/ \E i \in DOMAIN queue : queue[i].fd = fd
  \/ \E w \in Workers : task[w].fd = fd
  \/ \E t \in Threads : purging[t] = fd

\* accept returns the lowest free descriptor; the client is registered and listed.
Accept(c) ==
  /\ MainFree
  /\ Listen \in events
  /\ c \in Backlog
  /\ \E fd \in FreeFds :
       /\ \A other \in FreeFds : fd <= other
       /\ peer' = [peer EXCEPT ![fd] = c]
       /\ edges' = IF unread[c] # << >> \/ phase[c] = "gone"
                   THEN edges \cup {fd} ELSE edges
       /\ greeting' = [fd |-> fd, from |-> c]
       /\ heirs' = IF Named(fd) THEN heirs \cup {c} ELSE heirs
  /\ accepted' = accepted \cup {c}
  /\ events' = events \ {Listen}
  /\ UNCHANGED <<clientVars, pushing, queue, task, purging, balls, swallowed>>

\* accept fails, for example because all descriptors are used.
AcceptNone ==
  /\ MainFree
  /\ Listen \in events
  /\ events' = events \ {Listen}
  /\ UNCHANGED <<clientVars, mainVars, peer, edges, queue, task, purging, balls>>

\* add_ball for client c under owner id fd.
AddBall(fd, c) ==
  balls' = [balls EXCEPT ![fd] = Append(@, [of |-> c, late |-> peer[fd] # c])]

\* The first balls of a new client, here one.
Greet ==
  /\ greeting # NoTask
  /\ AddBall(greeting.fd, greeting.from)
  /\ greeting' = NoTask
  /\ UNCHANGED <<clientVars, accepted, peer, edges, events, pushing, queue, task,
                 purging, heirs, swallowed>>

\* recv returns all bytes there are; they make one task.
Receive(fd) ==
  LET c == peer[fd]
  IN /\ MainFree
     /\ fd \in events
     /\ c # Nobody
     /\ unread[c] # << >>
     /\ pushing' = [fd |-> fd, from |-> c, data |-> unread[c]]
     /\ unread' = [unread EXCEPT ![c] = << >>]
     /\ swallowed' = IF Len(unread[c]) > 1 /\ Contains(unread[c], "x")
                     THEN swallowed \cup {c} ELSE swallowed
     /\ events' = events \ {fd}
     /\ UNCHANGED <<phase, sent, accepted, peer, edges, greeting, queue, task,
                    purging, balls, heirs>>

PushOver ==  \* mutant: room is not checked
  /\ pushing # NoTask
  /\ queue' = Append(queue, pushing)
  /\ pushing' = NoTask
  /\ UNCHANGED <<clientVars, accepted, peer, edges, events, greeting, task,
                 purging, balls, heirs, swallowed>>

\* task_queue_push waits for room.
Push ==
  /\ pushing # NoTask
  /\ Len(queue) < Capacity
  /\ queue' = Append(queue, pushing)
  /\ pushing' = NoTask
  /\ UNCHANGED <<clientVars, accepted, peer, edges, events, greeting, task,
                 purging, balls, heirs, swallowed>>

RemoveOpen(t, fd) ==  \* mutant: the connection is not closed
  /\ peer' = peer
  /\ edges' = edges \ {fd}
  /\ purging' = [purging EXCEPT ![t] = fd]

\* remove_client_by_socket, epoll_ctl, shutdown, close under mutex_client, by
\* thread t; it goes on to delete the balls.
RemoveClient(t, fd) ==
  /\ peer' = [peer EXCEPT ![fd] = Nobody]
  /\ edges' = edges \ {fd}
  /\ purging' = [purging EXCEPT ![t] = fd]

DisconnectHeard(fd) ==  \* mutant: len <= 1
  /\ MainFree
  /\ fd \in events \ {Listen}
  /\ peer[fd] # Nobody => Len(unread[peer[fd]]) <= 1
  /\ events' = events \ {fd}
  /\ RemoveClient(Main, fd)
  /\ UNCHANGED <<clientVars, mainVars, queue, task, balls>>

\* recv returns 0 at the end of a connection, and -1 for a closed descriptor and
\* for one without data: all are taken for the end.
Disconnect(fd) ==
  /\ MainFree
  /\ fd \in events \ {Listen}
  /\ peer[fd] # Nobody => unread[peer[fd]] = << >>
  /\ events' = events \ {fd}
  /\ RemoveClient(Main, fd)
  /\ UNCHANGED <<clientVars, mainVars, queue, task, balls>>

-----------------------------------------------------------------------------
(* Workers.                                                                 *)

Pop(w) ==
  /\ task[w] = NoTask
  /\ purging[w] = NoFd
  /\ queue # << >>
  /\ task' = [task EXCEPT ![w] = Head(queue)]
  /\ queue' = Tail(queue)
  /\ UNCHANGED <<clientVars, mainVars, peer, edges, events, purging, balls>>

\* parseCommand: one letter is a command. Several commands in one chunk are
\* invalid, except that a first one with a count ("a:3", "x:N") is taken and the
\* others are lost.
Parses(data, cmd) ==
  /\ cmd = data[1]
  /\ Len(data) = 1 \/ cmd # "x"

Rejects(data) == Len(data) > 1 /\ data[1] # "x:N"

Reject(w) ==
  /\ task[w] # NoTask
  /\ Rejects(task[w].data)
  /\ task' = [task EXCEPT ![w] = NoTask]
  /\ UNCHANGED <<clientVars, mainVars, peer, edges, events, queue, purging,
                 balls>>

\* handle_add and handle_delete under mutex_ball; the reply and the broadcast
\* after it change nothing here.
Add(w) ==
  /\ task[w] # NoTask
  /\ Parses(task[w].data, "a")
  /\ AddBall(task[w].fd, task[w].from)
  /\ task' = [task EXCEPT ![w] = NoTask]
  /\ UNCHANGED <<clientVars, mainVars, peer, edges, events, queue, purging>>

Newest(s) == IF s = << >> THEN s ELSE SubSeq(s, 1, Len(s) - 1)

DeleteAnyones(w) ==  \* mutant: the owner is not compared
  /\ task[w] # NoTask
  /\ Parses(task[w].data, "d")
  /\ \E fd \in Fds : balls' = [balls EXCEPT ![fd] = Newest(@)]
  /\ task' = [task EXCEPT ![w] = NoTask]
  /\ UNCHANGED <<clientVars, mainVars, peer, edges, events, queue, purging>>

Delete(w) ==
  /\ task[w] # NoTask
  /\ Parses(task[w].data, "d")
  /\ balls' = [balls EXCEPT ![task[w].fd] = Newest(@)]
  /\ task' = [task EXCEPT ![w] = NoTask]
  /\ UNCHANGED <<clientVars, mainVars, peer, edges, events, queue, purging>>

Exit(w) ==
  /\ task[w] # NoTask
  /\ \E exit \in Exits : Parses(task[w].data, exit)
  /\ RemoveClient(w, task[w].fd)
  /\ task' = [task EXCEPT ![w] = NoTask]
  /\ UNCHANGED <<clientVars, mainVars, events, queue, balls>>

PurgeNewest(t) ==  \* mutant: one ball only
  /\ purging[t] # NoFd
  /\ balls' = [balls EXCEPT ![purging[t]] = Newest(@)]
  /\ purging' = [purging EXCEPT ![t] = NoFd]
  /\ UNCHANGED <<clientVars, mainVars, peer, edges, events, queue, task>>

\* delete_ball_by_socket under mutex_ball, after a removal.
Purge(t) ==
  /\ purging[t] # NoFd
  /\ balls' = [balls EXCEPT ![purging[t]] = << >>]
  /\ purging' = [purging EXCEPT ![t] = NoFd]
  /\ UNCHANGED <<clientVars, mainVars, peer, edges, events, queue, task>>

-----------------------------------------------------------------------------

ClientStep(c) ==
  \/ Connect(c)
  \/ \E cmd \in Lines : SendCommand(c, cmd)
  \/ TypeExit(c)
  \/ SendLastExit(c)
  \/ Finish(c)
  \/ Crash(c)

MainStep ==
  \/ EpollWait
  \/ \E c \in Clients : Accept(c)
  \/ AcceptNone
  \/ Greet
  \/ \E fd \in Fds : Receive(fd) \/ Disconnect(fd)
  \/ Push
  \/ Purge(Main)

WorkerStep(w) ==
  \/ Pop(w)
  \/ Reject(w)
  \/ Add(w)
  \/ Delete(w)
  \/ Exit(w)
  \/ Purge(w)

Next ==
  \/ \E c \in Clients : ClientStep(c)
  \/ MainStep
  \/ \E w \in Workers : WorkerStep(w)

Spec == Init /\ [][Next]_vars

\* The scheduler runs the server's threads, which all loop and wait for nothing
\* but the queue and the sockets. Clients owe nothing.
FairSpec ==
  /\ Spec
  /\ WF_vars(MainStep)
  /\ \A w \in Workers : WF_vars(WorkerStep(w))

-----------------------------------------------------------------------------
(* Properties                                                               *)

\* Types; no descriptor is open for two clients, and balls have owners
\* (main.c 103-171, server.c 170-244).
TypeOK ==
  /\ phase \in [Clients -> {"away", "on", "parting", "leaving", "waiting", "gone"}]
  /\ sent \in [Clients -> Nat]
  /\ \A c \in Clients : sent[c] <= MaxCommands[c]
  /\ accepted \subseteq Clients
  /\ unread \in [Clients -> Seq(Commands)]
  /\ peer \in [Fds -> Clients \cup {Nobody}]
  /\ edges \subseteq Fds
  /\ events \subseteq Fds \cup {Listen}
  /\ greeting \in [fd : Fds, from : Clients] \cup {NoTask}
  /\ pushing \in Task \cup {NoTask}
  /\ queue \in Seq(Task)
  /\ Len(queue) <= Capacity
  /\ task \in [Workers -> Task \cup {NoTask}]
  /\ purging \in [Threads -> Fds \cup {NoFd}]
  /\ balls \in [Fds -> Seq(Ball)]
  /\ heirs \subseteq Clients
  /\ swallowed \subseteq Clients

\* No ball outlives its client, however it leaves and whatever the order in which
\* main and the workers remove it, delete its balls and run its last commands: a
\* ball belongs to the client connected under its id, or a removal of a client of
\* this id is not over. The one ball that stays behind, and that the next client
\* with the id inherits, is one that was itself added after its client's removal
\* (server.c 203-222, main.c 127-130 and 139-157).
BallsOfClient ==
  \A fd \in Fds : \A i \in DOMAIN balls[fd] :
    \/ balls[fd][i].of = peer[fd]
    \/ balls[fd][i].late
    \/ \E t \in Threads : purging[t] = fd

\* Thread w executes a delete that client c sent.
Deletes(w, c) ==
  /\ task[w] # NoTask
  /\ task[w].from = c
  /\ Parses(task[w].data, "d")
  /\ task'[w] = NoTask

\* While a client plays, no ball under its id is deleted but by its own commands:
\* not by those of others, and not by the removal of an earlier client with this
\* id. The code does not promise it to an heir, a client that was given its
\* descriptor while a task, an event or a removal under way still named it: the
\* removal then deletes the heir's first balls (main.c 122-157, server.c 203-240).
KeepsItsBalls ==
  [][\A fd \in Fds :
       peer[fd] # Nobody /\ phase[peer[fd]] = "on" /\ peer[fd] \notin heirs
         /\ Len(balls'[fd]) < Len(balls[fd])
       => \E w \in Workers : Deletes(w, peer[fd])]_vars

\* Nobody is disconnected who does not leave: while a client plays, its connection
\* stays, although tasks, events and two ways to remove a client name it by a
\* number. (A client that typed x:N has asked to leave.)
DropsOnlyLeavers ==
  [][\A fd \in Fds :
       peer[fd] # Nobody /\ phase[peer[fd]] = "on" => peer'[fd] = peer[fd]]_vars

\* What the code keeps of DropsOnlyLeavers: only an heir is ever disconnected while
\* it plays, one that was given its descriptor while a task, an event or a removal
\* under way still named it (main.c 112-157, server.c 198-222).
DropsOnlyHeirs ==
  [][\A fd \in Fds :
       peer[fd] # Nobody /\ phase[peer[fd]] = "on" /\ peer'[fd] # peer[fd]
       => peer[fd] \in heirs]_vars

\* "Exit: x" (README.md 434): an accepted client that has sent its x is disconnected
\* by the server, without which its receiver and so its process would not end;
\* unless its x came in one chunk with other bytes (client.c 147-155, server.c 65-93).
LeaverIsDropped ==
  \A c \in Clients :
    c \in accepted /\ phase[c] \in {"leaving", "waiting"}
      ~> Dropped(c) \/ c \in swallowed
=============================================================================
